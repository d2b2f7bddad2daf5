---------------------------- MODULE VoiceNegotiation ----------------------------
(***************************************************************************)
(* Two browsers of a room set up their audio connection: webrtcEngine.ts   *)
(* and useVoiceChat.ts in each of them, and what the server sends them:    *)
(* the signals it relays, room:state, room:membership-ready and            *)
(* voice:peer-reset.                                                       *)
(*                                                                         *)
(* The RTCPeerConnection is external: its operations are queued and end    *)
(* later, an offer that arrives on top of an own one rolls that back, and  *)
(* the event negotiationneeded waits for a stable state.  ICE candidates,  *)
(* audio and the paid TURN service are left out (TURN is off by default).  *)
(***************************************************************************)
EXTENDS Naturals, Sequences, FiniteSets

CONSTANTS
  Initiator, Polite,  \* the browsers, the one with the smaller device id first
  NoPeer,             \* no entry in `peers` for the other browser
  MaxFaults,          \* bound: connections that break and pages that are reloaded
  MaxDescriptions     \* bound: offers and answers that are made

Browsers == {Initiator, Polite}
Other(d) == IF d = Initiator THEN Polite ELSE Initiator

VARIABLES
  link,        \* connection to the server: "on", "lost" (not noticed there) or "off"
  inbox,       \* events the server sent to a browser and it has not handled
  page,        \* initVoiceSession: "starting", "replaying" the early signals, "up"
  readyPending,\* membershipReadyPending
  early,       \* earlySignals
  shown,       \* is the other browser in the rendered list of connected players?
  desired,     \* is it in desiredPeers?
  refreshing,  \* refreshIceServers that wait, and whether reconcilePeers comes after
  pc,          \* the entry in `peers` for the other browser
  mic,         \* has the polite side started its microphone?
  drawn, faults

session == <<page, readyPending, early, shown>>
vars == <<link, inbox, session, desired, refreshing, pc, mic, drawn, faults>>

\* What a peer connection has to work off, and the entries there can be in `peers`.
Operations == [type : {"offer", "answer"}, id : Nat] \cup [type : {"make", "reply"}]
Peer ==
  [sig : {"stable", "local", "remote"}, making : BOOLEAN, answering : BOOLEAN, chain : Seq(Operations),
   needs : SUBSET {"channel", "restart"}, offered : SUBSET {"channel", "restart"}, offer : Nat,
   agreed : Seq(Nat), ice : {"new", "connected", "failed"}, timer : BOOLEAN, sends : BOOLEAN]
ASSUME PeersAssumption == Initiator # Polite /\ NoPeer \notin Peer

\* createPeerConnection.  Only the initiator adds the audio channel, which makes an
\* offer necessary.
NewPeer(d) ==
  [sig |-> "stable", making |-> FALSE, answering |-> FALSE, chain |-> <<>>,
   needs |-> IF d = Initiator THEN {"channel"} ELSE {}, offered |-> {}, offer |-> 0,
   agreed |-> <<>>, ice |-> "new", timer |-> FALSE, sends |-> d = Initiator]

\* One browser is alone in the room; the other opens the room's page.
Init ==
  /\ \E first \in Browsers :
       /\ link = [d \in Browsers |-> IF d = first THEN "on" ELSE "off"]
       /\ page = [d \in Browsers |-> IF d = first THEN "up" ELSE "starting"]
  /\ inbox = [d \in Browsers |-> <<>>] /\ early = [d \in Browsers |-> <<>>]
  /\ readyPending = [d \in Browsers |-> FALSE]
  /\ shown = [d \in Browsers |-> FALSE] /\ desired = [d \in Browsers |-> FALSE]
  /\ refreshing = [d \in Browsers |-> {}] /\ pc = [d \in Browsers |-> NoPeer]
  /\ mic = FALSE /\ drawn = 0 /\ faults = 0

-------------------------------------------------------------------------------
\* The server sends an event to a browser; what it sends to a connection that is lost
\* does not arrive.
Sent(boxes, d, events) ==
  IF link[d] = "on" THEN [boxes EXCEPT ![d] = @ \o events] ELSE boxes

\* sendSignal and the relay voice:signal: a target that is not there is an error, on
\* which the sender sets its restart timer.
Signalled(d, entry, message) ==
  /\ inbox' = Sent(inbox, Other(d), <<message>>)
  /\ pc' = [pc EXCEPT ![d] = IF link[Other(d)] = "off" THEN [entry EXCEPT !.timer = TRUE] ELSE entry]

HasPeer(d) == pc[d] # NoPeer
\* There is something (more) to negotiate.
Needing(entry, what) == [entry EXCEPT !.needs = @ \cup {what}]
\* connectPeer for an entry that may exist.
Connected(d, entry) == IF entry = NoPeer THEN NewPeer(d) ELSE entry
\* reconcilePeers
Reconciled(d, entry, wanted) == IF wanted THEN Connected(d, entry) ELSE NoPeer

\* setDesiredPeers; without TURN it also asks for ICE servers.
SetDesiredPeers(d, entry, waiting, wanted) ==
  /\ desired' = [desired EXCEPT ![d] = wanted]
  /\ pc' = [pc EXCEPT ![d] = Reconciled(d, entry, wanted)]
  /\ refreshing' = [refreshing EXCEPT ![d] = waiting \cup (IF wanted THEN {"refresh"} ELSE {})]

\* The list of players is rendered: setDesiredPeers when it is another one than before.
Rendered(d, entry, waiting, present) ==
  /\ shown' = [shown EXCEPT ![d] = present]
  /\ IF page[d] = "up" /\ shown[d] # present THEN SetDesiredPeers(d, entry, waiting, present)
     ELSE /\ pc' = [pc EXCEPT ![d] = entry] /\ refreshing' = [refreshing EXCEPT ![d] = waiting]
          /\ UNCHANGED desired

\* refreshIceServers goes on when it has the servers, or has waited eight seconds.
RefreshLands(d) ==
  \E why \in refreshing[d] :
    /\ refreshing' = [refreshing EXCEPT ![d] = @ \ {why}]
    /\ pc' = [pc EXCEPT ![d] =
         LET restarted == IF @ = NoPeer THEN @ ELSE Needing(@, "restart")
         IN IF why = "restore" /\ link[d] = "on" THEN Reconciled(d, restarted, desired[d]) ELSE restarted]
    /\ UNCHANGED <<link, inbox, session, desired, mic, drawn, faults>>

-------------------------------------------------------------------------------
\* initVoiceSession has its ICE servers; restoreVoiceAfterMembership if the membership
\* came first.
InitDone(d) ==
  /\ page[d] = "starting" /\ page' = [page EXCEPT ![d] = "replaying"]
  /\ readyPending' = [readyPending EXCEPT ![d] = FALSE]
  /\ refreshing' = IF readyPending[d] THEN [refreshing EXCEPT ![d] = @ \cup {"restore"}] ELSE refreshing
  /\ UNCHANGED <<link, inbox, early, shown, desired, pc, mic, drawn, faults>>

\* useVoiceChat when the session is up.
StartUp(d) ==
  /\ page[d] = "replaying" /\ early[d] = <<>>
  /\ page' = [page EXCEPT ![d] = "up"]
  /\ SetDesiredPeers(d, pc[d], refreshing[d], shown[d])
  /\ UNCHANGED <<link, inbox, readyPending, early, shown, mic, drawn, faults>>

Message(d) == Head(inbox[d])
Got(d, type) == link[d] = "on" /\ inbox[d] # <<>> /\ Message(d).type = type
Taken(d) == inbox' = [inbox EXCEPT ![d] = Tail(@)]

\* What the server emits in one go is handled in one go.  room:membership-ready, with
\* restoreVoiceAfterMembership, and the room of the acknowledgement.
HandleReady(d) ==
  /\ Got(d, "ready") /\ Taken(d)
  /\ readyPending' = [readyPending EXCEPT ![d] = page[d] = "starting"]
  /\ Rendered(d, NoPeer, refreshing[d] \cup (IF page[d] = "starting" THEN {} ELSE {"restore"}),
              Message(d).present)
  /\ UNCHANGED <<link, page, early, mic, drawn, faults>>

\* (mutant) the entry is kept.
KeepEntry(d) == Reconciled(d, pc[d], page[d] # "starting" /\ desired[d])
\* voice:peer-reset: the entry is replaced...
AfterReset(d) == Reconciled(d, NoPeer, page[d] # "starting" /\ desired[d])
\* ...and the room with the one who joined.
HandleReset(d) ==
  /\ Got(d, "reset") /\ Taken(d)
  /\ Rendered(d, AfterReset(d), refreshing[d], TRUE)
  /\ UNCHANGED <<link, page, readyPending, early, mic, drawn, faults>>

\* room:state, without the one who left.
HandleLeft(d) ==
  /\ Got(d, "left") /\ Taken(d)
  /\ Rendered(d, pc[d], refreshing[d], FALSE)
  /\ UNCHANGED <<link, page, readyPending, early, mic, drawn, faults>>

-------------------------------------------------------------------------------
ReadyForOffer(entry) == ~entry.making /\ (entry.sig = "stable" \/ entry.answering)
\* The initiator keeps its own offer when another one collides with it.
Ignores(d, entry, message) ==
  d = Initiator /\ message.type = "offer" /\ ~ReadyForOffer(entry)

Queued(entry, message) ==
  [entry EXCEPT !.answering = message.type = "answer", !.chain = Append(@, message)]

\* handleSignal up to setRemoteDescription.
Handled(d, message) ==
  LET entry == Connected(d, pc[d])
  IN /\ desired' = [desired EXCEPT ![d] = TRUE]
     /\ pc' = [pc EXCEPT ![d] = IF Ignores(d, entry, message) THEN entry ELSE Queued(entry, message)]

HandleSignal(d) ==
  /\ \E type \in {"offer", "answer"} : Got(d, type)
  /\ Taken(d)
  /\ IF page[d] = "starting"
     THEN early' = [early EXCEPT ![d] = Append(@, Message(d))] /\ UNCHANGED <<desired, pc>>
     ELSE Handled(d, Message(d)) /\ UNCHANGED early
  /\ UNCHANGED <<link, page, readyPending, shown, refreshing, mic, drawn, faults>>

Replay(d) ==
  /\ page[d] = "replaying" /\ early[d] # <<>>
  /\ early' = [early EXCEPT ![d] = Tail(@)] /\ Handled(d, Head(early[d]))
  /\ UNCHANGED <<link, inbox, page, readyPending, shown, refreshing, mic, drawn, faults>>

-------------------------------------------------------------------------------
\* negotiationneeded, and makeOffer up to setLocalDescription.
MakeOffer(d) ==
  /\ HasPeer(d) /\ pc[d].needs # {} /\ pc[d].sig = "stable" /\ pc[d].chain = <<>>
  /\ pc' = [pc EXCEPT ![d].making = TRUE, ![d].chain = <<[type |-> "make"]>>]
  /\ UNCHANGED <<link, inbox, session, desired, refreshing, mic, drawn, faults>>

\* The first operation in the connection's queue ends.
Ends(d, type) == HasPeer(d) /\ pc[d].chain # <<>> /\ Head(pc[d].chain).type = type
Done(d) == [pc[d] EXCEPT !.chain = Tail(@)]
May == drawn < MaxDescriptions

Offering(d) ==
  [Done(d) EXCEPT !.sig = "local", !.making = FALSE, !.offer = drawn + 1,
                  !.offered = pc[d].needs, !.needs = {}]
\* (setLocalDescription without an argument offers when there is nothing to answer: a
\* second offer was accepted before the first was answered.)
OfferMade(d) ==
  /\ Ends(d, "make") \/ (Ends(d, "reply") /\ pc[d].sig # "remote")
  /\ May /\ drawn' = drawn + 1
  /\ Signalled(d, Offering(d), [type |-> "offer", id |-> drawn'])
  /\ UNCHANGED <<link, session, desired, refreshing, mic, faults>>

\* setRemoteDescription(offer): the own offer is rolled back, what it was for is still
\* needed.
Accepting(d) ==
  [Done(d) EXCEPT !.sig = "remote", !.offer = Head(pc[d].chain).id, !.answering = FALSE,
                  !.needs = @ \cup pc[d].offered, !.offered = {},
                  !.chain = Append(@, [type |-> "reply"])]
OfferAccepted(d) ==
  /\ Ends(d, "offer") /\ pc' = [pc EXCEPT ![d] = Accepting(d)]
  /\ UNCHANGED <<link, inbox, session, desired, refreshing, mic, drawn, faults>>

\* attachLocalTrack, setLocalDescription, and the answer is sent.  It renews the ICE
\* credentials.
Answering(d) ==
  [Done(d) EXCEPT !.sig = "stable", !.agreed = <<pc[d].offer, drawn + 1>>,
                  !.needs = @ \ {"restart"}, !.ice = "new", !.sends = @ \/ mic]
AnswerMade(d) ==
  /\ Ends(d, "reply") /\ pc[d].sig = "remote" /\ May /\ drawn' = drawn + 1
  /\ Signalled(d, Answering(d), [type |-> "answer", id |-> drawn'])
  /\ UNCHANGED <<link, session, desired, refreshing, mic, faults>>

\* setRemoteDescription(answer), whatever offer it answers.
Answered(d) ==
  [Done(d) EXCEPT !.sig = "stable", !.agreed = <<pc[d].offer, Head(pc[d].chain).id>>,
                  !.offered = {}, !.ice = "new", !.answering = FALSE, !.sends = @ \/ mic]
AnswerAccepted(d) ==
  /\ Ends(d, "answer") /\ pc[d].sig = "local" /\ pc' = [pc EXCEPT ![d] = Answered(d)]
  /\ UNCHANGED <<link, inbox, session, desired, refreshing, mic, drawn, faults>>

\* It is rejected: isSettingRemoteAnswerPending stays set, and a restart is scheduled.
AnswerRejected(d) ==
  /\ Ends(d, "answer") /\ pc[d].sig # "local"
  /\ pc' = [pc EXCEPT ![d] = [Done(d) EXCEPT !.timer = TRUE]]
  /\ UNCHANGED <<link, inbox, session, desired, refreshing, mic, drawn, faults>>

-------------------------------------------------------------------------------
Signals == {"offer", "answer"}
Matched == HasPeer(Initiator) /\ HasPeer(Polite)
           /\ pc[Initiator].agreed = pc[Polite].agreed /\ pc[Polite].agreed # <<>>
\* ICE fails, and the restart timer fires, seconds later: whatever was to be said in
\* the meantime has been said.
Silent == \A d \in Browsers :
  /\ link[d] # "on" \/ \A i \in 1..Len(inbox[d]) : inbox[d][i].type \notin Signals
  /\ HasPeer(d) => pc[d].chain = <<>>

\* The connection is up, on this side; a restart that is scheduled is not needed.
IceConnects(d) ==
  /\ Matched /\ pc[d].ice # "connected"
  /\ pc' = [pc EXCEPT ![d].ice = "connected", ![d].timer = FALSE]
  /\ UNCHANGED <<link, inbox, session, desired, refreshing, mic, drawn, faults>>

IceFails(d) ==
  /\ Silent /\ HasPeer(d) /\ pc[d].agreed # <<>> /\ ~Matched /\ pc[d].ice # "failed"
  /\ pc' = [pc EXCEPT ![d].ice = "failed", ![d].timer = TRUE]
  /\ UNCHANGED <<link, inbox, session, desired, refreshing, mic, drawn, faults>>

\* scheduleIceRestart's timer.
Restarted(d) ==
  LET entry == [pc[d] EXCEPT !.timer = FALSE]
  IN IF desired[d] /\ entry.ice # "connected" THEN Needing(entry, "restart") ELSE entry
RestartFires(d) ==
  /\ Silent /\ HasPeer(d) /\ pc[d].timer
  /\ pc' = [pc EXCEPT ![d] = Restarted(d)]
  /\ UNCHANGED <<link, inbox, session, desired, refreshing, mic, drawn, faults>>

\* startLocalMic on the polite side, which has to change the direction of a channel
\* that is agreed.  (The initiator's sends from the start.)
StartMic ==
  /\ page[Polite] = "up" /\ ~mic /\ mic' = TRUE
  /\ pc' = [pc EXCEPT ![Polite] =
       IF @ = NoPeer \/ (@.sig # "remote" /\ @.agreed = <<>>) THEN @
       ELSE Needing(@, "channel")]
  /\ UNCHANGED <<link, inbox, session, desired, refreshing, drawn, faults>>

-------------------------------------------------------------------------------
\* The connection to the server breaks: socketDisconnectHandler.  The server may not
\* notice for a while.
Gone(d, noticed) ==
  /\ faults < MaxFaults /\ link[d] = "on" /\ faults' = faults + 1
  /\ link' = [link EXCEPT ![d] = IF noticed THEN "off" ELSE "lost"]
  /\ inbox' = [Sent(inbox, Other(d), IF noticed THEN <<[type |-> "left"]>> ELSE <<>>)
                 EXCEPT ![d] = <<>>]
  /\ pc' = [pc EXCEPT ![d] = NoPeer]

Drop(d) ==
  /\ \E noticed \in BOOLEAN : Gone(d, noticed)
  /\ UNCHANGED <<session, desired, refreshing, mic, drawn>>

\* The page is loaded anew.
Reload(d) ==
  /\ Gone(d, TRUE)
  /\ page' = [page EXCEPT ![d] = "starting"] /\ readyPending' = [readyPending EXCEPT ![d] = FALSE]
  /\ early' = [early EXCEPT ![d] = <<>>]
  /\ shown' = [shown EXCEPT ![d] = FALSE] /\ desired' = [desired EXCEPT ![d] = FALSE]
  /\ refreshing' = [refreshing EXCEPT ![d] = {}] /\ mic' = (mic /\ d # Polite)
  /\ UNCHANGED drawn

\* room:join: what the one who joins is sent, and what the other one.
ToJoiner(d) == [type |-> "ready", present |-> link[Other(d)] # "off"]
ToOther(d) == [type |-> "reset"]

Rejoin(d) ==
  /\ link[d] # "on" /\ link' = [link EXCEPT ![d] = "on"]
  /\ inbox' = [Sent(inbox, Other(d), <<ToOther(d)>>) EXCEPT ![d] = <<ToJoiner(d)>>]
  /\ UNCHANGED <<session, desired, refreshing, pc, mic, drawn, faults>>

Next ==
  \E d \in Browsers :
    \/ RefreshLands(d) \/ InitDone(d) \/ StartUp(d)
    \/ HandleReady(d) \/ HandleReset(d) \/ HandleLeft(d) \/ HandleSignal(d) \/ Replay(d)
    \/ MakeOffer(d) \/ OfferMade(d) \/ OfferAccepted(d)
    \/ AnswerMade(d) \/ AnswerAccepted(d) \/ AnswerRejected(d)
    \/ IceConnects(d) \/ IceFails(d) \/ RestartFires(d) \/ StartMic
    \/ Drop(d) \/ Reload(d) \/ Rejoin(d)

Spec == Init /\ [][Next]_vars
-------------------------------------------------------------------------------
\* Nothing is under way: no event, request, operation or timer is left that would
\* change anything.
Settled ==
  \A d \in Browsers :
    /\ link[d] = "on" /\ inbox[d] = <<>> /\ page[d] = "up" /\ refreshing[d] = {}
    /\ HasPeer(d) => /\ pc[d].chain = <<>> /\ ~pc[d].timer
                     /\ pc[d].sig = "stable" => pc[d].needs = {}
                     /\ pc[d].agreed # <<>> => Matched \/ pc[d].ice = "failed"

\* When everything has come to rest, the two browsers of the room are connected, and a
\* microphone that was started is heard: no order of offers that collide, of joins,
\* broken connections, reloads, resets and early signals leaves one of them waiting for
\* a description that nobody will send (handleSignal, makeOffer, scheduleIceRestart,
\* voice:peer-reset).
SettledIsConnected == Settled => Matched /\ (mic => pc[Polite].sends)
===============================================================================
