-------------------------------- MODULE Recovery --------------------------------
(***************************************************************************)
(* How a browser gets back its seat: the member's tabs (roomClient.ts),    *)
(* the room in memory with the join, exit and takeover handlers            *)
(* (socketHandlers.ts), and the snapshot behind them (RoomPersistence).    *)
(*                                                                         *)
(* One room and one browser.  Of the room it matters which token the       *)
(* browser's seat answers to, which tab's connection holds it, and how     *)
(* often the room has changed (ver).  Who may join is the matter of Rooms; *)
(* here the room always lets the browser in, and no one leaves it.         *)
(***************************************************************************)
EXTENDS RoomPersistence, ResumeTokens

CONSTANTS
  Tabs,         \* the browser's tabs
  Nobody,       \* no tab
  Ghost,        \* a connection that was already down when it got the seat
  MaxHandlers,  \* bound: handlers that wait at the same time
  MaxVisits,    \* bound: how often a user opens the room, or asks again
  MaxEvents     \* bound: lost connections, reloaded tabs, answers not awaited, crashes,
                \* failed operations and changes by others, together

\* What stands for nothing is not something.
ASSUME NothingAssumption ==
  /\ NoHash \notin Nat /\ NoRecord \notin Pair /\ MaxHandlers \in Nat
  /\ None \notin [ver : Nat, hash : Nat \cup {NoHash}]
  /\ None \notin [ver : Nat, hash : Nat \cup {NoHash}, sock : Tabs \cup {Nobody, Ghost}]
  /\ Nobody \notin Tabs /\ Ghost \notin Tabs

Slots == 1..MaxHandlers

VARIABLES
  mem,       \* the room in memory, or None
  handlers,  \* handlers at an await
  record,    \* localStorage: the browser's tokens for the room
  drawn,     \* how many tokens were drawn
  tab,       \* the module state of roomClient.ts in each tab
  standing, exited, clean,         \* history variables, see the properties
  visits, events                   \* how much of the bounds is used

browser == <<record, drawn, tab>>
history == <<standing, exited, clean>>
bounds == <<visits, events>>
vars == <<pvars, mem, handlers, browser, history, bounds>>

Holders == Tabs \cup {Nobody, Ghost}
NoPair == [current |-> 0, pending |-> 0]
Quiet == [net |-> FALSE, member |-> FALSE, asked |-> FALSE, req |-> "none",
          pair |-> NoPair, timer |-> FALSE]
Idle == [at |-> "idle", tab |-> Nobody, pair |-> NoPair, conn |-> FALSE,
         wanted |-> FALSE, room |-> None, evict |-> Nobody]
\* One more of the events that are bounded.
Counted == events < MaxEvents /\ events' = events + 1
\* The slot of the next handler that has to wait.
IsNext(i) == handlers[i] = Idle /\ \A k \in 1..(i - 1) : handlers[k] # Idle
\* A handler acts for the connection over which its message came (conn), and its
\* answer is awaited (wanted) until the browser gives up.
Handler(at, t) == [Idle EXCEPT !.at = at, !.tab = t, !.conn = TRUE, !.wanted = TRUE]
\* The connection of t is gone, for the handler that acts for it and for the one that
\* is to close it: a new connection of t is another socket.
Disconnected(h, t) ==
  [h EXCEPT !.conn = IF h.tab = t THEN FALSE ELSE @, !.evict = IF @ = t THEN Nobody ELSE @]

Init ==
  /\ mem = [ver |-> 1, hash |-> NoHash, sock |-> Nobody]
  /\ saved = None /\ late = {}
  /\ queue = <<Operation([ver |-> 1, hash |-> NoHash], {})>>
  /\ handlers = [i \in Slots |-> Idle]
  /\ record = NoRecord /\ drawn = 0
  /\ tab = [t \in Tabs |-> Quiet]
  /\ standing = [t \in Tabs |-> "asking"] /\ exited = FALSE /\ clean = TRUE
  /\ visits = 0 /\ events = 0

\* (mutant) the room is written as it is, connections included.
WholeRoom(room) == room
\* snapshotRoom and roomFromSnapshot: connections are not kept, token hashes are.
Snapshot(room) == [ver |-> room.ver, hash |-> room.hash]
Restored(snap) == [ver |-> snap.ver, hash |-> snap.hash, sock |-> Nobody]
Changed(room) == [room EXCEPT !.ver = @ + 1]
Seated(t) == mem # None /\ mem.sock = t

-------------------------------------------------------------------------------
(* The browser.                                                            *)

\* performJoin without a request in flight; it is sent when there is a connection.
PerformJoin(t, state) ==
  LET pair == Prepared(record, drawn) IN
  /\ record' = pair
  /\ drawn' = drawn + DrawnToPrepare(record)
  /\ tab' = [tab EXCEPT ![t] = [state EXCEPT
               !.pair = pair, !.req = IF state.net THEN "sent" ELSE "wait"]]

\* The connection is gone, and with it what was under way.
Offline(state) ==
  [state EXCEPT !.net = FALSE, !.req = IF @ \in {"sent", "served", "ok", "no"} THEN "lost" ELSE @]

\* joinRoom, also as the retry button of Room.tsx; a request in flight is shared.
JoinRoom(t) ==
  LET asking == [tab[t] EXCEPT !.member = TRUE, !.asked = TRUE] IN
  /\ visits < MaxVisits /\ ~tab[t].asked
  /\ visits' = visits + 1
  /\ standing' = [standing EXCEPT ![t] = "asking"]
  /\ IF tab[t].req = "none" THEN PerformJoin(t, asking)
     ELSE tab' = [tab EXCEPT ![t] = asking] /\ UNCHANGED <<record, drawn>>
  /\ UNCHANGED <<pvars, mem, handlers, exited, clean, events>>

\* The connection is (again) there: what waits for it is sent, and a member joins.
Connect(t) ==
  LET online == [tab[t] EXCEPT !.net = TRUE] IN
  /\ ~tab[t].net /\ tab[t].member
  /\ IF tab[t].req = "none" THEN PerformJoin(t, online)
     ELSE /\ tab' = [tab EXCEPT ![t] = [online EXCEPT !.req = IF @ = "wait" THEN "sent" ELSE @]]
          /\ UNCHANGED <<record, drawn>>
  /\ UNCHANGED <<pvars, mem, handlers, history, bounds>>

\* (mutant) the retry is forgotten.
GivesUp(state) == state
ScheduleRejoin(state) == IF state.member THEN [state EXCEPT !.timer = TRUE] ELSE state

\* No connection for 12 seconds, no answer for 10: tried again two seconds later.
TimeOut(t) ==
  /\ \/ tab[t].req \in {"wait", "lost"} /\ UNCHANGED events
     \/ tab[t].req = "served" /\ Counted
  /\ tab' = [tab EXCEPT ![t] = ScheduleRejoin([@ EXCEPT !.req = "none", !.asked = FALSE])]
  /\ handlers' = [i \in Slots |-> IF handlers[i].tab = t
                    THEN [handlers[i] EXCEPT !.wanted = FALSE] ELSE handlers[i]]
  /\ UNCHANGED <<pvars, mem, record, drawn, history, visits>>

RejoinFires(t) ==
  LET fired == [tab[t] EXCEPT !.timer = FALSE] IN
  /\ tab[t].timer
  /\ IF tab[t].member /\ tab[t].net /\ tab[t].req = "none" THEN PerformJoin(t, fired)
     ELSE tab' = [tab EXCEPT ![t] = fired] /\ UNCHANGED <<record, drawn>>
  /\ UNCHANGED <<pvars, mem, handlers, history, bounds>>

AcceptReceived(t) ==
  /\ tab[t].req = "ok"
  /\ record' = Committed(record, drawn)
  /\ drawn' = drawn + 1
  /\ tab' = [tab EXCEPT ![t] = [@ EXCEPT !.req = "none", !.member = TRUE, !.asked = FALSE]]
  /\ UNCHANGED <<pvars, mem, handlers, history, bounds>>

\* A refusal ends the membership when the user asked; after a rejoin it is shown only.
RefusalReceived(t) ==
  /\ tab[t].req = "no"
  /\ tab' = [tab EXCEPT ![t] = [@ EXCEPT !.req = "none", !.asked = FALSE,
                                         !.member = tab[t].member /\ ~tab[t].asked]]
  /\ UNCHANGED <<pvars, mem, handlers, record, drawn, history, bounds>>

-------------------------------------------------------------------------------
(* room:join.                                                              *)

\* Everything between the last await before the seat is given and the next one: i
\* is the handler's slot, h what it knows, room what findRoom returns.
Answer(t, h, what) ==
  tab' = IF t \in Tabs /\ h.wanted /\ tab[t].req = "served"
         THEN [tab EXCEPT ![t].req = what] ELSE tab
Refuse(i, h) == handlers' = [handlers EXCEPT ![i] = Idle] /\ Answer(h.tab, h, "no")
Accepts(room, pair) == room # None /\ (room.hash = NoHash \/ Authorized(room.hash, pair))
GiveSeat(i, h, room) ==
  LET t == h.tab
      joined == Changed([room EXCEPT !.hash = h.pair.pending, !.sock = IF h.conn THEN t ELSE Ghost])
      before == IF room.sock \in Tabs \ {t} THEN room.sock ELSE Nobody
  IN
  /\ mem' = joined
  /\ queue' = Enqueued(Snapshot(joined), {i})
  /\ handlers' = [handlers EXCEPT ![i] = [h EXCEPT !.at = "write", !.evict = before]]
  /\ standing' = [u \in Tabs |->
       IF u = t THEN IF standing[u] = "asking" THEN "held" ELSE standing[u]
       ELSE IF standing[u] = "held" THEN "superseded" ELSE standing[u]]
Decide(i, h, room) ==
  IF Accepts(room, h.pair)
  THEN GiveSeat(i, h, room) /\ UNCHANGED tab
  ELSE Refuse(i, h) /\ mem' = room /\ UNCHANGED <<queue, standing>>

\* ensureRoomLoaded: in memory, behind the writes that are queued, or from Redis.
Join(i, t) ==
  LET h == [Handler("get", t) EXCEPT !.pair = tab[t].pair] IN
  /\ tab[t].req = "sent" /\ IsNext(i)
  /\ tab' = [tab EXCEPT ![t].req = "served"]
  /\ IF mem # None
     THEN /\ Accepts(mem, h.pair)
          /\ GiveSeat(i, h, mem)
     ELSE /\ UNCHANGED <<mem, standing>>
          /\ IF queue = <<>>
             THEN handlers' = [handlers EXCEPT ![i] = h] /\ UNCHANGED queue
             ELSE /\ handlers' = [handlers EXCEPT ![i] = [h EXCEPT !.at = "queue"]]
                  /\ queue' = Behind(i)
  /\ UNCHANGED <<saved, late, record, drawn, exited, clean, bounds>>

JoinRefused(t) ==
  /\ tab[t].req = "sent" /\ mem # None /\ ~Accepts(mem, tab[t].pair)
  /\ tab' = [tab EXCEPT ![t].req = "no"]
  /\ UNCHANGED <<pvars, mem, handlers, record, drawn, history, bounds>>

\* (mutant) what was loaded replaces what is in memory.
LoadWins == IF saved = None THEN mem ELSE Restored(saved)
\* restoreRoom gives back the room that another handler has restored meanwhile.
AfterLoad == IF mem # None \/ saved = None THEN mem ELSE Restored(saved)

\* The snapshot arrives.
Loaded(i) ==
  /\ handlers[i].at = "get"
  /\ Decide(i, handlers[i], AfterLoad)
  /\ UNCHANGED <<saved, late, record, drawn, exited, clean, bounds>>

\* It cannot be read, or the write it waited for has failed.
NotLoaded(i) ==
  /\ \/ handlers[i].at = "get" /\ Counted
     \/ handlers[i].at = "unread" /\ UNCHANGED events
  /\ Decide(i, handlers[i], mem)
  /\ clean' = FALSE
  /\ UNCHANGED <<saved, late, record, drawn, exited, visits>>

\* After the write: the answer, and the tab that had the seat is sent away.
Joined(i) ==
  LET h == handlers[i]
      away == h.evict \in Tabs /\ tab[h.evict].net
      told == [tab EXCEPT ![h.tab].req = IF h.wanted /\ @ = "served" THEN "ok" ELSE @]
  IN
  /\ h.at = "written"
  /\ handlers' = [k \in Slots |->
       IF k = i THEN Idle ELSE IF away THEN Disconnected(handlers[k], h.evict) ELSE handlers[k]]
  /\ tab' = IF away
            THEN [told EXCEPT ![h.evict] = [Offline(@) EXCEPT !.member = FALSE]]
            ELSE told
  /\ IF away /\ Seated(h.evict)
     THEN /\ mem' = Changed([mem EXCEPT !.sock = Nobody])
          /\ queue' = Enqueued(Snapshot(mem'), {})
     ELSE UNCHANGED <<mem, queue>>
  /\ UNCHANGED <<saved, late, record, drawn, history, bounds>>

-------------------------------------------------------------------------------
(* What others do to the room.                                             *)

\* A bid, a card, a bot, a new game: the room changes and is written at once.
Change ==
  /\ mem # None /\ Counted
  /\ mem' = Changed(mem)
  /\ queue' = Enqueued(Snapshot(mem'), {})
  /\ UNCHANGED <<saved, late, handlers, browser, history, visits>>

\* room:bot-takeover, room:remove-seat and a join into a seat on offer write the room
\* they changed only after a revocation.
ChangeSlowly(i) ==
  /\ mem # None /\ Counted /\ IsNext(i)
  /\ mem' = Changed(mem)
  /\ handlers' = [handlers EXCEPT ![i] = Handler("revoke", Nobody)]
  /\ UNCHANGED <<pvars, browser, history, visits>>

\* They hold on to the room object, even if it has been removed from memory since.
WriteChange(i) ==
  LET room == IF handlers[i].room = None THEN mem ELSE handlers[i].room IN
  /\ handlers[i].at = "revoke"
  /\ queue' = Enqueued(Snapshot(room), {})
  /\ handlers' = [handlers EXCEPT ![i] = Idle]
  /\ clean' = (clean /\ handlers[i].room = None)
  /\ UNCHANGED <<saved, late, mem, browser, standing, exited, bounds>>

\* game:exit: the room is gone at once; its snapshot goes after the revocations.
Exit(i) ==
  /\ mem # None /\ ~exited /\ Counted /\ IsNext(i)
  /\ exited' = TRUE
  /\ mem' = None
  /\ handlers' = [k \in Slots |->
       IF k = i THEN [Handler("exit", mem.sock) EXCEPT !.conn = mem.sock \in Tabs]
       ELSE IF handlers[k].at = "revoke" /\ handlers[k].room = None
       THEN [handlers[k] EXCEPT !.room = mem] ELSE handlers[k]]
  /\ UNCHANGED <<pvars, browser, standing, clean, visits>>

ExitDelete(i) ==
  /\ handlers[i].at = "exit"
  /\ queue' = Enqueued(None, {i})
  /\ handlers' = [handlers EXCEPT ![i].at = "deleting"]
  /\ UNCHANGED <<saved, late, mem, browser, history, bounds>>

\* room:exited: a tab that was in the room forgets it, and its tokens.
ExitTold(i) ==
  LET t == handlers[i].tab IN
  /\ handlers[i].at = "deleted"
  /\ handlers' = [handlers EXCEPT ![i] = Idle]
  /\ IF handlers[i].conn
     THEN tab' = [tab EXCEPT ![t].member = FALSE] /\ record' = NoRecord
     ELSE UNCHANGED <<tab, record>>
  /\ UNCHANGED <<pvars, mem, drawn, history, bounds>>

-------------------------------------------------------------------------------
(* Redis answers, or does not.                                             *)

\* Who waited for the operation goes on; a failed write is only warned of, a failed
\* operation before a read counts as a failed read.
Woken(h, ok) ==
  CASE h.at = "write" -> [h EXCEPT !.at = "written"]
    [] h.at = "deleting" -> [h EXCEPT !.at = "deleted"]
    [] h.at = "queue" -> [h EXCEPT !.at = IF ok THEN "get" ELSE "unread"]
    [] OTHER -> h
WakeUp(ok) ==
  handlers' = [i \in Slots |-> IF i \in Ending.wakes THEN Woken(handlers[i], ok) ELSE handlers[i]]

RedisDone ==
  /\ Lands /\ WakeUp(TRUE)
  /\ UNCHANGED <<mem, browser, history, bounds>>

RedisFails ==
  /\ Counted
  /\ Fails /\ WakeUp(FALSE)
  /\ clean' = FALSE
  /\ UNCHANGED <<mem, browser, standing, exited, visits>>

RedisLate ==
  /\ LandsLate
  /\ clean' = FALSE
  /\ UNCHANGED <<mem, handlers, browser, standing, exited, bounds>>

-------------------------------------------------------------------------------
(* Failures.                                                               *)

\* The connection breaks; the server frees the seat and saves the room.  With
\* reload, the page starts anew (a refresh, or the browser is started again).
Drop(t, reload) ==
  /\ tab[t].net /\ Counted
  /\ tab' = [tab EXCEPT ![t] = IF reload THEN Quiet ELSE Offline(@)]
  /\ handlers' = [i \in Slots |-> LET h == Disconnected(handlers[i], t) IN
                    IF h.tab = t THEN [h EXCEPT !.wanted = FALSE] ELSE h]
  /\ IF Seated(t)
     THEN mem' = Changed([mem EXCEPT !.sock = Nobody]) /\ queue' = Enqueued(Snapshot(mem'), {})
     ELSE UNCHANGED <<mem, queue>>
  /\ UNCHANGED <<saved, late, record, drawn, history, visits>>

\* The server process ends and starts again.
Crash ==
  /\ Counted
  /\ mem' = None
  /\ QueueIsLost
  /\ handlers' = [i \in Slots |-> Idle]
  /\ tab' = [t \in Tabs |-> Offline(tab[t])]
  /\ clean' = (clean /\ ~exited)
  /\ UNCHANGED <<record, drawn, standing, exited, visits>>

Client(t) == Connect(t) \/ TimeOut(t) \/ RejoinFires(t) \/ AcceptReceived(t) \/ RefusalReceived(t)
Serve(t) == JoinRefused(t) \/ \E i \in Slots : Join(i, t)
Continue(i) ==
  Loaded(i) \/ NotLoaded(i) \/ Joined(i) \/ WriteChange(i) \/ ExitDelete(i) \/ ExitTold(i)
Redis == RedisDone \/ RedisFails

Next ==
  \/ \E t \in Tabs : JoinRoom(t) \/ Client(t) \/ Serve(t) \/ Drop(t, TRUE) \/ Drop(t, FALSE)
  \/ \E i \in Slots : Continue(i) \/ ChangeSlowly(i) \/ Exit(i)
  \/ Change \/ Redis \/ RedisLate \/ Crash

Spec == Init /\ [][Next]_vars

\* Timers fire, messages on a connection that lasts arrive, and every Redis operation
\* ends within its timeout.  Nobody has to open the room or change it.
FairSpec ==
  /\ Spec
  /\ \A t \in Tabs : WF_vars(Client(t)) /\ WF_vars(Serve(t))
  /\ \A i \in Slots : WF_vars(Continue(i))
  /\ WF_vars(Redis)

-------------------------------------------------------------------------------
(* Properties.                                                             *)

Snapshots == [ver : Nat, hash : Nat \cup {NoHash}]
\* Type invariant.
TypeOK ==
  /\ saved \in Snapshots \cup {None} /\ late \subseteq Snapshots \cup {None}
  /\ \A k \in 1..Len(queue) :
       queue[k].value \in Snapshots \cup {None} /\ queue[k].wakes \subseteq Slots
  /\ mem = None \/ mem \in [ver : Nat, hash : Nat \cup {NoHash}, sock : Holders]
  /\ record \in Pair \cup {NoRecord} /\ drawn \in Nat
  /\ \A t \in Tabs : tab[t] \in
       [net : BOOLEAN, member : BOOLEAN, asked : BOOLEAN, pair : Pair, timer : BOOLEAN,
        req : {"none", "wait", "sent", "served", "ok", "no", "lost"}]

\* Whatever crashes, drops, lost answers and repeated joins there were, the token
\* record of the browser proves its seat, in memory and in the snapshot a restarted
\* server would load.  `clean`: no Redis operation failed or was late, and no room
\* that was exited was written again; the browser has one tab.
Reclaims(hash) == hash = NoHash \/ (record # NoRecord /\ Authorized(hash, record))
SeatReclaimable ==
  clean /\ ~exited =>
    /\ mem # None => Reclaims(mem.hash)
    /\ saved # None => Reclaims(saved.hash)

\* What Redis holds, the writes that are queued and the room in memory are in the
\* order in which they came to be: an older state never overwrites a newer one.  (After
\* game:exit a join that was loading before may restore what was written before.)
NotNewer(a, b) == a # None /\ b # None => a.ver <= b.ver
WritesInOrder ==
  clean /\ ~exited =>
    /\ NotNewer(saved, mem)
    /\ \A k \in 1..Len(queue) :
         /\ NotNewer(saved, queue[k].value) /\ NotNewer(queue[k].value, mem)
         /\ \A j \in 1..(k - 1) : NotNewer(queue[j].value, queue[k].value)

\* While the process runs, no accepted change is undone by a snapshot: the room in
\* memory is never replaced by an older one, however many joins load it at once.
MemoryIsNotUndone ==
  [][mem # None /\ mem' # None => mem'.ver >= mem.ver]_vars

\* A room that was exited leaves no snapshot, unless somebody is back in it.
ExitedRoomIsForgotten ==
  clean /\ exited /\ mem = None /\ queue = <<>> /\ (\A i \in Slots : handlers[i] = Idle)
    => saved = None

\* A member whose connection is down, or whose join is under way or due, gets the
\* seat or is told why not, whatever becomes of connections, answers, the server
\* process and Redis.  (Ghost: a join whose connection broke while it was loading may
\* take the seat from the join that followed it.)
Returning(t) == tab[t].member /\ (~tab[t].net \/ tab[t].req # "none" \/ tab[t].timer)
MembersAreAnswered ==
  \A t \in Tabs :
    Returning(t) ~> \/ Seated(t) \/ Seated(Ghost)
                    \/ ~tab[t].member \/ tab[t].req = "no" \/ exited

\* "Rotating on every takeover prevents the superseded tab from stealing the seat
\* back" (membershipTokens.ts:26-27): a tab whose seat another tab took does not get
\* it again unless its user asks.
SupersededTabStaysOut == \A t \in Tabs : Seated(t) => standing[t] # "superseded"
===============================================================================
