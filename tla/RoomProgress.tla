------------------------------ MODULE RoomProgress ------------------------------
(***************************************************************************)
(* What moves a game on by itself: the bot timer and the trick timer of a  *)
(* room (socketHandlers.ts), the private assist of its players             *)
(* (privateAssist.ts), and the events that have to set the timers anew.    *)
(*                                                                         *)
(* The game is the abstract one of Table, which the rules engine           *)
(* implements: who must act next is all that the timers look at.  Seats    *)
(* are taken, left and offered in module Rooms; here it matters who is     *)
(* connected, and whether the handler that changed something has reached   *)
(* scheduleRoomProgress or still awaits Redis or a revocation.             *)
(***************************************************************************)
EXTENDS Table, FiniteSets

CONSTANTS
  Humans, Bots,  \* device ids of browsers and of bots
  MaxDeals,      \* bound: games that are dealt
  MaxOwing,      \* bound: handlers that wait at the same time
  NoTimer        \* no timeout is set

ASSUME DevicesAssumption == Devices = Humans \cup Bots /\ Humans \cap Bots = {}
ASSUME BoundsAssumption == MaxDeals \in Nat /\ MaxOwing \in Nat
\* No timeout is set for no pile.
ASSUME NoTimerAssumption == NoTimer \notin Nat \X Nat \X Int \X Seq(Devices)

VARIABLES
  online,      \* humans who are connected to the room
  assist,      \* private assist of a connection
  botTimer,    \* botTimers: what the timeout was set for
  trickTimer,  \* trickTimers
  owing,       \* handlers at an await, with scheduleRoomProgress to come
  leaving,     \* players whose room:leave waits for the revocation
  deal         \* how many games were dealt

timers == <<botTimer, trickTimer>>
handling == <<owing, leaving>>
vars == <<tvars, online, assist, timers, handling, deal>>

Init ==
  /\ TInit
  /\ online = Humans /\ assist = [h \in Humans |-> "locked"]
  /\ botTimer = NoTimer /\ trickTimer = NoTimer
  /\ owing = 0 /\ leaving = {} /\ deal = 0

-------------------------------------------------------------------------------
Seats == MembersOf(seats)
Playing == stage \in {"bidding", "trick"}
\* trickPendingResolution: the pile lies on the table until the timer resolves it.
PileComplete == stage = "trick" /\ toPlay = <<>>
Actor == Head(IF stage = "bidding" THEN toBid ELSE toPlay)
Active == online # {} /\ Playing /\ ~PileComplete
\* currentAutomatedActor: a bot, or a connected human with private assist.
Automated(d) == d \in Bots \/ (d \in online /\ assist[d] = "on")

\* The turn a timer is set for: the fingerprint of scheduleBotTurn...
Fingerprint ==
  [round |-> rnd, phase |-> stage, bidTurnIndex |-> Len(seats) - Len(toBid),
   turnSeat |-> IndexIn(seats, Actor),
   trick |-> IF stage = "trick" THEN Len(seats) - Len(toPlay) ELSE 0, hand |-> handsLeft]
\* ...and, as a history variable of the timer, which turn it really is.
Turn == <<deal, rnd, stage, handsLeft, Actor>>

\* scheduleBotTurn clears the timer and sets it for the automated actor, if any; nobody
\* plays on for a room in which no human is connected.
TimerDue ==
  IF Active /\ Automated(Actor)
  THEN [actor |-> Actor, assist |-> Actor \in Humans, print |-> Fingerprint, turn |-> Turn]
  ELSE NoTimer
\* (mutant) a timer with the same fingerprint is kept, as the trick timer is.
KeepSamePrint(due) ==
  botTimer' = IF botTimer # NoTimer /\ due # NoTimer /\ botTimer.print = due.print
              THEN botTimer ELSE due
ReplaceBotTimer(due) == botTimer' = due

\* trickFingerprint: cards are not dealt twice, so a pile is known by its hand.
PilePrint == <<deal, rnd, handsLeft, seats>>

\* (mutant) only bots are scheduled.
ScheduleBots == ReplaceBotTimer(TimerDue') /\ trickTimer' = trickTimer
\* scheduleRoomProgress, in the state the handler leaves.
ScheduleProgress ==
  IF PileComplete'
  THEN trickTimer' = PilePrint' /\ botTimer' = botTimer
  ELSE ReplaceBotTimer(TimerDue') /\ trickTimer' = trickTimer
\* (mutant) it forgets to.
NothingOwed == UNCHANGED <<owing, timers>>
\* A handler that awaits before it schedules.
Owe == owing < MaxOwing /\ owing' = owing + 1 /\ UNCHANGED timers

-------------------------------------------------------------------------------
(* Messages that schedule in the same turn.                                *)

Someone == online \cap Seats # {}

\* room:start deals to who is connected, also while a game is on.
Present == Seats \cap (online \cup Bots)
InTableOrder(order) ==
  \A i, j \in DOMAIN order : i < j => IndexIn(seats, order[i]) < IndexIn(seats, order[j])
StartGame ==
  /\ online # {} /\ deal < MaxDeals /\ deal' = deal + 1
  /\ IF stage = "none"
     THEN \E order \in SeatOrders :
            online \subseteq MembersOf(order) /\ Deal(order, order[1], 1)
     ELSE /\ Cardinality(Present) >= 2
          /\ \E order \in [1..Cardinality(Present) -> Present] :
               InTableOrder(order) /\ Deal(order, order[1], 1)
  /\ UNCHANGED <<online, assist, handling>>
  /\ ScheduleProgress

PlayAgain ==
  /\ Someone /\ deal < MaxDeals /\ deal' = deal + 1
  /\ Again
  /\ UNCHANGED <<online, assist, handling>>
  /\ ScheduleProgress

\* game:bid and game:play.
Move(d) == Playing /\ ~PileComplete /\ Actor = d /\ (BidNext \/ PlayNext)
HumanMoves(d) ==
  /\ d \in online
  /\ Move(d)
  /\ UNCHANGED <<online, assist, handling, deal>>
  /\ ScheduleProgress

\* private-assist:unlock schedules nothing, private-assist:set does.
Unlock(d) ==
  /\ d \in online
  /\ assist' = [assist EXCEPT ![d] = "off"]
  /\ UNCHANGED <<tvars, online, timers, handling, deal>>
SetAssist(d, state) ==
  /\ d \in online /\ assist[d] # "locked"
  /\ assist' = [assist EXCEPT ![d] = state]
  /\ UNCHANGED <<tvars, online, handling, deal>>
  /\ ScheduleProgress

\* room:replacement changes nothing the timers look at.
OfferSeat ==
  /\ Someone
  /\ UNCHANGED <<tvars, online, assist, handling, deal>>
  /\ ScheduleProgress

-------------------------------------------------------------------------------
(* Messages that schedule after an await.                                  *)

Cleared(d) == [assist EXCEPT ![d] = "locked"]

\* room:join of a player who has a seat, over a new connection or once more over the
\* one whose private assist it is.
Rejoin(d) ==
  /\ d \in Humans /\ d \in Seats
  /\ online' = online \cup {d}
  /\ assist' \in {assist, Cleared(d)}
  /\ Owe
  /\ UNCHANGED <<tvars, leaving, deal>>

Vacant(d) == d \in Seats /\ d \notin online
\* room:join of a newcomer into the seat of a player who is away.
JoinSeat(from, to) ==
  /\ from \in Humans /\ Vacant(from) /\ to \in Humans \ online
  /\ Replaced(from, to)
  /\ online' = online \cup {to}
  /\ assist' \in {assist, Cleared(to)}
  /\ Owe
  /\ UNCHANGED <<leaving, deal>>

\* room:bot-takeover, and room:remove-seat (of a bot too).
Takeover(from, bot) ==
  /\ Someone /\ from \in Humans /\ Vacant(from) /\ bot \in Bots
  /\ Replaced(from, bot)
  /\ Owe
  /\ UNCHANGED <<online, assist, leaving, deal>>
\* (mutant) it does not ask whether the player is back.
RemoveAnySeat(d) ==
  /\ Someone /\ d \in Seats
  /\ Removed(d)
  /\ Owe
  /\ UNCHANGED <<online, assist, leaving, deal>>
RemoveSeat(d) ==
  /\ Someone /\ Vacant(d)
  /\ Removed(d)
  /\ Owe
  /\ UNCHANGED <<online, assist, leaving, deal>>

\* room:kick takes the seat's connection now and clears its assist after the await:
\* by then nobody is connected over it.
Kick(d) ==
  /\ Someone /\ d \in online
  /\ online' = online \ {d}
  /\ assist' = Cleared(d)
  /\ Owe
  /\ UNCHANGED <<tvars, leaving, deal>>

\* room:leave frees the seat after the await only.
Leave(d) ==
  /\ d \in online \ leaving
  /\ assist' = Cleared(d)
  /\ leaving' = leaving \cup {d}
  /\ UNCHANGED <<tvars, online, timers, owing, deal>>
LeaveDone(d) ==
  /\ d \in leaving
  /\ leaving' = leaving \ {d}
  /\ online' = online \ {d}
  /\ UNCHANGED <<tvars, assist, owing, deal>>
  /\ ScheduleProgress

\* The await is over.
Scheduled ==
  /\ owing > 0 /\ owing' = owing - 1
  /\ UNCHANGED <<tvars, online, assist, leaving, deal>>
  /\ ScheduleProgress

-------------------------------------------------------------------------------
(* Timers and failures.                                                    *)

\* The timeout acts when it is still the same turn of the same automated actor.
MayAct ==
  /\ Active /\ Actor = botTimer.actor
  /\ Automated(Actor) /\ (Actor \in Humans) = botTimer.assist
  /\ Fingerprint = botTimer.print
BotFires ==
  /\ botTimer # NoTimer
  /\ UNCHANGED <<online, assist, handling, deal>>
  /\ IF MayAct
     THEN /\ Move(Actor)
          /\ IF PileComplete' THEN trickTimer' = PilePrint' /\ botTimer' = NoTimer
             ELSE botTimer' = TimerDue' /\ trickTimer' = trickTimer
     ELSE botTimer' = NoTimer /\ UNCHANGED <<tvars, trickTimer>>

\* The timer of a pile that has changed meanwhile is set again for what is there now.
OtherPile ==
  IF PileComplete THEN trickTimer' = PilePrint /\ botTimer' = botTimer
  ELSE trickTimer' = NoTimer /\ botTimer' = TimerDue
TrickFires ==
  /\ trickTimer # NoTimer
  /\ UNCHANGED <<online, assist, handling, deal>>
  /\ IF PileComplete /\ PilePrint = trickTimer
     THEN Resolve /\ trickTimer' = NoTimer /\ botTimer' = TimerDue'
     ELSE UNCHANGED tvars /\ OtherPile

\* Nothing is scheduled: the timers find out when they fire.
Disconnect(d) ==
  /\ d \in online
  /\ online' = online \ {d}
  /\ assist' = Cleared(d)
  /\ UNCHANGED <<tvars, timers, handling, deal>>

\* The process ends; the room is restored from its snapshot by the next join.
Crash ==
  /\ online' = {} /\ assist' = [h \in Humans |-> "locked"]
  /\ botTimer' = NoTimer /\ trickTimer' = NoTimer
  /\ owing' = 0 /\ leaving' = {}
  /\ UNCHANGED <<tvars, deal>>

Message(d) ==
  \/ HumanMoves(d) \/ Unlock(d) \/ SetAssist(d, "on") \/ SetAssist(d, "off")
  \/ Rejoin(d) \/ Kick(d) \/ Leave(d)
SeatMessage ==
  \/ \E from, to \in Devices : JoinSeat(from, to) \/ Takeover(from, to)
  \/ \E d \in Devices : RemoveSeat(d)
Next ==
  \/ StartGame \/ PlayAgain \/ OfferSeat \/ SeatMessage
  \/ \E d \in Humans : Message(d) \/ LeaveDone(d) \/ Disconnect(d)
  \/ Scheduled \/ BotFires \/ TrickFires \/ Crash

Spec == Init /\ [][Next]_vars

\* Timeouts fire and awaits end.
FairSpec ==
  /\ Spec
  /\ WF_vars(BotFires) /\ WF_vars(TrickFires) /\ WF_vars(Scheduled)
  /\ \A d \in Humans : WF_vars(LeaveDone(d))

-------------------------------------------------------------------------------
(* Properties.                                                             *)

\* Who is connected to a game has one of its seats.
ConnectedHaveSeats == stage # "none" => online \subseteq Seats
TypeOK ==
  /\ online \subseteq Humans /\ ConnectedHaveSeats
  /\ assist \in [Humans -> {"locked", "off", "on"}]
  /\ botTimer = NoTimer \/ botTimer.actor \in Devices
  /\ owing \in 0..MaxOwing /\ leaving \subseteq Humans /\ deal \in 0..MaxDeals

\* While a human is connected, a complete pile has a timer that will look at it and an
\* automated turn has the timer that will play it, as soon as no handler is between
\* its change and scheduleRoomProgress: every path that changes whose turn it is, or
\* who is automated, gets there (297-300, 406, 472, 528, 594, 643, 655, 697-699).
AutomationArmed ==
  online # {} /\ owing = 0 =>
    /\ PileComplete => trickTimer # NoTimer
    /\ Active /\ Automated(Actor) => botTimer = TimerDue

\* A timeout only plays the turn it was set for, although its fingerprint does not name
\* the game and knows the hand only by the number of the actor's cards (240): changed
\* seats, a new game or a restart in between never let it play another turn.  And it
\* moves nobody but a bot or a connected player who has private assist on at that
\* moment, and nothing while no human is connected.
TimerPlaysItsTurn ==
  [][BotFires /\ tvars' # tvars =>
       /\ botTimer.turn = Turn
       /\ online # {} /\ (Actor \in Bots \/ (Actor \in online /\ assist[Actor] = "on"))]_vars

\* The table does not stop at a pile or at an automated turn while a human is
\* connected, whoever comes, goes or changes seats and whatever crashes.
Waiting == online # {} /\ (PileComplete \/ (Active /\ Automated(Actor)))
TableProgresses == Waiting ~> ~Waiting
===============================================================================
