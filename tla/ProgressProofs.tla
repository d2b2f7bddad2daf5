----------------------------- MODULE ProgressProofs -----------------------------
(***************************************************************************)
(* Proofs about RoomProgress: the table a timer looks at always has an     *)
(* actor when somebody must act, a timeout plays only the turn it was set  *)
(* for, and the automation of a room with nobody at an await is armed.     *)
(***************************************************************************)
EXTENDS RoomProgress, SequenceTheorems, FiniteSetTheorems, TLAPS

-------------------------------------------------------------------------------
(* Sequences of devices.                                                   *)

Distinct(s) == \A i, j \in 1..Len(s) : s[i] = s[j] => i = j

\* A member of a sequence has an index.
LEMMA IndexFound ==
  ASSUME NEW S, NEW s \in Seq(S), NEW d \in MembersOf(s)
  PROVE  /\ IndexIn(s, d) \in 1..Len(s) /\ s[IndexIn(s, d)] = d
         /\ Len(s) \in Nat \ {0} /\ d \in S
BY DEF IndexIn, MembersOf

\* The table order beginning with a seat is a sequence of seats, and not empty.
LEMMA StartingTyped ==
  ASSUME NEW S, NEW s \in Seq(S), NEW d \in MembersOf(s)
  PROVE  Starting(s, d) \in Seq(S) /\ Starting(s, d) # <<>>
<1> DEFINE i == IndexIn(s, d)
<1>1. i \in 1..Len(s) /\ Len(s) \in Nat
  BY IndexFound
<1> HIDE DEF i
<1>2. SubSeq(s, i, Len(s)) \in Seq(S) /\ Len(SubSeq(s, i, Len(s))) = Len(s) - i + 1
  BY <1>1, SubSeqProperties, \A k \in i..Len(s) : s[k] \in S
<1>3. SubSeq(s, 1, i - 1) \in Seq(S)
  BY <1>1, SubSeqProperties, \A k \in 1..(i - 1) : s[k] \in S
<1>4. Len(SubSeq(s, i, Len(s)) \o SubSeq(s, 1, i - 1)) >= 1
  BY <1>1, <1>2, <1>3, LenProperties
<1>5. SubSeq(s, i, Len(s)) \o SubSeq(s, 1, i - 1) \in Seq(S)
  BY <1>2, <1>3
<1>6. Starting(s, d) = SubSeq(s, i, Len(s)) \o SubSeq(s, 1, i - 1)
  BY DEF Starting, i
<1> DEFINE t == SubSeq(s, i, Len(s)) \o SubSeq(s, 1, i - 1)
<1>7. t # <<>>
  <2>1. t \in Seq(S) /\ Len(t) >= 1
    BY <1>4, <1>5
  <2> HIDE DEF t
  <2> QED BY <2>1
<1> QED BY <1>5, <1>6, <1>7

\* The neighbours of a seat are seats; the one to the right of a seat is another one
\* when there is another one.
LEMMA Neighbours ==
  ASSUME NEW S, NEW s \in Seq(S), NEW d \in MembersOf(s)
  PROVE  /\ LeftOf(s, d) \in MembersOf(s) /\ RightOf(s, d) \in MembersOf(s)
         /\ Distinct(s) /\ Len(s) >= 2 => RightOf(s, d) # d
<1> DEFINE i == IndexIn(s, d)  n == Len(s)
<1>1. i \in 1..n /\ n \in Nat /\ n >= 1 /\ s[i] = d
  BY IndexFound
<1>2. /\ LeftOf(s, d) = s[(i % n) + 1]
      /\ RightOf(s, d) = s[((i + n - 2) % n) + 1]
  BY DEF LeftOf, RightOf
<1>3. (i % n) + 1 \in 1..n
  <2> HIDE DEF i, n
  <2>1. i % n \in 0..(n - 1)
    BY <1>1
  <2> QED BY <2>1, <1>1
<1>4. /\ ((i + n - 2) % n) + 1 \in 1..n
      /\ n >= 2 => ((i + n - 2) % n) + 1 # i
  <2> HIDE DEF i, n
  <2>1. CASE i = 1 /\ n = 1
    <3>1. (i + n - 2) % n = 0
      BY <2>1
    <3> QED BY <2>1, <3>1
  <2>2. CASE i = 1 /\ n >= 2
    <3>1. (i + n - 2) % n = n - 1
      BY <1>1, <2>2
    <3> QED BY <1>1, <2>2, <3>1
  <2>3. CASE i >= 2
    <3>1. (i + n - 2) % n = i - 2
      BY <1>1, <2>3
    <3> QED BY <1>1, <2>3, <3>1
  <2> QED BY <1>1, <2>1, <2>2, <2>3
<1> QED BY <1>1, <1>2, <1>3, <1>4 DEF Distinct, MembersOf

\* A sequence without one of its members.
LEMMA KeepTyped ==
  ASSUME NEW S, NEW s \in Seq(S), NEW d
  PROVE  /\ Keep(s, d) \in Seq(S)
         /\ Distinct(s) => Distinct(Keep(s, d)) /\ MembersOf(Keep(s, d)) = MembersOf(s) \ {d}
<1>1. CASE d \notin MembersOf(s)
  BY <1>1 DEF Keep
<1>2. CASE d \in MembersOf(s)
  <2> DEFINE n == Len(s)
             at == IndexIn(s, d)
             k == [i \in 1..(n - 1) |-> IF i < at THEN s[i] ELSE s[i + 1]]
  <2>1. at \in 1..n /\ n \in Nat /\ n >= 1 /\ s[at] = d /\ s \in [1..n -> S]
    BY <1>2, IndexFound
  <2>2. Keep(s, d) = k
    BY <1>2 DEF Keep
  <2> HIDE DEF n, at
  <2>3. k \in [1..(n - 1) -> S] /\ n - 1 \in Nat
    BY <2>1
  <2>4. k \in Seq(S) /\ Len(k) = n - 1
    BY <2>3, IsASeq
  <2>5. ASSUME Distinct(s) PROVE Distinct(k) /\ MembersOf(k) = MembersOf(s) \ {d}
    <3>1. \A i, j \in 1..n : s[i] = s[j] => i = j
      BY <2>5 DEF Distinct, n
    <3>2. Distinct(k)
      <4> SUFFICES ASSUME NEW i \in 1..(n - 1), NEW j \in 1..(n - 1), k[i] = k[j] PROVE i = j
        BY <2>4 DEF Distinct
      <4>1. k[i] = s[IF i < at THEN i ELSE i + 1] /\ k[j] = s[IF j < at THEN j ELSE j + 1]
        OBVIOUS
      <4>2. (IF i < at THEN i ELSE i + 1) = (IF j < at THEN j ELSE j + 1)
        BY <2>1, <3>1, <4>1
      <4> QED BY <2>1, <4>2
    <3>3. ASSUME NEW e \in MembersOf(k) PROVE e \in MembersOf(s) \ {d}
      <4>1. PICK i \in 1..(n - 1) : e = k[i]
        BY <2>4, <3>3 DEF MembersOf
      <4>2. PICK j \in 1..n : e = s[j] /\ j # at
        BY <2>1, <4>1
      <4> QED BY <2>1, <3>1, <4>2 DEF MembersOf, n
    <3>4. ASSUME NEW e \in MembersOf(s) \ {d} PROVE e \in MembersOf(k)
      <4>1. PICK j \in 1..n : e = s[j] /\ j # at
        BY <2>1, <3>4 DEF MembersOf, n
      <4>2. CASE j < at
        <5>1. j \in 1..(n - 1) /\ k[j] = e
          BY <2>1, <4>1, <4>2
        <5> QED BY <2>4, <5>1 DEF MembersOf
      <4>3. CASE j > at
        <5>1. j - 1 \in 1..(n - 1) /\ k[j - 1] = e
          BY <2>1, <4>1, <4>3
        <5> QED BY <2>4, <5>1 DEF MembersOf
      <4> QED BY <2>1, <4>1, <4>2, <4>3
    <3> QED BY <3>2, <3>3, <3>4
  <2> QED BY <2>2, <2>4, <2>5
<1> QED BY <1>1, <1>2

\* A sequence in which one device takes the places of another.
LEMMA RenamingTyped ==
  ASSUME NEW S, NEW s \in Seq(S), NEW from, NEW to \in S
  PROVE  /\ Renaming(s, from, to) \in Seq(S)
         /\ s # <<>> => Renaming(s, from, to) # <<>>
         /\ Distinct(s) /\ to \notin MembersOf(s) => Distinct(Renaming(s, from, to))
         /\ MembersOf(Renaming(s, from, to)) =
              {IF e = from THEN to ELSE e : e \in MembersOf(s)}
<1> DEFINE n == Len(s)
           r == [i \in 1..n |-> IF s[i] = from THEN to ELSE s[i]]
<1>1. r \in [1..n -> S] /\ n \in Nat /\ Renaming(s, from, to) = r
  BY DEF Renaming
<1>2. r \in Seq(S) /\ Len(r) = n
  BY <1>1, IsASeq
<1>3. s # <<>> => r # <<>>
  BY <1>2, EmptySeq
<1>4. Distinct(s) /\ to \notin MembersOf(s) => Distinct(r)
  BY <1>2 DEF Distinct, MembersOf
<1>5. MembersOf(r) = {IF e = from THEN to ELSE e : e \in MembersOf(s)}
  BY <1>2 DEF MembersOf
<1> QED BY <1>1, <1>2, <1>3, <1>4, <1>5

-------------------------------------------------------------------------------
(* The table.                                                              *)

TableOK ==
  /\ stage \in {"none", "bidding", "trick", "game-end"}
  /\ seats \in Seq(Devices) /\ Distinct(seats)
  /\ rnd \in Nat /\ handsLeft \in Int
  /\ toBid \in Seq(Devices) /\ toPlay \in Seq(Devices)
  /\ stage # "none" => seats # <<>> /\ dealer \in MembersOf(seats)
  /\ stage = "bidding" => toBid # <<>>

\* A round is dealt to a well-formed table.
LEMMA DealTyped ==
  ASSUME NEW order \in Seq(Devices), Distinct(order), NEW d \in MembersOf(order), NEW r \in Nat,
         Deal(order, d, r)
  PROVE  TableOK'
<1>1. LeftOf(order, d) \in MembersOf(order)
  BY Neighbours
<1>2. /\ Starting(order, LeftOf(order, d)) \in Seq(Devices)
      /\ Starting(order, LeftOf(order, d)) # <<>>
  <2> DEFINE l == LeftOf(order, d)
  <2>1. l \in MembersOf(order)
    BY <1>1
  <2> HIDE DEF l
  <2>2. Starting(order, l) \in Seq(Devices) /\ Starting(order, l) # <<>>
    BY <2>1, StartingTyped
  <2> QED BY <2>2 DEF l
<1>3. order # <<>>
  BY DEF MembersOf
<1>4. MaxHand + 1 - r \in Int
  BY TableAssumption
<1>5. /\ stage' = "bidding" /\ seats' = order /\ dealer' = d /\ rnd' = r
      /\ toBid' = Starting(order, LeftOf(order, d)) /\ toPlay' = <<>>
      /\ handsLeft' = MaxHand + 1 - r
  BY DEF Deal
<1>6. Distinct(seats') /\ dealer' \in MembersOf(seats')
  BY <1>5
<1> QED BY <1>2, <1>3, <1>4, <1>5, <1>6 DEF TableOK, Distinct, MembersOf

\* A bid, the last of which opens the trick.
LEMMA BidTyped ==
  ASSUME TableOK, BidNext
  PROVE  TableOK'
<1>1. toBid \in Seq(Devices) /\ toBid # <<>> /\ toBid' = Tail(toBid)
  BY DEF BidNext, TableOK
<1>2. toBid' \in Seq(Devices) /\ Len(toBid') = Len(toBid) - 1
  BY <1>1
<1>3. /\ UNCHANGED <<seats, dealer, rnd, handsLeft>>
      /\ seats \in Seq(Devices) /\ dealer \in MembersOf(seats) /\ seats # <<>>
  BY DEF BidNext, TableOK
<1>4. CASE Len(toBid) = 1
  <2>1. LeftOf(seats, dealer) \in MembersOf(seats)
    BY <1>3, Neighbours
  <2>2. Starting(seats, LeftOf(seats, dealer)) \in Seq(Devices)
    <3> DEFINE l == LeftOf(seats, dealer)
    <3>1. l \in MembersOf(seats)
      BY <2>1
    <3> HIDE DEF l
    <3>2. Starting(seats, l) \in Seq(Devices)
      BY <1>3, <3>1, StartingTyped
    <3> QED BY <3>2 DEF l
  <2>3. stage' = "trick" /\ toPlay' = Starting(seats, LeftOf(seats, dealer))
    BY <1>4 DEF BidNext
  <2> QED BY <1>2, <1>3, <2>2, <2>3 DEF TableOK, Distinct, MembersOf
<1>5. CASE Len(toBid) # 1
  <2>1. toBid' # <<>> /\ UNCHANGED <<stage, toPlay>>
    BY <1>1, <1>2, <1>5 DEF BidNext
  <2> QED BY <1>2, <1>3, <2>1 DEF TableOK, Distinct, MembersOf
<1> QED BY <1>4, <1>5

\* A card, the end of a hand, and a game after the last one.
LEMMA PlayTyped ==
  ASSUME TableOK, PlayNext
  PROVE  TableOK'
BY DEF TableOK, PlayNext, Distinct, MembersOf

\* A resolved hand leaves a table of the right type and no full pile.
LEMMA ResolveTyped ==
  ASSUME TableOK, Resolve
  PROVE  TableOK' /\ ~PileComplete'
<1>1. seats \in Seq(Devices) /\ dealer \in MembersOf(seats) /\ Distinct(seats) /\ rnd \in Nat
  BY DEF TableOK, Resolve
<1>2. CASE handsLeft > 1
  <2>1. PICK w \in MembersOf(seats) : toPlay' = Starting(seats, w)
    BY <1>2 DEF Resolve
  <2>2. toPlay' \in Seq(Devices) /\ toPlay' # <<>>
    BY <1>1, <2>1, StartingTyped
  <2>3. handsLeft' \in Int /\ UNCHANGED <<stage, seats, dealer, rnd, toBid>>
    BY <1>2 DEF Resolve, TableOK
  <2> QED BY <2>2, <2>3 DEF TableOK, PileComplete, Distinct, MembersOf
<1>3. CASE ~(handsLeft > 1) /\ rnd < Rounds
  <2> DEFINE l == LeftOf(seats, dealer)
  <2>1. l \in MembersOf(seats) /\ Deal(seats, l, rnd + 1) /\ rnd + 1 \in Nat
    BY <1>1, <1>3, Neighbours DEF Resolve
  <2> HIDE DEF l
  <2>2. TableOK'
    BY <1>1, <2>1, DealTyped
  <2>3. stage' = "bidding"
    BY <2>1 DEF Deal
  <2> QED BY <2>2, <2>3 DEF PileComplete
<1>4. CASE ~(handsLeft > 1) /\ ~(rnd < Rounds)
  BY <1>4 DEF Resolve, TableOK, PileComplete, Distinct, MembersOf
<1> QED BY <1>2, <1>3, <1>4

\* A new game begins with an auction.
LEMMA AgainTyped ==
  ASSUME TableOK, Again
  PROVE  TableOK' /\ stage' = "bidding"
<1>1. /\ seats \in Seq(Devices) /\ dealer \in MembersOf(seats) /\ Distinct(seats)
      /\ seats # <<>>
  BY DEF TableOK, Again
<1>2. PICK d \in {seats[1], LeftOf(seats, dealer)} : Deal(seats, d, 1)
  BY DEF Again
<1>3. seats[1] \in MembersOf(seats) /\ LeftOf(seats, dealer) \in MembersOf(seats)
  <2>1. 1 \in 1..Len(seats)
    BY <1>1
  <2> QED BY <1>1, <2>1, Neighbours DEF MembersOf
<1>4. TableOK'
  BY <1>1, <1>2, <1>3, DealTyped
<1> QED BY <1>2, <1>4 DEF Deal

\* A seat that changes hands.
LEMMA ReplacedTyped ==
  ASSUME TableOK, NEW from, NEW to \in Devices, Replaced(from, to)
  PROVE  TableOK'
<1>1. /\ seats' = Renaming(seats, from, to) /\ toBid' = Renaming(toBid, from, to)
      /\ toPlay' = Renaming(toPlay, from, to)
      /\ dealer' = IF dealer = from THEN to ELSE dealer
      /\ UNCHANGED <<stage, rnd, handsLeft>> /\ to \notin MembersOf(seats)
  BY DEF Replaced
<1>2. /\ seats' \in Seq(Devices) /\ Distinct(seats')
      /\ seats # <<>> => seats' # <<>>
      /\ MembersOf(seats') = {IF e = from THEN to ELSE e : e \in MembersOf(seats)}
  BY <1>1, RenamingTyped DEF TableOK
<1>3. toBid' \in Seq(Devices) /\ (toBid # <<>> => toBid' # <<>>) /\ toPlay' \in Seq(Devices)
  BY <1>1, RenamingTyped DEF TableOK
<1>4. dealer \in MembersOf(seats) => dealer' \in MembersOf(seats')
  BY <1>1, <1>2
<1> QED BY <1>1, <1>2, <1>3, <1>4 DEF TableOK, Distinct, MembersOf

\* A seat that is removed.
LEMMA RemovedTyped ==
  ASSUME TableOK, NEW d, Removed(d)
  PROVE  TableOK'
<1>1. /\ seats \in Seq(Devices) /\ Distinct(seats) /\ d \in MembersOf(seats) /\ Len(seats) > 2
      /\ seats' = Keep(seats, d) /\ toBid' = Keep(toBid, d)
      /\ dealer' = IF dealer = d THEN RightOf(seats, d) ELSE dealer
      /\ UNCHANGED <<rnd, handsLeft>>
  BY DEF Removed, TableOK
<1>2. /\ seats' \in Seq(Devices) /\ Distinct(seats') /\ MembersOf(seats') = MembersOf(seats) \ {d}
      /\ toBid' \in Seq(Devices) /\ Keep(toPlay, d) \in Seq(Devices)
  BY <1>1, KeepTyped DEF TableOK
<1>3. dealer \in MembersOf(seats) => dealer' \in MembersOf(seats')
  BY <1>1, <1>2, Neighbours
<1>4. stage # "none" => dealer' \in MembersOf(seats')
  BY <1>3 DEF TableOK
<1>5. dealer' \in MembersOf(seats') => seats' # <<>>
  BY DEF MembersOf
<1>6. CASE stage = "bidding" /\ Keep(toBid, d) = <<>>
  <2>1. stage' = "trick" /\ toPlay' = Starting(seats', LeftOf(seats', dealer'))
    BY <1>6 DEF Removed
  <2> DEFINE s == seats'  l == LeftOf(s, dealer')
  <2>2. l \in MembersOf(s) /\ s \in Seq(Devices)
    BY <1>2, <1>4, <1>6, Neighbours
  <2> HIDE DEF l, s
  <2>3. Starting(s, l) \in Seq(Devices)
    BY <2>2, StartingTyped
  <2>4. toPlay' \in Seq(Devices)
    BY <2>1, <2>3 DEF l, s
  <2> QED BY <1>1, <1>2, <1>4, <1>5, <1>6, <2>1, <2>4 DEF TableOK, Distinct, MembersOf
<1>7. CASE ~(stage = "bidding" /\ Keep(toBid, d) = <<>>)
  <2>1. stage' = stage /\ toPlay' = Keep(toPlay, d)
    BY <1>7 DEF Removed
  <2> QED BY <1>1, <1>2, <1>4, <1>5, <1>7, <2>1 DEF TableOK, Distinct, MembersOf
<1> QED BY <1>6, <1>7

-------------------------------------------------------------------------------
(* What a timer was set for.                                               *)

\* While the timeout is set, its game is the game, and its fingerprint and its actor say
\* which turn it was set for.
TimerKnowsItsTurn ==
  botTimer # NoTimer =>
    botTimer.turn = <<deal, botTimer.print.round, botTimer.print.phase, botTimer.print.hand, botTimer.actor>>

IInv == TableOK /\ TypeOK /\ TimerKnowsItsTurn /\ AutomationArmed

TableStep ==
  \/ BidNext \/ PlayNext \/ Resolve \/ Again
  \/ \E from \in Devices, to \in Devices : Replaced(from, to)
  \/ \E d \in Devices : Removed(d)
  \/ UNCHANGED tvars

\* Every step of the table keeps its type.
LEMMA TableStepTyped ==
  ASSUME TableOK, TableStep
  PROVE  TableOK'
<1>1. CASE UNCHANGED tvars
  BY <1>1 DEF tvars, TableOK, Distinct, MembersOf
<1> QED BY <1>1, BidTyped, PlayTyped, ResolveTyped, AgainTyped, ReplacedTyped, RemovedTyped
        DEF TableStep

\* Whose turn it is, when it is somebody's turn.
LEMMA ActorIsDevice ==
  ASSUME TableOK, Active
  PROVE  Actor \in Devices
<1>1. CASE stage = "bidding"
  BY <1>1 DEF TableOK, Actor
<1>2. CASE stage = "trick"
  BY <1>2 DEF TableOK, Actor, Active, PileComplete
<1> QED BY <1>1, <1>2 DEF Active, Playing

\* A timer that is due is set for this turn of a device.
DueIsNow ==
  TableOK /\ TimerDue # NoTimer =>
    /\ TimerDue.actor \in Devices
    /\ TimerDue.turn = <<deal, TimerDue.print.round, TimerDue.print.phase,
                         TimerDue.print.hand, TimerDue.actor>>
\* A due bot timer is one for the actor of the moment, and has a type.
LEMMA TimerDueTyped == DueIsNow
<1> SUFFICES ASSUME TableOK, TimerDue # NoTimer
             PROVE  /\ TimerDue.actor \in Devices
                    /\ TimerDue.turn = <<deal, TimerDue.print.round, TimerDue.print.phase,
                                         TimerDue.print.hand, TimerDue.actor>>
  BY DEF DueIsNow
<1>1. Active
  BY DEF TimerDue
<1>2. TimerDue = [actor |-> Actor, assist |-> Actor \in Humans, print |-> Fingerprint, turn |-> Turn]
  BY DEF TimerDue
<1>3. TimerDue.actor = Actor /\ TimerDue.print = Fingerprint /\ TimerDue.turn = Turn
  BY <1>2
<1>4. Fingerprint.round = rnd /\ Fingerprint.phase = stage /\ Fingerprint.hand = handsLeft
  BY DEF Fingerprint
<1>5. Actor \in Devices
  BY <1>1, ActorIsDevice
<1> QED BY <1>3, <1>4, <1>5 DEF Turn

\* A pile has a timer when its print is set.
PrintIsTimer == TableOK /\ deal \in 0..MaxDeals => PilePrint # NoTimer
\* The fingerprint of a pile is a trick timer.
LEMMA PilePrintIsTimer == PrintIsTimer
BY NoTimerAssumption DEF PilePrint, TableOK, PrintIsTimer

\* scheduleRoomProgress leaves the automation armed.
LEMMA ScheduleArms ==
  ASSUME IInv, TableOK', deal' \in 0..MaxDeals, ScheduleProgress,
         deal' = deal \/ ~PileComplete'
  PROVE  /\ botTimer' = NoTimer \/ botTimer'.actor \in Devices
         /\ TimerKnowsItsTurn' /\ AutomationArmed'
<1>1. CASE PileComplete'
  <2>1. trickTimer' = PilePrint' /\ botTimer' = botTimer /\ deal' = deal
    BY <1>1 DEF ScheduleProgress
  <2>2. PilePrint' # NoTimer
    <3>1. PrintIsTimer'
      BY PilePrintIsTimer, PTL
    <3> QED BY <3>1 DEF PrintIsTimer
  <2>3. ~Active'
    BY <1>1 DEF Active
  <2>4. TimerKnowsItsTurn'
    BY <2>1 DEF IInv, TimerKnowsItsTurn
  <2>5. AutomationArmed'
    BY <2>1, <2>2, <2>3 DEF AutomationArmed
  <2> QED BY <2>1, <2>4, <2>5 DEF IInv, TypeOK
<1>2. CASE ~PileComplete'
  <2>1. botTimer' = TimerDue'
    BY <1>2 DEF ScheduleProgress, ReplaceBotTimer
  <2>2. TimerDue' # NoTimer =>
          /\ TimerDue'.actor \in Devices
          /\ TimerDue'.turn = <<deal', TimerDue'.print.round, TimerDue'.print.phase,
                                TimerDue'.print.hand, TimerDue'.actor>>
    <3>1. DueIsNow'
      BY TimerDueTyped, PTL
    <3> QED BY <3>1 DEF DueIsNow
  <2>3. TimerKnowsItsTurn'
    BY <2>1, <2>2 DEF TimerKnowsItsTurn
  <2>4. AutomationArmed'
    BY <1>2, <2>1 DEF AutomationArmed
  <2> QED BY <2>1, <2>2, <2>3, <2>4
<1> QED BY <1>1, <1>2

-------------------------------------------------------------------------------
(* Steps that end in scheduleRoomProgress.                                 *)

\* The rest of the type invariant, without the timers.
PeopleTyped ==
  /\ online \subseteq Humans /\ ConnectedHaveSeats
  /\ assist \in [Humans -> {"locked", "off", "on"}]
  /\ owing \in 0..MaxOwing /\ leaving \subseteq Humans /\ deal \in 0..MaxDeals

\* Who was connected to the game still has a seat when the seats stay.
LEMMA SeatsStay ==
  ASSUME ConnectedHaveSeats, online' \subseteq online, UNCHANGED seats, stage # "none" \/ stage' = stage
  PROVE  ConnectedHaveSeats'
BY DEF ConnectedHaveSeats, Seats, MembersOf

\* A step that ends in scheduleRoomProgress keeps the invariant, whatever it did to
\* the table.
LEMMA ScheduledKeeps ==
  ASSUME IInv, TableOK', PeopleTyped', ScheduleProgress, deal' = deal \/ ~PileComplete'
  PROVE  IInv'
BY ScheduleArms DEF IInv, TypeOK, PeopleTyped

\* The seats of who is present, in the order of the table, are a table again.
LEMMA PresentTable ==
  ASSUME TableOK, NEW order \in [1..Cardinality(Present) -> Present],
         Cardinality(Present) >= 2, InTableOrder(order)
  PROVE  /\ order \in Seq(Devices) /\ Distinct(order) /\ order[1] \in MembersOf(order)
         /\ MembersOf(order) = Present
<1>1. Present \subseteq Devices /\ Present \subseteq MembersOf(seats)
  BY DEF TableOK, Present, Seats, MembersOf
<1>2. IsFiniteSet(Present) /\ Cardinality(Present) \in Nat
  <2>1. Len(seats) \in Nat /\ seats \in [1..Len(seats) -> Devices]
    BY DEF TableOK
  <2> DEFINE D == 1..Len(seats)  at == [d \in Present |-> IndexIn(seats, d)]
  <2>2. IsFiniteSet(D)
    BY <2>1, FS_Interval
  <2>3. \A d \in Present : IndexIn(seats, d) \in D /\ seats[IndexIn(seats, d)] = d
    BY <1>1, IndexFound DEF TableOK
  <2>4. at \in Injection(Present, D)
    <3>1. at \in [Present -> D]
      BY <2>3
    <3>2. \A d, e \in Present : at[d] = at[e] => d = e
      BY <2>3
    <3> HIDE DEF at, D
    <3> QED BY <3>1, <3>2 DEF Injection, IsInjective
  <2> HIDE DEF at, D
  <2>5. IsFiniteSet(Present)
    BY <2>2, <2>4, FS_Injection
  <2> QED BY <2>5, FS_CardinalityType
<1> DEFINE n == Cardinality(Present)
<1> HIDE DEF n
<1>3. order \in [1..n -> Devices] /\ order \in [1..n -> Present] /\ n \in Nat /\ n >= 2
  BY <1>1, <1>2 DEF n
<1>4. order \in Seq(Devices) /\ Len(order) = n /\ DOMAIN order = 1..n
  BY <1>3, IsASeq
<1>5. \A i \in 1..n : IndexIn(seats, order[i]) \in 1..Len(seats) /\ Len(seats) \in Nat
  <2> SUFFICES ASSUME NEW i \in 1..n
               PROVE  IndexIn(seats, order[i]) \in 1..Len(seats) /\ Len(seats) \in Nat
    OBVIOUS
  <2>1. order[i] \in MembersOf(seats)
    BY <1>1 DEF n
  <2> QED BY <2>1, IndexFound DEF TableOK
<1>6. Distinct(order)
  <2> SUFFICES ASSUME NEW i \in 1..n, NEW j \in 1..n, order[i] = order[j], i # j PROVE FALSE
    BY <1>4 DEF Distinct
  <2>1. i < j \/ j < i
    BY <1>3
  <2>2. \/ IndexIn(seats, order[i]) < IndexIn(seats, order[j])
        \/ IndexIn(seats, order[j]) < IndexIn(seats, order[i])
    BY <1>4, <2>1 DEF InTableOrder
  <2> QED BY <1>5, <2>2
<1>7. order[1] \in MembersOf(order)
  BY <1>3, <1>4 DEF MembersOf
<1>8. MembersOf(order) = Present
  <2>1. IsFiniteSet(1..n) /\ Cardinality(1..n) = n
    BY <1>3, FS_Interval
  <2>2. order \in Injection(1..n, Present)
    BY <1>3, <1>4, <1>6 DEF Injection, IsInjective, Distinct
  <2>3. order \in Surjection(1..n, Present)
    BY <1>2, <2>1, <2>2, FS_Injection DEF n
  <2> QED BY <1>4, <2>3 DEF Surjection, MembersOf
<1> QED BY <1>4, <1>6, <1>7, <1>8

\* room:start keeps the invariant.
LEMMA StartKeeps ==
  ASSUME IInv, StartGame
  PROVE  IInv'
<1>1. TableOK' /\ stage' = "bidding" /\ online \subseteq MembersOf(seats')
  <2>1. CASE stage = "none"
    <3>1. PICK order \in SeatOrders : online \subseteq MembersOf(order) /\ Deal(order, order[1], 1)
      BY <2>1 DEF StartGame
    <3>2. order \in Seq(Devices) /\ Distinct(order) /\ order[1] \in MembersOf(order)
      <4>1. order \in Seq(Devices) /\ Len(order) >= 2 /\ Distinct(order)
        BY TableAssumption DEF Distinct
      <4> QED BY <4>1 DEF MembersOf
    <3>3. TableOK'
      BY <3>1, <3>2, DealTyped
    <3> QED BY <3>1, <3>3 DEF Deal
  <2>2. CASE stage # "none"
    <3>1. /\ Cardinality(Present) >= 2
          /\ \E order \in [1..Cardinality(Present) -> Present] :
               InTableOrder(order) /\ Deal(order, order[1], 1)
      BY <2>2 DEF StartGame
    <3>2. PICK order \in [1..Cardinality(Present) -> Present] :
                 InTableOrder(order) /\ Deal(order, order[1], 1)
      BY <3>1
    <3>3. /\ order \in Seq(Devices) /\ Distinct(order) /\ order[1] \in MembersOf(order)
          /\ MembersOf(order) = Present
      BY <3>1, <3>2, PresentTable DEF IInv
    <3>4. TableOK'
      BY <3>2, <3>3, DealTyped
    <3>5. online \subseteq Present
      BY <2>2 DEF Present, IInv, TypeOK, ConnectedHaveSeats
    <3> QED BY <3>2, <3>3, <3>4, <3>5 DEF Deal
  <2> QED BY <2>1, <2>2
<1>2. PeopleTyped'
  <2>1. ConnectedHaveSeats'
    BY <1>1 DEF StartGame, ConnectedHaveSeats, Seats
  <2> QED BY <2>1, BoundsAssumption DEF StartGame, handling, PeopleTyped, IInv, TypeOK
<1>3. ScheduleProgress /\ ~PileComplete'
  BY <1>1 DEF StartGame, PileComplete
<1> QED BY <1>1, <1>2, <1>3, ScheduledKeeps

\* game:new and game:continue keep the invariant.
LEMMA PlayAgainKeeps ==
  ASSUME IInv, PlayAgain
  PROVE  IInv'
<1>1. TableOK' /\ stage' = "bidding"
  BY AgainTyped DEF PlayAgain, IInv
<1>2. PeopleTyped'
  <2>1. ConnectedHaveSeats'
    BY SeatsStay DEF PlayAgain, Again, Deal, IInv, TypeOK
  <2> QED BY <2>1, BoundsAssumption DEF PlayAgain, handling, PeopleTyped, IInv, TypeOK
<1>3. ScheduleProgress /\ ~PileComplete'
  BY <1>1 DEF PlayAgain, PileComplete
<1> QED BY <1>1, <1>2, <1>3, ScheduledKeeps

\* A bid or a card keeps the type of the table.
LEMMA MoveTyped ==
  ASSUME TableOK, NEW d, Move(d)
  PROVE  TableOK' /\ UNCHANGED seats /\ stage # "none"
BY BidTyped, PlayTyped DEF Move, BidNext, PlayNext, Playing

\* The handlers that schedule at once keep the invariant.
LEMMA ScheduledStepsKeep ==
  ASSUME IInv,
         \/ OfferSeat \/ Scheduled
         \/ \E d \in Humans : \/ HumanMoves(d) \/ LeaveDone(d)
                             \/ SetAssist(d, "on") \/ SetAssist(d, "off")
  PROVE  IInv'
<1>1. ScheduleProgress /\ deal' = deal
  BY DEF OfferSeat, Scheduled, HumanMoves, LeaveDone, SetAssist, handling
<1>2. TableOK'
  <2>1. CASE \E d \in Humans : HumanMoves(d)
    BY <2>1, MoveTyped DEF HumanMoves, IInv
  <2>2. CASE UNCHANGED tvars
    BY <2>2, TableStepTyped DEF TableStep, IInv
  <2> QED BY <2>1, <2>2 DEF OfferSeat, Scheduled, LeaveDone, SetAssist
<1>3. PeopleTyped'
  <2>1. PeopleTyped
    BY DEF IInv, TypeOK, PeopleTyped
  <2>s. ConnectedHaveSeats'
    <3>1. CASE \E d \in Humans : HumanMoves(d)
      <4>1. UNCHANGED <<online, seats>> /\ stage # "none"
        BY <3>1, MoveTyped DEF HumanMoves, IInv
      <4> QED BY <2>1, <4>1, SeatsStay DEF PeopleTyped
    <3>2. CASE UNCHANGED tvars /\ online' \subseteq online
      BY <2>1, <3>2, SeatsStay DEF PeopleTyped, tvars
    <3> QED BY <3>1, <3>2 DEF OfferSeat, Scheduled, LeaveDone, SetAssist
  <2>2. CASE Scheduled
    BY <2>1, <2>s, <2>2, BoundsAssumption DEF PeopleTyped, Scheduled
  <2>3. CASE OfferSeat \/ \E d \in Humans : HumanMoves(d)
    BY <2>1, <2>s, <2>3 DEF PeopleTyped, OfferSeat, HumanMoves, handling
  <2>4. CASE \E d \in Humans : LeaveDone(d)
    BY <2>1, <2>s, <2>4 DEF PeopleTyped, LeaveDone
  <2>5. ASSUME NEW d \in Humans, SetAssist(d, "on") \/ SetAssist(d, "off") PROVE PeopleTyped'
    BY <2>1, <2>s, <2>5 DEF PeopleTyped, SetAssist, handling
  <2> QED BY <2>2, <2>3, <2>4, <2>5
<1> QED BY <1>1, <1>2, <1>3, ScheduledKeeps

-------------------------------------------------------------------------------
(* Steps that leave a handler at an await.                                 *)

\* A step that leaves a handler waiting, which will schedule, keeps the invariant.
LEMMA OweKeeps ==
  ASSUME IInv, TableOK', Owe, deal' = deal, PeopleTyped'
  PROVE  IInv'
<1>1. owing' # 0 /\ UNCHANGED <<botTimer, trickTimer>>
  BY DEF Owe, timers, IInv, TypeOK
<1>2. TimerKnowsItsTurn' /\ AutomationArmed'
  BY <1>1 DEF IInv, TimerKnowsItsTurn, AutomationArmed
<1> QED BY <1>1, <1>2 DEF IInv, TypeOK, PeopleTyped

\* What is owed stays within its bound.
LEMMA OweTyped ==
  ASSUME PeopleTyped, Owe
  PROVE  owing' \in 0..MaxOwing
BY BoundsAssumption DEF Owe, PeopleTyped

\* Clearing private assist gives an assist table.
LEMMA ClearedTyped ==
  ASSUME PeopleTyped, NEW d \in Humans
  PROVE  Cleared(d) \in [Humans -> {"locked", "off", "on"}]
BY DEF PeopleTyped, Cleared

\* A seat that changes hands.
LEMMA ReplacedSeats ==
  ASSUME TableOK, NEW from \in Devices, NEW to \in Devices, Replaced(from, to)
  PROVE  Seats' = (Seats \ {from}) \cup {to}
<1>1. seats \in Seq(Devices) /\ from \in MembersOf(seats) /\ seats' = Renaming(seats, from, to)
  BY DEF TableOK, Replaced
<1>2. MembersOf(seats') = {IF e = from THEN to ELSE e : e \in MembersOf(seats)}
  BY <1>1, RenamingTyped
<1> QED BY <1>1, <1>2 DEF Seats

\* The handlers that await something before they schedule keep the invariant.
LEMMA OwingStepsKeep ==
  ASSUME IInv, SeatMessage \/ \E d \in Humans : Rejoin(d) \/ Kick(d)
  PROVE  IInv'
<1>1. PeopleTyped
  BY DEF IInv, TypeOK, PeopleTyped
<1>2. ASSUME NEW d \in Humans, Rejoin(d) PROVE IInv'
  <2>1. TableOK'
    BY <1>2, TableStepTyped DEF Rejoin, IInv, TableStep
  <2>2. Owe /\ deal' = deal
    BY <1>2 DEF Rejoin
  <2>3. ConnectedHaveSeats'
    <3>1. UNCHANGED <<seats, stage>> /\ online' = online \cup {d} /\ d \in Seats
      BY <1>2 DEF Rejoin, tvars
    <3> QED BY <1>1, <3>1 DEF PeopleTyped, ConnectedHaveSeats, Seats
  <2>4. PeopleTyped'
    BY <1>1, <1>2, <2>2, <2>3, OweTyped, ClearedTyped DEF Rejoin, PeopleTyped
  <2> QED BY <2>1, <2>2, <2>4, OweKeeps
<1>3. ASSUME NEW d \in Humans, Kick(d) PROVE IInv'
  <2>1. TableOK'
    BY <1>3, TableStepTyped DEF Kick, IInv, TableStep
  <2>2. Owe /\ deal' = deal
    BY <1>3 DEF Kick
  <2>3. ConnectedHaveSeats'
    BY <1>1, <1>3, SeatsStay DEF Kick, PeopleTyped, tvars
  <2>4. PeopleTyped'
    BY <1>1, <1>3, <2>2, <2>3, OweTyped, ClearedTyped DEF Kick, PeopleTyped
  <2> QED BY <2>1, <2>2, <2>4, OweKeeps
<1>4. ASSUME NEW from \in Devices, NEW to \in Devices, JoinSeat(from, to) PROVE IInv'
  <2>1. TableOK'
    BY <1>4, ReplacedTyped DEF JoinSeat, IInv
  <2>2. Owe /\ deal' = deal /\ to \in Humans
    BY <1>4 DEF JoinSeat
  <2>3. ConnectedHaveSeats'
    <3>1. Seats' = (Seats \ {from}) \cup {to} /\ stage' = stage
      BY <1>4, <2>1, ReplacedSeats DEF JoinSeat, IInv, Replaced
    <3> QED BY <1>1, <1>4, <3>1 DEF JoinSeat, Vacant, PeopleTyped, ConnectedHaveSeats
  <2>4. PeopleTyped'
    BY <1>1, <1>4, <2>2, <2>3, OweTyped, ClearedTyped DEF JoinSeat, PeopleTyped
  <2> QED BY <2>1, <2>2, <2>4, OweKeeps
<1>5. ASSUME NEW from \in Devices, NEW to \in Devices, Takeover(from, to) PROVE IInv'
  <2>1. TableOK'
    BY <1>5, ReplacedTyped DEF Takeover, IInv
  <2>2. Owe /\ deal' = deal
    BY <1>5 DEF Takeover
  <2>3. ConnectedHaveSeats'
    <3>1. Seats' = (Seats \ {from}) \cup {to} /\ stage' = stage
      BY <1>5, <2>1, ReplacedSeats DEF Takeover, IInv, Replaced
    <3> QED BY <1>1, <1>5, <3>1 DEF Takeover, Vacant, PeopleTyped, ConnectedHaveSeats
  <2>4. PeopleTyped'
    BY <1>1, <1>5, <2>2, <2>3, OweTyped DEF Takeover, PeopleTyped
  <2> QED BY <2>1, <2>2, <2>4, OweKeeps
<1>6. ASSUME NEW d \in Devices, RemoveSeat(d) PROVE IInv'
  <2>1. TableOK'
    BY <1>6, RemovedTyped DEF RemoveSeat, IInv
  <2>2. Owe /\ deal' = deal
    BY <1>6 DEF RemoveSeat
  <2>3. ConnectedHaveSeats'
    <3>1. Seats' = Seats \ {d} /\ (stage' # "none" => stage # "none")
      BY <1>6, KeepTyped DEF RemoveSeat, Removed, Seats, IInv, TableOK
    <3> QED BY <1>1, <1>6, <3>1 DEF RemoveSeat, Vacant, PeopleTyped, ConnectedHaveSeats
  <2>4. PeopleTyped'
    BY <1>1, <1>6, <2>2, <2>3, OweTyped DEF RemoveSeat, PeopleTyped
  <2> QED BY <2>1, <2>2, <2>4, OweKeeps
<1> QED BY <1>2, <1>3, <1>4, <1>5, <1>6 DEF SeatMessage

-------------------------------------------------------------------------------
(* Steps after which nobody is automated who was not, and the timers.      *)

\* Where the room has fewer turns to play than before, nothing has to be set.
LEMMA FewerAutomatedKeeps ==
  ASSUME IInv, PeopleTyped', UNCHANGED <<tvars, timers, owing, deal>>,
         online' \subseteq online,
         \A d \in online' : assist'[d] = "on" => assist[d] = "on"
  PROVE  IInv'
<1>1. UNCHANGED <<stage, seats, dealer, rnd, toBid, toPlay, handsLeft>> /\ UNCHANGED <<botTimer, trickTimer>>
  BY DEF tvars, timers
<1>2. TableOK'
  BY TableStepTyped DEF TableStep, IInv
<1>3. TimerKnowsItsTurn'
  BY <1>1 DEF IInv, TimerKnowsItsTurn
<1>4. Fingerprint' = Fingerprint /\ Turn' = Turn
  BY <1>1 DEF Actor, Fingerprint, Turn, IndexIn
<1>5. Active' => Active
  BY <1>1 DEF Active, Playing, PileComplete
<1>6. PileComplete' = PileComplete /\ Actor' = Actor
  BY <1>1 DEF PileComplete, Actor
<1>7. Automated(Actor)' => Automated(Actor)
  BY <1>6 DEF Automated
<1>8. Active' /\ Automated(Actor)' => TimerDue' = TimerDue
  BY <1>4, <1>5, <1>6, <1>7 DEF TimerDue
<1>9. AutomationArmed'
  BY <1>1, <1>5, <1>6, <1>7, <1>8 DEF IInv, AutomationArmed
<1> QED BY <1>1, <1>2, <1>3, <1>9 DEF IInv, TypeOK, PeopleTyped

\* Unlocking, leaving and losing the connection, which schedule nothing, keep the
\* invariant.
LEMMA AssistStepsKeep ==
  ASSUME IInv, NEW d \in Humans, Unlock(d) \/ Leave(d) \/ Disconnect(d)
  PROVE  IInv'
<1>1. PeopleTyped /\ d \in online
  BY DEF IInv, TypeOK, PeopleTyped, Unlock, Leave, Disconnect
<1>2. UNCHANGED <<tvars, timers, owing, deal>> /\ online' \subseteq online
  BY DEF Unlock, Leave, Disconnect, handling
<1>3. assist' = [assist EXCEPT ![d] = "off"] \/ assist' = [assist EXCEPT ![d] = "locked"]
  BY DEF Unlock, Leave, Disconnect, Cleared
<1>4. \A e \in online' : assist'[e] = "on" => assist[e] = "on"
  BY <1>1, <1>2, <1>3 DEF PeopleTyped
<1>5. PeopleTyped'
  <2>1. ConnectedHaveSeats'
    BY <1>1, <1>2, SeatsStay DEF PeopleTyped, tvars
  <2> QED BY <1>1, <1>2, <1>3, <2>1 DEF PeopleTyped, Unlock, Leave, Disconnect, handling
<1> QED BY <1>2, <1>4, <1>5, FewerAutomatedKeeps

\* The bot timer keeps the invariant.
LEMMA BotFiresKeeps ==
  ASSUME IInv, BotFires
  PROVE  IInv'
<1>1. UNCHANGED <<online, assist, owing, leaving, deal>>
  BY DEF BotFires, handling
<1>2. CASE MayAct
  <2>1. /\ Move(Actor)
        /\ IF PileComplete' THEN trickTimer' = PilePrint' /\ botTimer' = NoTimer
           ELSE botTimer' = TimerDue' /\ trickTimer' = trickTimer
    BY <1>2 DEF BotFires
  <2>2. TableOK' /\ ConnectedHaveSeats'
    <3>1. TableOK' /\ UNCHANGED seats /\ stage # "none"
      BY <2>1, MoveTyped DEF IInv
    <3> QED BY <1>1, <3>1, SeatsStay DEF IInv, TypeOK
  <2>3. PrintIsTimer' /\ DueIsNow'
    BY PilePrintIsTimer, TimerDueTyped, PTL
  <2>4. deal' \in 0..MaxDeals
    BY <1>1 DEF IInv, TypeOK
  <2>5. CASE PileComplete'
    <3>1. trickTimer' # NoTimer /\ botTimer' = NoTimer
      BY <2>1, <2>2, <2>3, <2>4, <2>5 DEF PrintIsTimer
    <3>2. ~Active'
      BY <2>5 DEF Active
    <3> QED BY <1>1, <2>2, <3>1, <3>2 DEF IInv, TypeOK, TimerKnowsItsTurn, AutomationArmed
  <2>6. CASE ~PileComplete'
    <3>1. botTimer' = TimerDue'
      BY <2>1, <2>6
    <3>2. AutomationArmed'
      BY <2>6, <3>1 DEF AutomationArmed
    <3>3. TimerKnowsItsTurn' /\ (botTimer' = NoTimer \/ botTimer'.actor \in Devices)
      BY <2>2, <2>3, <3>1 DEF DueIsNow, TimerKnowsItsTurn
    <3> QED BY <1>1, <2>2, <3>2, <3>3 DEF IInv, TypeOK
  <2> QED BY <2>5, <2>6
<1>3. CASE ~MayAct
  <2>1. botTimer # NoTimer /\ botTimer' = NoTimer /\ UNCHANGED <<tvars, trickTimer>>
    BY <1>3 DEF BotFires
  <2>2. UNCHANGED <<stage, seats, dealer, rnd, toBid, toPlay, handsLeft>>
    BY <2>1 DEF tvars
  <2>3. TableOK' /\ ConnectedHaveSeats'
    BY <1>1, <2>1, <2>2, TableStepTyped, SeatsStay DEF TableStep, IInv, TypeOK
  <2>4. TimerKnowsItsTurn'
    BY <2>1 DEF TimerKnowsItsTurn
  <2>5. ~(online # {} /\ owing = 0 /\ Active /\ Automated(Actor))
    <3> SUFFICES ASSUME online # {}, owing = 0, Active, Automated(Actor) PROVE FALSE
      OBVIOUS
    <3>1. botTimer = TimerDue
      BY DEF IInv, AutomationArmed
    <3>2. botTimer = [actor |-> Actor, assist |-> Actor \in Humans, print |-> Fingerprint, turn |-> Turn]
      BY <3>1 DEF TimerDue
    <3>3. botTimer.actor = Actor /\ botTimer.assist = (Actor \in Humans) /\ botTimer.print = Fingerprint
      BY <3>2
    <3> QED BY <1>3, <3>3 DEF MayAct
  <2>6. Actor' = Actor /\ Active' = Active /\ PileComplete' = PileComplete
    BY <1>1, <2>2 DEF Actor, Active, Playing, PileComplete
  <2>7. Automated(Actor)' = Automated(Actor)
    BY <1>1, <2>6 DEF Automated
  <2>8. AutomationArmed'
    BY <1>1, <2>1, <2>5, <2>6, <2>7 DEF IInv, AutomationArmed
  <2> QED BY <1>1, <2>1, <2>3, <2>4, <2>8 DEF IInv, TypeOK
<1> QED BY <1>2, <1>3

\* The trick timer keeps the invariant.
LEMMA TrickFiresKeeps ==
  ASSUME IInv, TrickFires
  PROVE  IInv'
<1>1. UNCHANGED <<online, assist, owing, leaving, deal>>
  BY DEF TrickFires, handling
<1>2. CASE PileComplete /\ PilePrint = trickTimer
  <2>1. Resolve /\ botTimer' = TimerDue'
    BY <1>2 DEF TrickFires
  <2>2. TableOK' /\ ~PileComplete' /\ ConnectedHaveSeats'
    <3>1. UNCHANGED seats /\ stage # "none"
      BY <2>1 DEF Resolve, Deal
    <3> QED BY <1>1, <2>1, <3>1, ResolveTyped, SeatsStay DEF IInv, TypeOK
  <2>3. DueIsNow'
    BY TimerDueTyped, PTL
  <2>4. TimerKnowsItsTurn' /\ (botTimer' = NoTimer \/ botTimer'.actor \in Devices)
    BY <2>1, <2>2, <2>3 DEF DueIsNow, TimerKnowsItsTurn
  <2>5. AutomationArmed'
    BY <2>1, <2>2 DEF AutomationArmed
  <2> QED BY <1>1, <2>2, <2>4, <2>5 DEF IInv, TypeOK
<1>3. CASE ~(PileComplete /\ PilePrint = trickTimer)
  <2>1. UNCHANGED tvars /\ OtherPile
    BY <1>3 DEF TrickFires
  <2>2. UNCHANGED <<stage, seats, dealer, rnd, toBid, toPlay, handsLeft>>
    BY <2>1 DEF tvars
  <2>3. TableOK' /\ ConnectedHaveSeats'
    BY <1>1, <2>1, <2>2, TableStepTyped, SeatsStay DEF TableStep, IInv, TypeOK
  <2>4. PileComplete' = PileComplete
    BY <2>2 DEF PileComplete
  <2>5. CASE PileComplete
    <3>1. trickTimer' = PilePrint /\ botTimer' = botTimer
      BY <2>1, <2>5 DEF OtherPile
    <3>2. trickTimer' # NoTimer
      BY <3>1, PilePrintIsTimer DEF PrintIsTimer, IInv, TypeOK
    <3>3. ~Active'
      BY <2>4, <2>5 DEF Active
    <3>4. AutomationArmed' /\ TimerKnowsItsTurn'
      BY <1>1, <3>1, <3>2, <3>3 DEF AutomationArmed, TimerKnowsItsTurn, IInv
    <3> QED BY <1>1, <2>3, <3>1, <3>4 DEF IInv, TypeOK
  <2>6. CASE ~PileComplete
    <3>1. botTimer' = TimerDue
      BY <2>1, <2>6 DEF OtherPile
    <3>2. TimerDue' = TimerDue
      BY <1>1, <2>2 DEF TimerDue, Active, Playing, PileComplete, Automated, Actor, Fingerprint, Turn, IndexIn
    <3>3. AutomationArmed'
      BY <2>4, <2>6, <3>1, <3>2 DEF AutomationArmed
    <3>4. TimerKnowsItsTurn' /\ (botTimer' = NoTimer \/ botTimer'.actor \in Devices)
      BY <1>1, <3>1, TimerDueTyped DEF DueIsNow, TimerKnowsItsTurn, IInv
    <3> QED BY <1>1, <2>3, <3>3, <3>4 DEF IInv, TypeOK
  <2> QED BY <2>5, <2>6
<1> QED BY <1>2, <1>3

\* A crash, after which a join schedules afresh, keeps the invariant.
LEMMA CrashKeeps ==
  ASSUME IInv, Crash
  PROVE  IInv'
<1>1. TableOK'
  BY TableStepTyped DEF Crash, TableStep, IInv
<1>2. ConnectedHaveSeats'
  BY DEF Crash, ConnectedHaveSeats
<1> QED BY <1>1, <1>2, BoundsAssumption DEF Crash, IInv, TypeOK, TimerKnowsItsTurn, AutomationArmed

-------------------------------------------------------------------------------
(* The theorems.                                                           *)

\* The invariant holds initially.
LEMMA InitialProgress == Init => IInv
<1> SUFFICES ASSUME Init PROVE IInv
  OBVIOUS
<1>1. TableOK
  BY DEF Init, TInit, TableOK, Distinct
<1>2. ~Active /\ ~PileComplete /\ ConnectedHaveSeats
  BY DEF Init, TInit, Active, Playing, PileComplete, ConnectedHaveSeats
<1> QED BY <1>1, <1>2, BoundsAssumption DEF Init, IInv, TypeOK, TimerKnowsItsTurn, AutomationArmed

\* Every step keeps the invariant.
LEMMA StepsKeepProgress == IInv /\ [Next]_vars => IInv'
<1> SUFFICES ASSUME IInv, [Next]_vars PROVE IInv'
  OBVIOUS
<1>1. CASE UNCHANGED vars
  <2>1. ConnectedHaveSeats'
    BY <1>1, SeatsStay DEF vars, tvars, IInv, TypeOK
  <2>2. PeopleTyped'
    BY <1>1, <2>1 DEF vars, handling, IInv, TypeOK, PeopleTyped
  <2> QED BY <1>1, <2>2, FewerAutomatedKeeps DEF vars, handling
<1>2. CASE \E d \in Humans : Message(d) \/ LeaveDone(d) \/ Disconnect(d)
  BY <1>2, ScheduledStepsKeep, OwingStepsKeep, AssistStepsKeep DEF Message
<1> QED BY <1>1, <1>2, StartKeeps, PlayAgainKeeps, ScheduledStepsKeep, OwingStepsKeep, BotFiresKeeps,
           TrickFiresKeeps, CrashKeeps DEF Next

\* The invariant holds in every state.
LEMMA ProgressInvariant == Spec => []IInv
<1> QED BY InitialProgress, StepsKeepProgress, PTL DEF Spec

\* What the timers and the connections of a room are, in every reachable state.
THEOREM ProgressTyped == Spec => []TypeOK
<1>1. IInv => TypeOK
  BY DEF IInv
<1> QED BY <1>1, ProgressInvariant, PTL

\* While a human is connected and no handler is between its change and
\* scheduleRoomProgress, a complete pile has a timer and an automated turn has the
\* timer that will play it (socketHandlers.ts, every handler that schedules).
THEOREM AutomationStaysArmed == Spec => []AutomationArmed
<1>1. IInv => AutomationArmed
  BY DEF IInv
<1> QED BY <1>1, ProgressInvariant, PTL

\* A timeout plays only the turn it was set for, and only for a bot or a connected
\* player with private assist, whatever happened to the room since it was set
\* (scheduleBotTurn).
THEOREM TimersPlayTheirTurns == Spec => TimerPlaysItsTurn
<1> DEFINE Played == BotFires /\ tvars' # tvars =>
             /\ botTimer.turn = Turn
             /\ online # {} /\ (Actor \in Bots \/ (Actor \in online /\ assist[Actor] = "on"))
<1>1. IInv => Played
  <2> SUFFICES ASSUME IInv, BotFires, tvars' # tvars
               PROVE  /\ botTimer.turn = Turn /\ online # {}
                      /\ Actor \in Bots \/ (Actor \in online /\ assist[Actor] = "on")
    OBVIOUS
  <2>1. MayAct /\ botTimer # NoTimer
    BY DEF BotFires
  <2>2. botTimer.print = Fingerprint /\ botTimer.actor = Actor
    BY <2>1 DEF MayAct
  <2>3. Fingerprint.round = rnd /\ Fingerprint.phase = stage /\ Fingerprint.hand = handsLeft
    BY DEF Fingerprint
  <2>4. botTimer.turn = Turn
    BY <2>1, <2>2, <2>3 DEF IInv, TimerKnowsItsTurn, Turn
  <2> QED BY <2>1, <2>4 DEF MayAct, Active, Automated
<1>2. IInv /\ [Next]_vars => [Played]_vars
  BY <1>1
<1>3. TimerPlaysItsTurn <=> [][Played]_vars
  BY DEF TimerPlaysItsTurn
<1> QED BY <1>2, <1>3, ProgressInvariant, PTL DEF Spec
===============================================================================
