-------------------------------- MODULE Table ---------------------------------
(***************************************************************************)
(* What the rules engine promises to the room around it, without cards,    *)
(* bids or scores: who must act next, and when a round and a game end.     *)
(*                                                                         *)
(*   - every seat bids once, the one left of the dealer first and the      *)
(*     dealer last;                                                        *)
(*   - then, as many times as cards were dealt, every seat plays once in   *)
(*     the order of the table, beginning with the leader of the hand: the  *)
(*     seat left of the dealer, later whoever won the hand before;         *)
(*   - a seat that is removed owes nothing any more, and a seat that       *)
(*     changes hands owes exactly what it owed.                            *)
(*                                                                         *)
(* Engine implements it (EngineTable).                                     *)
(***************************************************************************)
EXTENDS Integers, Sequences

CONSTANTS Devices, SeatOrders, Rounds, MaxHand

ASSUME TableAssumption ==
  /\ \A order \in SeatOrders :
       /\ order \in Seq(Devices) /\ Len(order) >= 2
       /\ \A i, j \in 1..Len(order) : order[i] = order[j] => i = j
  /\ MaxHand \in Nat

VARIABLES
  stage,      \* "none", "bidding", "trick" or "game-end"
  seats,      \* the seats in table order
  dealer,     \* the device that deals
  rnd,        \* the round of the game
  toBid,      \* who has still to bid, in order
  toPlay,     \* who has still to play to the hand, in order
  handsLeft   \* hands of the round not yet resolved

tvars == <<stage, seats, dealer, rnd, toBid, toPlay, handsLeft>>

MembersOf(s) == {s[i] : i \in 1..Len(s)}
IndexIn(s, d) == CHOOSE i \in 1..Len(s) : s[i] = d
\* A sequence in which d occurs at most once, without d.
Keep(s, d) ==
  IF d \in MembersOf(s)
  THEN [i \in 1..(Len(s) - 1) |-> IF i < IndexIn(s, d) THEN s[i] ELSE s[i + 1]]
  ELSE s
\* The table order beginning with d, and with the seat left of d.
Starting(s, d) == LET i == IndexIn(s, d) IN SubSeq(s, i, Len(s)) \o SubSeq(s, 1, i - 1)
LeftOf(s, d) == LET i == IndexIn(s, d) IN s[(i % Len(s)) + 1]
RightOf(s, d) == LET i == IndexIn(s, d) IN s[((i + Len(s) - 2) % Len(s)) + 1]
Renaming(s, from, to) == [i \in 1..Len(s) |-> IF s[i] = from THEN to ELSE s[i]]

TInit ==
  /\ stage = "none" /\ seats = <<>> /\ dealer = "nobody" /\ rnd = 1
  /\ toBid = <<>> /\ toPlay = <<>> /\ handsLeft = 0

Deal(order, d, r) ==
  /\ stage' = "bidding"
  /\ seats' = order
  /\ dealer' = d
  /\ rnd' = r
  /\ toBid' = Starting(order, LeftOf(order, d))
  /\ toPlay' = <<>>
  /\ handsLeft' = MaxHand + 1 - r

Start == \E order \in SeatOrders : Deal(order, order[1], 1)

BidNext ==
  /\ stage = "bidding"
  /\ toBid' = Tail(toBid)
  /\ IF Len(toBid) = 1
     THEN stage' = "trick" /\ toPlay' = Starting(seats, LeftOf(seats, dealer))
     ELSE UNCHANGED <<stage, toPlay>>
  /\ UNCHANGED <<seats, dealer, rnd, handsLeft>>

PlayNext ==
  /\ stage = "trick" /\ toPlay # <<>>
  /\ toPlay' = Tail(toPlay)
  /\ UNCHANGED <<stage, seats, dealer, rnd, toBid, handsLeft>>

\* The hand goes to some seat; the last hand of a round ends the round.
Resolve ==
  /\ stage = "trick" /\ toPlay = <<>>
  /\ IF handsLeft > 1
     THEN /\ \E w \in MembersOf(seats) : toPlay' = Starting(seats, w)
          /\ handsLeft' = handsLeft - 1
          /\ UNCHANGED <<stage, seats, dealer, rnd, toBid>>
     ELSE IF rnd < Rounds
          THEN Deal(seats, LeftOf(seats, dealer), rnd + 1)
          ELSE /\ stage' = "game-end" /\ handsLeft' = 0
               /\ UNCHANGED <<seats, dealer, rnd, toBid, toPlay>>

\* A new game is dealt by the first seat, a continued one by the next dealer.
Again ==
  /\ stage = "game-end"
  /\ \E d \in {seats[1], LeftOf(seats, dealer)} : Deal(seats, d, 1)

Replaced(from, to) ==
  /\ from \in MembersOf(seats) /\ to \notin MembersOf(seats)
  /\ seats' = Renaming(seats, from, to)
  /\ toBid' = Renaming(toBid, from, to)
  /\ toPlay' = Renaming(toPlay, from, to)
  /\ dealer' = IF dealer = from THEN to ELSE dealer
  /\ UNCHANGED <<stage, rnd, handsLeft>>

\* The seat to the right of a dealer who leaves is the dealer of the round now.
Removed(d) ==
  /\ d \in MembersOf(seats) /\ Len(seats) > 2
  /\ seats' = Keep(seats, d)
  /\ dealer' = IF dealer = d THEN RightOf(seats, d) ELSE dealer
  /\ toBid' = Keep(toBid, d)
  /\ IF stage = "bidding" /\ Keep(toBid, d) = <<>>
     THEN stage' = "trick" /\ toPlay' = Starting(seats', LeftOf(seats', dealer'))
     ELSE stage' = stage /\ toPlay' = Keep(toPlay, d)
  /\ UNCHANGED <<rnd, handsLeft>>

TNext ==
  \/ Start \/ BidNext \/ PlayNext \/ Resolve \/ Again
  \/ \E from, to \in Devices : Replaced(from, to)
  \/ \E d \in Devices : Removed(d)

TSpec == TInit /\ [][TNext]_tvars
===============================================================================
