------------------------------ MODULE SmallTables -----------------------------
(***************************************************************************)
(* Small decks and tables for the runs of the rules engine: two suits, so  *)
(* that a hand can run out of the led suit, and just enough cards to deal  *)
(* every seat.                                                             *)
(***************************************************************************)
EXTENDS Integers, Sequences, FiniteSets

CONSTANTS d1, d2, d3, d4   \* devices

TwoSuits == <<"S", "H">>
ThreeRanks == 1..3

\* The two-suit deck as a sequence, and the shuffles of it that are tried: every
\* way to cut six cards into three hands of two.
SixCards == <<[suit |-> "S", rank |-> 1], [suit |-> "S", rank |-> 2], [suit |-> "S", rank |-> 3],
              [suit |-> "H", rank |-> 1], [suit |-> "H", rank |-> 2], [suit |-> "H", rank |-> 3]>>

Shuffled(deck, order) == [i \in 1..Len(deck) |-> deck[order[i]]]
Pairs == {p \in (1..6) \X (1..6) : p[1] < p[2]}
Rest(p, q) == CHOOSE r \in Pairs : {r[1], r[2]} \cap {p[1], p[2], q[1], q[2]} = {}
PairDeals ==
  {Shuffled(SixCards, p[1] \o p[2] \o Rest(p[1], p[2])) :
     p \in {x \in Pairs \X Pairs : {x[1][1], x[1][2]} \cap {x[2][1], x[2][2]} = {}}}

\* Three shuffles that between them leave a player void in the led suit, let a trump
\* win, and cut one-card hands of both suits.
ThreeShuffles == {Shuffled(SixCards, <<1, 2, 3, 4, 5, 6>>),
                  Shuffled(SixCards, <<4, 1, 2, 5, 3, 6>>),
                  Shuffled(SixCards, <<6, 5, 3, 2, 4, 1>>)}

\* The first and the last of them: in each a player has both suits and the others one.
TwoShuffles == {Shuffled(SixCards, <<1, 2, 3, 4, 5, 6>>),
                Shuffled(SixCards, <<6, 5, 3, 2, 4, 1>>)}

ZeroOne == 0..1
UpToTwo == 0..2

\* Seatings a lobby can produce; the shorter one is also what is left of the longer
\* when the host restarts while d1 is offline.
ThreeSeats == {<<d1, d2, d3>>}
ThreeThenTwo == {<<d1, d2, d3>>, <<d2, d3>>}
===============================================================================
