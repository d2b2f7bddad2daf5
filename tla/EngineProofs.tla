----------------------------- MODULE EngineProofs -----------------------------
(***************************************************************************)
(* What is proved of the rules engine for every value of its constants:    *)
(* any number of seats, cards, rounds and devices, every seating, shuffle  *)
(* and bid, and every way the host removes and reassigns seats.  First who *)
(* sits where and acts when; then where the cards are; then a round        *)
(* through the eyes of its ledger, its hands and its scoresheet; last that *)
(* Engine implements Table.                                                *)
(***************************************************************************)
EXTENDS EngineTable, WellFoundedInduction, FiniteSetTheorems, SequenceTheorems, TLAPS

-------------------------------------------------------------------------------
(* Seats and rotations.                                                    *)

\* A seated device has a seat number, and it is the number of its seat.
LEMMA SeatOfSeated ==
  ASSUME NEW order \in Seq(Devices), NEW d \in SeatsOf(order)
  PROVE  SeatOf(order, d) \in 0..(Len(order) - 1) /\ order[SeatOf(order, d) + 1] = d
BY DEF SeatsOf, SeatOf

\* A seating has no seat number twice.
LEMMA SeatOfPosition ==
  ASSUME NEW order, IsSeating(order), NEW i \in 1..Len(order)
  PROVE  order[i] \in SeatsOf(order) /\ SeatOf(order, order[i]) = i - 1
<1>1. order[i] \in SeatsOf(order)
  BY DEF IsSeating, SeatsOf
<1>2. SeatOf(order, order[i]) \in 0..(Len(order) - 1) /\ order[SeatOf(order, order[i]) + 1] = order[i]
  BY <1>1, SeatOfSeated DEF IsSeating
<1> QED BY <1>1, <1>2 DEF IsSeating

\* The first seat of a seating is held by one of its devices.
LEMMA FirstSeated ==
  ASSUME NEW order, IsSeating(order)
  PROVE  order[1] \in SeatsOf(order)
<1>1. 1 \in 1..Len(order)
  BY DEF IsSeating
<1> QED BY <1>1, SeatOfPosition

\* A seat number below the number of seats is its own remainder.
LEMMA ModSmall == \A a, n \in Nat : a < n => a % n = a
OBVIOUS

\* Counting past the last seat once comes back to the beginning.
LEMMA ModOver == \A a, n \in Nat : n > 0 /\ n <= a /\ a < 2 * n => a % n = a - n
OBVIOUS

\* A remainder is a seat number, also of a negative count.
LEMMA ModRange == \A a, n \in Int : n > 0 => a % n \in 0..(n - 1)
OBVIOUS

\* The seat after a seat that was counted round the table.
LEMMA NextSeat ==
  \A a, b, n \in Nat : n > 0 /\ a < n /\ b < n => (((a + b) % n) + 1) % n = (a + (b + 1)) % n
OBVIOUS

\* Where the seats of a table end up when they are counted from seat `from`.
LEMMA RotationAt ==
  ASSUME NEW order \in Seq(Devices), NEW from \in 0..Len(order), NEW i \in 1..Len(order)
  PROVE  OrderFrom(order, from)[i]
           = order[IF from + i <= Len(order) THEN from + i ELSE from + i - Len(order)]
<1>0. Len(order) \in Nat /\ from \in Nat /\ OrderFrom(order, from)[i] = order[((from + i - 1) % Len(order)) + 1]
  BY DEF OrderFrom
<1>1. CASE from + i <= Len(order)
  <2>1. (from + i - 1) % Len(order) = from + i - 1
    BY <1>0, <1>1, ModSmall
  <2> QED BY <1>0, <1>1, <2>1
<1>2. CASE from + i > Len(order)
  <2>1. (from + i - 1) % Len(order) = from + i - 1 - Len(order)
    BY <1>0, <1>2, ModOver, SMTT(30)
  <2> QED BY <1>0, <1>2, <2>1
<1> QED BY <1>1, <1>2

\* A rotation of a seating seats the same devices.
LEMMA RotationSeating ==
  ASSUME NEW order, IsSeating(order), NEW from \in 0..Len(order)
  PROVE  /\ IsSeating(OrderFrom(order, from))
         /\ Len(OrderFrom(order, from)) = Len(order)
         /\ SeatsOf(OrderFrom(order, from)) = SeatsOf(order)
<1> DEFINE n == Len(order)
           rotated == OrderFrom(order, from)
           At(i) == IF from + i <= n THEN from + i ELSE from + i - n
<1>1. order \in Seq(Devices) /\ n \in Nat /\ n >= 2 /\ from \in Nat
  BY DEF IsSeating
<1>2. Len(rotated) = n /\ rotated \in Seq(Devices)
  BY <1>1, ModRange DEF OrderFrom
<1>3. \A i \in 1..n : At(i) \in 1..n /\ rotated[i] = order[At(i)]
  BY <1>1, RotationAt
<1>4. \A i, j \in 1..n : At(i) = At(j) => i = j
  BY <1>1
<1>5. \A s \in 1..n : \E i \in 1..n : At(i) = s
  <2> TAKE s \in 1..n
  <2>1. CASE s > from
    <3>1. s - from \in 1..n /\ At(s - from) = s
      BY <1>1, <2>1
    <3> QED BY <3>1
  <2>2. CASE s <= from
    <3>1. s - from + n \in 1..n /\ At(s - from + n) = s
      BY <1>1, <2>2
    <3> QED BY <3>1
  <2> QED BY <1>1, <2>1, <2>2
<1> HIDE DEF At, rotated, n
<1>6. \A i, j \in 1..n : rotated[i] = rotated[j] => i = j
  <2> SUFFICES ASSUME NEW i \in 1..n, NEW j \in 1..n, rotated[i] = rotated[j]
               PROVE  i = j
    OBVIOUS
  <2>1. order[At(i)] = order[At(j)] /\ At(i) \in 1..n /\ At(j) \in 1..n
    BY <1>3
  <2>2. At(i) = At(j)
    BY <2>1 DEF IsSeating, n
  <2> QED BY <2>2, <1>4
<1>7. \A d : d \in SeatsOf(rotated) <=> d \in SeatsOf(order)
  <2>1. SeatsOf(rotated) = {rotated[i] : i \in 1..n} /\ SeatsOf(order) = {order[i] : i \in 1..n}
    BY <1>2 DEF SeatsOf, n
  <2>2. ASSUME NEW d \in SeatsOf(rotated) PROVE d \in SeatsOf(order)
    <3>1. PICK i \in 1..n : d = rotated[i]
      BY <2>1
    <3> QED BY <3>1, <2>1, <1>3
  <2>3. ASSUME NEW d \in SeatsOf(order) PROVE d \in SeatsOf(rotated)
    <3>1. PICK s \in 1..n : d = order[s]
      BY <2>1
    <3>2. PICK i \in 1..n : At(i) = s
      BY <1>5
    <3> QED BY <3>1, <3>2, <2>1, <1>3
  <2> QED BY <2>2, <2>3
<1> QED BY <1>1, <1>2, <1>6, <1>7 DEF rotated, n, IsSeating

\* Taking one element out of a sequence keeps the others, in their order.
LEMMA WithoutAt ==
  ASSUME NEW S, NEW s \in Seq(S), NEW at \in 1..Len(s)
  PROVE  /\ Without(s, at) \in Seq(S)
         /\ Len(Without(s, at)) = Len(s) - 1
         /\ \A i \in 1..(Len(s) - 1) : Without(s, at)[i] = s[IF i < at THEN i ELSE i + 1]
<1>1. Len(s) - 1 \in Nat
  OBVIOUS
<1>2. \A i \in 1..(Len(s) - 1) : s[i] \in S /\ s[i + 1] \in S
  OBVIOUS
<1> QED BY <1>1, <1>2 DEF Without

\* A seating without one of its devices seats the others.
LEMMA LeaveSeating ==
  ASSUME NEW order, IsSeating(order), Len(order) > 2, NEW d \in SeatsOf(order)
  PROVE  /\ IsSeating(Leave(order, d))
         /\ Len(Leave(order, d)) = Len(order) - 1
         /\ SeatsOf(Leave(order, d)) = SeatsOf(order) \ {d}
<1> DEFINE n == Len(order)
           at == SeatOf(order, d) + 1
           left == Leave(order, d)
           Was(i) == IF i < at THEN i ELSE i + 1
<1>1. order \in Seq(Devices) /\ n \in Nat /\ n > 2 /\ at \in 1..n /\ order[at] = d
  BY SeatOfSeated DEF IsSeating
<1>2. left = Without(order, at)
  BY DEF Leave
<1> HIDE DEF at, left
<1>3. Len(left) = n - 1 /\ left \in Seq(Devices) /\ \A i \in 1..(n - 1) : left[i] = order[Was(i)]
  BY <1>1, <1>2, WithoutAt
<1>4. \A i \in 1..(n - 1) : Was(i) \in 1..n /\ Was(i) # at
  BY <1>1
<1>5. \A i, j \in 1..(n - 1) : Was(i) = Was(j) => i = j
  BY <1>1
<1>6. \A s \in 1..n : s # at => \E i \in 1..(n - 1) : Was(i) = s
  <2> SUFFICES ASSUME NEW s \in 1..n, s # at PROVE \E i \in 1..(n - 1) : Was(i) = s
    OBVIOUS
  <2>1. CASE s < at
    <3>1. s \in 1..(n - 1) /\ Was(s) = s
      BY <1>1, <2>1
    <3> QED BY <3>1
  <2>2. CASE s > at
    <3>1. s - 1 \in 1..(n - 1) /\ Was(s - 1) = s
      BY <1>1, <2>2
    <3> QED BY <3>1
  <2> QED BY <1>1, <2>1, <2>2
<1>7. \A i, j \in 1..n : order[i] = order[j] => i = j
  BY DEF IsSeating
<1> HIDE DEF Was, n
<1>8. \A i, j \in 1..(n - 1) : left[i] = left[j] => i = j
  BY <1>3, <1>4, <1>5, <1>7
<1>9. SeatsOf(left) = {left[i] : i \in 1..(n - 1)} /\ SeatsOf(order) = {order[i] : i \in 1..n}
  BY <1>3 DEF SeatsOf, n
<1>10. ASSUME NEW e \in SeatsOf(left) PROVE e \in SeatsOf(order) \ {d}
  <2>1. PICK i \in 1..(n - 1) : e = left[i]
    BY <1>9
  <2>2. Was(i) \in 1..n /\ Was(i) # at /\ e = order[Was(i)]
    BY <2>1, <1>3, <1>4
  <2> QED BY <2>2, <1>1, <1>7, <1>9
<1>11. ASSUME NEW e \in SeatsOf(order) \ {d} PROVE e \in SeatsOf(left)
  <2>1. PICK s \in 1..n : e = order[s]
    BY <1>9
  <2>2. PICK i \in 1..(n - 1) : Was(i) = s
    BY <1>1, <1>6, <2>1
  <2> QED BY <2>1, <2>2, <1>3, <1>9
<1>12. SeatsOf(left) = SeatsOf(order) \ {d}
  BY <1>10, <1>11
<1> QED BY <1>1, <1>3, <1>8, <1>12 DEF IsSeating, n, left

-------------------------------------------------------------------------------
(* Dealing.                                                                *)

\* A slice of k cards ends before a later one begins.
LEMMA SlicesInOrder == \A i, j, k \in Nat : i < j => i * k + k <= j * k
OBVIOUS

\* A card of the deck lies in one slice only (dealRound).
LEMMA SlicesApart ==
  ASSUME NEW i \in Nat, NEW j \in Nat, NEW k \in Nat, i # j
  PROVE  ((i * k + 1)..(i * k + k)) \cap ((j * k + 1)..(j * k + k)) = {}
<1>1. i * k + k <= j * k \/ j * k + k <= i * k
  <2>1. CASE i < j
    BY <2>1, SlicesInOrder
  <2>2. CASE j < i
    BY <2>2, SlicesInOrder
  <2> QED BY <2>1, <2>2
<1>2. i * k \in Nat /\ j * k \in Nat
  OBVIOUS
<1> DEFINE p == i * k
           q == j * k
<1> HIDE DEF p, q
<1>3. p \in Nat /\ q \in Nat /\ (p + k <= q \/ q + k <= p)
  BY <1>1, <1>2 DEF p, q
<1>4. ((p + 1)..(p + k)) \cap ((q + 1)..(q + k)) = {}
  BY <1>3
<1> QED BY <1>4 DEF p, q

\* The cards of a later round are no more than those of the first.
LEMMA ProductGrows == \A n, k, m \in Nat : k <= m => n * k <= n * m
OBVIOUS

\* cardsThisRound lies between one card and a first-round hand.
LEMMA HandSizeBounds ==
  ASSUME NEW r \in 1..Rounds
  PROVE  HandSize(r) \in Nat /\ HandSize(r) >= 1 /\ HandSize(r) <= MaxHand /\ MaxHand \in Nat
BY RoundsAssumption DEF HandSize

\* Different places of the deck hold as many cards.
LEMMA SliceCounts ==
  ASSUME NEW deck, NEW S, IsFiniteSet(S), \A i, j \in S : deck[i] = deck[j] => i = j,
         NEW T, T = {deck[j] : j \in S}
  PROVE  IsFiniteSet(T) /\ Cardinality(T) = Cardinality(S)
<1> DEFINE f == [j \in S |-> deck[j]]
<1>1. f \in [S -> T] /\ \A t \in T : \E j \in S : f[j] = t
  OBVIOUS
<1>2. IsInjective(f)
  BY DEF IsInjective
<1>3. f \in Bijection(S, T)
  BY <1>1, <1>2 DEF Bijection, Injection, Surjection
<1>4. ExistsBijection(S, T)
  BY <1>3 DEF ExistsBijection
<1> QED BY <1>4, FS_Bijection

\* Every seat is dealt the cards of the round, and no card is dealt to two seats.
LEMMA DealtHands ==
  ASSUME NEW order, IsSeating(order), NEW dealer \in 0..(Len(order) - 1),
         NEW r \in 1..Rounds, NEW deck \in Decks, Len(order) * MaxHand <= Len(deck)
  PROVE  /\ DealRound(order, r, dealer, deck) \in [SeatsOf(order) -> SUBSET Card]
         /\ \A d, e \in SeatsOf(order) : d # e =>
              DealRound(order, r, dealer, deck)[d] \cap DealRound(order, r, dealer, deck)[e] = {}
         /\ \A d \in SeatsOf(order) :
              /\ IsFiniteSet(DealRound(order, r, dealer, deck)[d])
              /\ Cardinality(DealRound(order, r, dealer, deck)[d]) = HandSize(r)
<1> DEFINE n == Len(order)
           k == HandSize(r)
           dealt == OrderFrom(order, dealer + 1)
           Slice(d) == (SeatOf(dealt, d) * k + 1)..(SeatOf(dealt, d) * k + k)
<1>1. n \in Nat /\ dealer + 1 \in 0..n /\ k \in Nat /\ k <= MaxHand /\ MaxHand \in Nat
  BY HandSizeBounds DEF IsSeating
<1>2. IsSeating(dealt) /\ Len(dealt) = n /\ SeatsOf(dealt) = SeatsOf(order)
  BY <1>1, RotationSeating
<1>3. deck \in Seq(Card) /\ \A i, j \in 1..Len(deck) : deck[i] = deck[j] => i = j
  BY DecksAssumption
<1> HIDE DEF dealt, k
<1>4. \A d \in SeatsOf(order) : SeatOf(dealt, d) \in 0..(n - 1) /\ dealt[SeatOf(dealt, d) + 1] = d
  BY <1>2, SeatOfSeated DEF IsSeating
<1>5. ASSUME NEW d \in SeatsOf(order) PROVE Slice(d) \subseteq 1..Len(deck)
  <2>1. SeatOf(dealt, d) \in Nat /\ SeatOf(dealt, d) < n
    BY <1>1, <1>4
  <2>2. SeatOf(dealt, d) * k + k <= n * k /\ n * k <= n * MaxHand
    BY <1>1, <2>1, SlicesInOrder, ProductGrows
  <2>3. SeatOf(dealt, d) * k + k <= Len(deck)
    BY <1>1, <1>3, <2>1, <2>2, SMTT(30)
  <2>4. SeatOf(dealt, d) * k \in Nat
    BY <1>1, <2>1
  <2> QED BY <1>1, <1>3, <2>3, <2>4
<1>6. ASSUME NEW d \in SeatsOf(order), NEW e \in SeatsOf(order), d # e
      PROVE  Slice(d) \cap Slice(e) = {}
  <2>1. SeatOf(dealt, d) \in Nat /\ SeatOf(dealt, e) \in Nat /\ SeatOf(dealt, d) # SeatOf(dealt, e)
    BY <1>1, <1>4, <1>6
  <2> QED BY <1>1, <2>1, SlicesApart
<1>7. DealRound(order, r, dealer, deck) = [d \in SeatsOf(order) |-> {deck[j] : j \in Slice(d)}]
  BY DEF DealRound, dealt, k
<1>8. ASSUME NEW d \in SeatsOf(order)
      PROVE  IsFiniteSet({deck[j] : j \in Slice(d)}) /\ Cardinality({deck[j] : j \in Slice(d)}) = k
  <2> DEFINE first == SeatOf(dealt, d) * k
             T == {deck[j] : j \in Slice(d)}
  <2>1. first \in Nat
    BY <1>1, <1>4
  <2>2. \A i, j \in Slice(d) : deck[i] = deck[j] => i = j
    BY <1>3, <1>5
  <2>3. Slice(d) = (first + 1)..(first + k)
    OBVIOUS
  <2>4. T = {deck[j] : j \in Slice(d)}
    OBVIOUS
  <2> HIDE DEF first, Slice, T
  <2>5. IsFiniteSet(Slice(d)) /\ Cardinality(Slice(d)) = k
    <3> DEFINE lo == first + 1
               hi == first + k
    <3>1. lo \in Int /\ hi \in Int /\ (lo > hi <=> k = 0) /\ hi - lo + 1 = k
      BY <1>1, <2>1
    <3>2. Slice(d) = lo..hi
      BY <2>3
    <3> HIDE DEF lo, hi
    <3> QED BY <1>1, <3>1, <3>2, FS_Interval
  <2>6. IsFiniteSet(T) /\ Cardinality(T) = Cardinality(Slice(d))
    BY <2>2, <2>4, <2>5, SliceCounts
  <2> QED BY <2>4, <2>5, <2>6
<1> HIDE DEF Slice
<1>9. HandSize(r) = k
  BY DEF k
<1> QED BY <1>3, <1>5, <1>6, <1>7, <1>8, <1>9

-------------------------------------------------------------------------------
(* Least and greatest elements.                                            *)

\* A set of naturals that is not empty has a least element.
LEMMA LeastExists ==
  ASSUME NEW T, T \subseteq Nat, T # {}
  PROVE  \E x \in T : \A y \in T : x <= y
<1> DEFINE R == {ss \in Nat \X Nat : ss[1] < ss[2]}
<1>1. R = OpToRel(<, Nat)
  BY Zenon DEF OpToRel
<1>2. IsWellFoundedOn(R, Nat)
  BY <1>1, NatLessThanWellFounded, Zenon
<1>3. PICK x \in T : \A y \in T : ~ (<<y, x>> \in R)
  <2> HIDE DEF R
  <2> QED BY <1>2, WFMin
<1>4. ASSUME NEW y \in T PROVE x <= y
  <2>1. x \in Nat /\ y \in Nat /\ ~ (<<y, x>> \in R)
    BY <1>3
  <2>2. ~ (y < x)
    BY <2>1
  <2> QED BY <2>1, <2>2
<1> QED BY <1>4

\* Min of a set of naturals is one of them and none is less.
LEMMA MinIsLeast ==
  ASSUME NEW T, T \subseteq Nat, T # {}
  PROVE  Min(T) \in T /\ \A y \in T : Min(T) <= y
BY LeastExists DEF Min

\* Among cards of which there is one, one has the highest rank.
LEMMA HighestExists ==
  ASSUME NEW pool, pool # {}, NEW rank \in [pool -> Ranks]
  PROVE  \E i \in pool : \A j \in pool : rank[j] <= rank[i]
<1> DEFINE gaps == {12 - rank[i] : i \in pool}
<1>1. \A i \in pool : rank[i] \in 0..12
  BY RanksAssumption
<1>2. gaps \subseteq Nat /\ gaps # {}
  BY <1>1
<1>3. PICK x \in gaps : \A y \in gaps : x <= y
  BY <1>2, LeastExists
<1>4. PICK i \in pool : x = 12 - rank[i]
  OBVIOUS
<1>5. ASSUME NEW j \in pool PROVE rank[j] <= rank[i]
  <2>1. 12 - rank[j] \in gaps
    OBVIOUS
  <2>2. x <= 12 - rank[j]
    BY <1>3, <2>1
  <2> QED BY <1>1, <1>4, <2>2
<1> QED BY <1>5

-------------------------------------------------------------------------------
(* Removing a seat from a rotation.                                        *)

\* Counting from one past the last seat is counting from the first.
LEMMA RotationFull ==
  ASSUME NEW order, IsSeating(order)
  PROVE  OrderFrom(order, Len(order)) = OrderFrom(order, 0)
<1>1. order \in Seq(Devices) /\ Len(order) \in Nat
  BY DEF IsSeating
<1>2. \A i \in 1..Len(order) : OrderFrom(order, Len(order))[i] = OrderFrom(order, 0)[i]
  BY <1>1, RotationAt
<1> QED BY <1>2 DEF OrderFrom

\* Where a device of a seating is taken out.
LEMMA LeaveAt ==
  ASSUME NEW order, IsSeating(order), NEW p \in 1..Len(order)
  PROVE  /\ Leave(order, order[p]) = Without(order, p)
         /\ \A i \in 1..(Len(order) - 1) :
              Leave(order, order[p])[i] = order[IF i < p THEN i ELSE i + 1]
<1>1. order[p] \in SeatsOf(order) /\ SeatOf(order, order[p]) + 1 = p /\ order \in Seq(Devices)
  BY SeatOfPosition DEF IsSeating
<1>2. Leave(order, order[p]) = Without(order, p)
  BY <1>1 DEF Leave
<1> QED BY <1>1, <1>2, WithoutAt

\* Positions: element i of a rotation of n seats from seat `from`; where seat `gone`
\* stands in it; the i-th position other than p; and the first seat of the rotation,
\* renumbered for the table without seat `gone`.
RotatedIndex(n, from, i) == IF from + i <= n THEN from + i ELSE from + i - n
PlaceOf(n, from, gone) ==
  IF gone >= from /\ from < n THEN gone - from + 1 ELSE gone - from + n + 1
Past(p, i) == IF i < p THEN i ELSE i + 1
FirstWithout(from, gone) == IF gone < from THEN from - 1 ELSE from

\* It is the same whether a seat is taken out before or after rotating.
LEMMA RotationIndex ==
  ASSUME NEW n \in Nat, n > 2, NEW gone \in 0..(n - 1), NEW from \in 0..n, NEW i \in 1..(n - 1)
  PROVE  /\ Past(PlaceOf(n, from, gone), i) \in 1..n
         /\ RotatedIndex(n - 1, FirstWithout(from, gone), i) \in 1..(n - 1)
         /\ RotatedIndex(n, from, Past(PlaceOf(n, from, gone), i))
              = Past(gone + 1, RotatedIndex(n - 1, FirstWithout(from, gone), i))
<1> DEFINE first == FirstWithout(from, gone)
           p == PlaceOf(n, from, gone)
           kept == Past(p, i)
           inLeft == RotatedIndex(n - 1, first, i)
<1> SUFFICES kept \in 1..n /\ inLeft \in 1..(n - 1) /\ RotatedIndex(n, from, kept) = Past(gone + 1, inLeft)
  OBVIOUS
<1>1. kept = (IF i < p THEN i ELSE i + 1)
      /\ inLeft = (IF first + i <= n - 1 THEN first + i ELSE first + i - (n - 1))
  BY DEF Past, RotatedIndex
<1>2. CASE gone < from
  <2>1. first = from - 1 /\ p = gone - from + n + 1
    BY <1>2 DEF FirstWithout, PlaceOf
  <2> HIDE DEF first, p, kept, inLeft
  <2>2. CASE i < p
    BY <1>1, <1>2, <2>1, <2>2 DEF RotatedIndex, Past
  <2>3. CASE ~(i < p)
    BY <1>1, <1>2, <2>1, <2>3 DEF RotatedIndex, Past
  <2> QED BY <2>2, <2>3
<1>3. CASE gone >= from
  <2>1. first = from /\ p = gone - from + 1
    BY <1>3 DEF FirstWithout, PlaceOf
  <2> HIDE DEF first, p, kept, inLeft
  <2>2. CASE i < p
    BY <1>1, <1>3, <2>1, <2>2 DEF RotatedIndex, Past
  <2>3. CASE ~(i < p)
    BY <1>1, <1>3, <2>1, <2>3 DEF RotatedIndex, Past
  <2> QED BY <2>2, <2>3
<1> QED BY <1>2, <1>3

\* Rotating a table and taking a seat out commute.
LEMMA LeaveRotation ==
  ASSUME NEW order, IsSeating(order), Len(order) > 2, NEW d \in SeatsOf(order),
         NEW from \in 0..Len(order)
  PROVE  /\ FirstWithout(from, SeatOf(order, d)) \in 0..(Len(order) - 1)
         /\ OrderFrom(order, from)[PlaceOf(Len(order), from, SeatOf(order, d))] = d
         /\ PlaceOf(Len(order), from, SeatOf(order, d)) \in 1..Len(order)
         /\ Leave(OrderFrom(order, from), d)
              = OrderFrom(Leave(order, d), FirstWithout(from, SeatOf(order, d)))
<1> DEFINE n == Len(order)
           gone == SeatOf(order, d)
           first == FirstWithout(from, gone)
           R == OrderFrom(order, from)
           left == Leave(order, d)
           p == PlaceOf(n, from, gone)
<1>1. /\ order \in Seq(Devices) /\ n \in Nat /\ n > 2
      /\ gone \in 0..(n - 1) /\ order[gone + 1] = d /\ from \in 0..n
  BY SeatOfSeated DEF IsSeating
<1>2. first \in 0..(n - 1)
  BY <1>1 DEF FirstWithout
<1>3. IsSeating(R) /\ Len(R) = n
  BY <1>1, RotationSeating
<1>4. IsSeating(left) /\ Len(left) = n - 1
  BY <1>1, LeaveSeating
<1>5. p \in 1..n /\ RotatedIndex(n, from, p) = gone + 1
  BY <1>1 DEF PlaceOf, RotatedIndex
<1>6. \A i \in 1..n : R[i] = order[RotatedIndex(n, from, i)]
  BY <1>1, RotationAt DEF RotatedIndex
<1>7. R[p] = d
  BY <1>1, <1>5, <1>6
<1> HIDE DEF R, left, first, p, gone
<1>8. \A i \in 1..(n - 1) : Leave(R, d)[i] = R[Past(p, i)]
  BY <1>3, <1>5, <1>7, LeaveAt DEF Past
<1>9. \A i \in 1..(n - 1) : OrderFrom(left, first)[i] = left[RotatedIndex(n - 1, first, i)]
  <2>1. left \in Seq(Devices) /\ first \in 0..Len(left)
    BY <1>2, <1>4 DEF IsSeating
  <2>2. \A i \in 1..Len(left) : OrderFrom(left, first)[i] = left[RotatedIndex(Len(left), first, i)]
    BY <2>1, RotationAt DEF RotatedIndex
  <2> QED BY <1>4, <2>2
<1>10. \A i \in 1..(n - 1) : left[i] = order[Past(gone + 1, i)]
  <2>1. gone + 1 \in 1..Len(order) /\ order[gone + 1] = d
    BY <1>1
  <2> QED BY <2>1, LeaveAt DEF Past, left
<1>11. \A i \in 1..(n - 1) :
         /\ Past(p, i) \in 1..n /\ RotatedIndex(n - 1, first, i) \in 1..(n - 1)
         /\ RotatedIndex(n, from, Past(p, i)) = Past(gone + 1, RotatedIndex(n - 1, first, i))
  <2> HIDE DEF n
  <2> QED BY <1>1, RotationIndex DEF first, p
<1>12. Leave(R, d) \in Seq(Devices) /\ Len(Leave(R, d)) = n - 1
  <2>1. Len(R) > 2 /\ d \in SeatsOf(R)
    BY <1>1, <1>3, <1>5, <1>7 DEF SeatsOf
  <2> QED BY <1>3, <2>1, LeaveSeating DEF IsSeating
<1>13. OrderFrom(left, first) \in Seq(Devices) /\ Len(OrderFrom(left, first)) = n - 1
  <2>1. first \in 0..Len(left)
    BY <1>2, <1>4
  <2> QED BY <1>4, <2>1, RotationSeating DEF IsSeating
<1> HIDE DEF n
<1>14. \A i \in 1..(n - 1) : Leave(R, d)[i] = OrderFrom(left, first)[i]
  BY <1>6, <1>8, <1>9, <1>10, <1>11
<1>15. Leave(R, d) = OrderFrom(left, first)
  BY <1>12, <1>13, <1>14
<1> QED BY <1>2, <1>5, <1>7, <1>15 DEF R, left, first, gone, p, n

-------------------------------------------------------------------------------
(* The inductive invariant: the two orders the table keeps, DealerBidsLast *)
(* and PileFollowsSeats, with what they rest on.                           *)

\* In every phase the seats are a seating, an auction has a seat on turn and no pile,
\* play begins when everyone has bid, and every deck is large enough for the table.
TableSeated ==
  /\ phase = "none" => seatOrder = <<>>
  /\ phase # "none" => IsSeating(seatOrder)
  /\ phase # "trick" => currentTrick = <<>>
  /\ phase = "bidding" => turnSeat \in 0..(Len(seatOrder) - 1) /\ bidTurnIndex < Len(bidOrder)
  /\ phase \in {"trick", "game-end"} => bidTurnIndex >= Len(bidOrder)
  /\ \A deck \in Decks : Len(seatOrder) * MaxHand <= Len(deck)

\* Hand numbers never decrease along the ledger.
NumbersOrdered ==
  \A i, j \in 1..Len(plays) : i < j => plays[i].handNumber <= plays[j].handNumber

IInv ==
  /\ TypeOK
  /\ TableSeated
  /\ DealerBidsLast
  /\ PileFollowsSeats
  /\ NumbersOrdered

\* The bid order seats the same devices as the table.
LEMMA BidOrderSeating ==
  ASSUME IInv, phase # "none"
  PROVE  /\ IsSeating(seatOrder) /\ seatOrder \in Seq(Devices)
         /\ Len(seatOrder) \in Nat /\ Len(seatOrder) >= 2
         /\ dealerSeat \in 0..(Len(seatOrder) - 1) /\ dealerSeat + 1 \in 0..Len(seatOrder)
         /\ bidOrder = OrderFrom(seatOrder, dealerSeat + 1)
         /\ IsSeating(bidOrder) /\ Len(bidOrder) = Len(seatOrder) /\ SeatsOf(bidOrder) = Seated
<1>1. IsSeating(seatOrder) /\ dealerSeat \in 0..(Len(seatOrder) - 1)
      /\ bidOrder = OrderFrom(seatOrder, dealerSeat + 1)
  BY DEF IInv, TableSeated, DealerBidsLast
<1>2. seatOrder \in Seq(Devices) /\ Len(seatOrder) \in Nat /\ Len(seatOrder) >= 2
      /\ dealerSeat + 1 \in 0..Len(seatOrder)
  BY <1>1 DEF IsSeating
<1>3. IsSeating(bidOrder) /\ Len(bidOrder) = Len(seatOrder) /\ SeatsOf(bidOrder) = Seated
  BY <1>1, <1>2, RotationSeating DEF Seated
<1> QED BY <1>1, <1>2, <1>3

\* The players of the cards on the table sit there, and each has one card on it.
LEMMA PileSeated ==
  ASSUME IInv
  PROVE  /\ \A i \in 1..Len(currentTrick) : currentTrick[i].deviceId \in Seated
         /\ \A i, j \in 1..Len(currentTrick) :
              currentTrick[i].deviceId = currentTrick[j].deviceId => i = j
<1>1. CASE phase # "trick"
  BY <1>1 DEF IInv, TableSeated
<1>2. CASE phase = "trick"
  <2> DEFINE n == Len(seatOrder)
             k == Len(currentTrick)
  <2>1. PICK leader \in 0..(n - 1) :
          k <= n /\ \A i \in 1..k : currentTrick[i].deviceId = OrderFrom(seatOrder, leader)[i]
    BY <1>2 DEF IInv, PileFollowsSeats
  <2>2. n \in Nat /\ k \in Nat /\ leader \in 0..n /\ IsSeating(seatOrder)
    BY <1>2, <2>1, BidOrderSeating DEF IInv, TypeOK
  <2> DEFINE R == OrderFrom(seatOrder, leader)
  <2>3. IsSeating(R) /\ Len(R) = n /\ SeatsOf(R) = Seated
    BY <2>2, RotationSeating DEF Seated
  <2> HIDE DEF R, n, k
  <2>4. \A i \in 1..k : i \in 1..n /\ currentTrick[i].deviceId = R[i]
    BY <2>1, <2>2 DEF R
  <2>5. \A i \in 1..k : R[i] \in Seated
    BY <2>3, <2>4, SeatOfPosition DEF n
  <2>6. \A i, j \in 1..n : R[i] = R[j] => i = j
    BY <2>3 DEF IsSeating
  <2> QED BY <2>4, <2>5, <2>6 DEF k
<1> QED BY <1>1, <1>2

\* An empty pile is led by the seat on turn.
LEMMA EmptyPile ==
  ASSUME Len(seatOrder') \in Nat, Len(seatOrder') > 0, currentTrick' = <<>>,
         turnSeat' \in 0..(Len(seatOrder') - 1)
  PROVE  PileFollowsSeats'
<1>1. Len(currentTrick') = 0 /\ (turnSeat' + 0) % Len(seatOrder') = turnSeat'
  BY ModSmall
<1> QED BY <1>1 DEF PileFollowsSeats

-------------------------------------------------------------------------------
(* What the steps of the engine preserve.                                  *)

\* The invariant holds before any game was started.
LEMMA InitInv == Init => IInv
<1> SUFFICES ASSUME Init PROVE IInv
  OBVIOUS
<1>1. Seated = {} /\ Len(seatOrder) = 0
  BY DEF Init, Seated, SeatsOf
<1>2. TypeOK
  BY <1>1, RoundsAssumption DEF Init, TypeOK
<1>3. TableSeated
  <2>1. \A deck \in Decks : Len(seatOrder) * MaxHand <= Len(deck)
    BY <1>1, DecksAssumption, RoundsAssumption
  <2> QED BY <2>1 DEF Init, TableSeated
<1>4. DealerBidsLast /\ PileFollowsSeats /\ NumbersOrdered
  BY DEF Init, DealerBidsLast, PileFollowsSeats, NumbersOrdered
<1> QED BY <1>2, <1>3, <1>4 DEF IInv

\* Dealing a round at a table that is seated.
LEMMA BuildRoundInv ==
  ASSUME NEW order, IsSeating(order), \A deck \in Decks : Len(order) * MaxHand <= Len(deck),
         NEW r \in 1..Rounds, NEW dealer \in 0..(Len(order) - 1),
         BuildRound(order, r, dealer),
         scores' \in [SeatsOf(order) -> Int], carried' \in [SeatsOf(order) -> Int],
         roundHistory' \in Seq([SeatsOf(order) -> Result]),
         departed' \subseteq Devices
  PROVE  IInv'
<1>1. order \in Seq(Devices) /\ Len(order) \in Nat /\ Len(order) >= 2 /\ dealer + 1 \in 0..Len(order)
  BY DEF IsSeating
<1>2. seatOrder' = order /\ Seated' = SeatsOf(order)
  BY DEF BuildRound, Seated
<1>3. IsSeating(bidOrder') /\ Len(bidOrder') = Len(order) /\ SeatsOf(bidOrder') = SeatsOf(order)
  BY <1>1, RotationSeating DEF BuildRound
<1>4. turnSeat' \in 0..(Len(order) - 1)
  BY <1>1, ModRange DEF BuildRound
<1>5. hands' \in [SeatsOf(order) -> SUBSET Card]
  BY DealtHands DEF BuildRound
<1>6. TypeOK'
  BY <1>1, <1>2, <1>3, <1>4, <1>5, BidsAssumption DEF BuildRound, TypeOK, IsSeating
<1>7. TableSeated'
  BY <1>1, <1>2, <1>3, <1>4 DEF BuildRound, TableSeated
<1>8. DealerBidsLast'
  <2>1. \A i \in 1..Len(bidOrder') : bids'[bidOrder'[i]] = Null /\ ~(i <= bidTurnIndex')
    BY <1>1, <1>3, SeatOfPosition DEF BuildRound
  <2> QED BY <1>2, <2>1 DEF BuildRound, DealerBidsLast
<1>9. PileFollowsSeats' /\ NumbersOrdered'
  BY DEF BuildRound, PileFollowsSeats, NumbersOrdered
<1> QED BY <1>6, <1>7, <1>8, <1>9 DEF IInv

\* startRoom keeps the invariant, also during a game.
LEMMA StartGameInv ==
  ASSUME IInv, NEW order \in SeatOrders, StartGame(order)
  PROVE  IInv'
<1>1. IsSeating(order) /\ Len(order) >= 2 /\ 1 \in 1..Rounds /\ 0 \in 0..(Len(order) - 1)
  BY SeatsAssumption, RoundsAssumption DEF IsSeating
<1>2. \A deck \in Decks : Len(order) * MaxHand <= Len(deck)
  BY DecksAssumption
<1>3. scores' \in [SeatsOf(order) -> Int] /\ carried' \in [SeatsOf(order) -> Int]
  BY DEF StartGame
<1>4. roundHistory' \in Seq([SeatsOf(order) -> Result]) /\ departed' \subseteq Devices
  BY DEF StartGame, IInv, TypeOK
<1>5. BuildRound(order, 1, 0)
  BY DEF StartGame
<1> QED BY <1>1, <1>2, <1>3, <1>4, <1>5, BuildRoundInv

\* newGame keeps the invariant.
LEMMA NewGameInv ==
  ASSUME IInv, NewGame
  PROVE  IInv'
<1>1. IsSeating(seatOrder) /\ Len(seatOrder) >= 2 /\ 1 \in 1..Rounds /\ 0 \in 0..(Len(seatOrder) - 1)
  BY RoundsAssumption DEF IInv, TableSeated, NewGame, IsSeating
<1>2. \A deck \in Decks : Len(seatOrder) * MaxHand <= Len(deck)
  BY DEF IInv, TableSeated
<1>3. scores' \in [SeatsOf(seatOrder) -> Int] /\ carried' \in [SeatsOf(seatOrder) -> Int]
  BY DEF NewGame, Seated
<1>4. roundHistory' \in Seq([SeatsOf(seatOrder) -> Result]) /\ departed' \subseteq Devices
  BY DEF NewGame, IInv, TypeOK
<1>5. BuildRound(seatOrder, 1, 0)
  BY DEF NewGame
<1> QED BY <1>1, <1>2, <1>3, <1>4, <1>5, BuildRoundInv

\* continueGame keeps the invariant.
LEMMA ContinueGameInv ==
  ASSUME IInv, ContinueGame
  PROVE  IInv'
<1>1. IsSeating(seatOrder) /\ Len(seatOrder) \in Nat /\ Len(seatOrder) >= 2 /\ 1 \in 1..Rounds
      /\ dealerSeat \in Nat
  BY RoundsAssumption, BidOrderSeating DEF ContinueGame
<1>2. (dealerSeat + 1) % Len(seatOrder) \in 0..(Len(seatOrder) - 1)
  BY <1>1, ModRange
<1>3. \A deck \in Decks : Len(seatOrder) * MaxHand <= Len(deck)
  BY DEF IInv, TableSeated
<1>4. scores' \in [SeatsOf(seatOrder) -> Int] /\ carried' \in [SeatsOf(seatOrder) -> Int]
  BY DEF ContinueGame, Seated, IInv, TypeOK
<1>5. roundHistory' \in Seq([SeatsOf(seatOrder) -> Result]) /\ departed' \subseteq Devices
  BY DEF ContinueGame, IInv, TypeOK
<1>6. BuildRound(seatOrder, 1, (dealerSeat + 1) % Len(seatOrder))
  BY DEF ContinueGame
<1> QED BY <1>1, <1>2, <1>3, <1>4, <1>5, <1>6, BuildRoundInv

\* placeBid keeps the invariant, also the bid that ends the auction.
LEMMA PlaceBidInv ==
  ASSUME IInv, NEW d \in Seated, NEW bid \in BidInput, PlaceBid(d, bid)
  PROVE  IInv'
<1> DEFINE n == Len(seatOrder)
<1>1. /\ phase = "bidding" /\ phase # "none"
      /\ bidTurnIndex' = bidTurnIndex + 1 /\ bidOrder[bidTurnIndex + 1] = d
      /\ bids' = [bids EXCEPT ![d] = bid]
      /\ UNCHANGED <<round, seatOrder, bidOrder, dealerSeat, hands, tricksWon, currentTrick, plays,
                     historyComplete, voidSuits, scores, roundHistory, donkeys, carried, departed>>
  BY DEF PlaceBid, seating, ledger, sheet
<1>2. /\ IsSeating(seatOrder) /\ IsSeating(bidOrder) /\ SeatsOf(bidOrder) = Seated
      /\ Len(bidOrder) = n /\ seatOrder \in Seq(Devices) /\ n \in Nat /\ n >= 2
  BY <1>1, BidOrderSeating
<1>3. bidTurnIndex \in 0..(n - 1) /\ turnSeat \in 0..(n - 1) /\ currentTrick = <<>>
  BY <1>1, <1>2 DEF IInv, TypeOK, TableSeated
<1>4. SeatOf(seatOrder, bidOrder[1]) \in 0..(n - 1)
  <2>1. bidOrder[1] \in SeatsOf(seatOrder)
    BY <1>2, FirstSeated DEF Seated
  <2> QED BY <1>2, <2>1, SeatOfSeated
<1>5. Seated' = Seated /\ bids' \in [Seated -> Int \cup {Null}]
  BY <1>1, BidsAssumption DEF Seated, IInv, TypeOK
<1>6. /\ phase' = (IF bidTurnIndex + 1 >= n THEN "trick" ELSE "bidding")
      /\ turnSeat' \in 0..(n - 1)
  BY <1>1, <1>2, <1>3, <1>4 DEF PlaceBid
<1>7. TypeOK'
  BY <1>1, <1>2, <1>3, <1>5, <1>6 DEF IInv, TypeOK
<1>8. TableSeated'
  BY <1>1, <1>2, <1>3, <1>6 DEF IInv, TableSeated
<1>9. DealerBidsLast'
  <2>1. \A i \in 1..n : bids[bidOrder[i]] # Null <=> i <= bidTurnIndex
    BY <1>1, <1>2 DEF IInv, DealerBidsLast
  <2>2. \A i \in 1..n : bidOrder[i] \in Seated /\ (bidOrder[i] = d <=> i = bidTurnIndex + 1)
    BY <1>1, <1>2, <1>3, SeatOfPosition DEF IsSeating
  <2>3. bid # Null
    BY BidsAssumption
  <2>4. \A i \in 1..n : bids'[bidOrder[i]] # Null <=> i <= bidTurnIndex + 1
    BY <1>1, <1>3, <2>1, <2>2, <2>3 DEF IInv, TypeOK
  <2> QED BY <1>1, <1>2, <2>4 DEF IInv, DealerBidsLast
<1>10. PileFollowsSeats'
  BY <1>1, <1>2, <1>3, <1>6, EmptyPile
<1>11. NumbersOrdered'
  BY <1>1 DEF IInv, NumbersOrdered
<1> QED BY <1>7, <1>8, <1>9, <1>10, <1>11 DEF IInv

\* The ledger numbers a play no lower than the plays before it, and higher when the
\* play begins a pile.
LEMMA HandNumberLast ==
  ASSUME TypeOK, NumbersOrdered
  PROVE  /\ HandNumber \in Nat /\ \A i \in 1..Len(plays) : plays[i].handNumber <= HandNumber
         /\ currentTrick = <<>> => \A i \in 1..Len(plays) : plays[i].handNumber < HandNumber
<1> DEFINE numbers == {plays[i].handNumber : i \in 1..Len(plays)} \cup {0}
           last == IF plays = <<>> THEN 0 ELSE plays[Len(plays)].handNumber
<1>1. plays \in Seq(LedgerEntry) /\ Len(plays) \in Nat
  BY DEF TypeOK
<1>2. \A i \in 1..Len(plays) : plays[i].handNumber \in Nat
  <2>1. \A i \in 1..Len(plays) : plays[i] \in LedgerEntry
    BY <1>1
  <2> QED BY <2>1 DEF LedgerEntry
<1>3. plays # <<>> => Len(plays) \in 1..Len(plays)
  BY <1>1
<1>4. last \in Nat /\ last \in numbers
  BY <1>2, <1>3
<1>5. \A i \in 1..Len(plays) : plays[i].handNumber <= last
  BY <1>1, <1>2, <1>3 DEF NumbersOrdered
<1>6. \A x \in numbers : x <= last
  BY <1>4, <1>5
<1>7. \A x \in numbers : (\A y \in numbers : x >= y) => x = last
  <2>1. numbers \subseteq Nat
    BY <1>2
  <2> HIDE DEF numbers, last
  <2> QED BY <1>4, <1>6, <2>1
<1>8. Max(numbers) = last
  <2> HIDE DEF numbers, last
  <2>1. \E x \in numbers : \A y \in numbers : x >= y
    BY <1>4, <1>6
  <2> QED BY <2>1, <1>7 DEF Max
<1>9. CASE currentTrick # <<>>
  BY <1>2, <1>3, <1>5, <1>9 DEF HandNumber
<1>10. CASE currentTrick = <<>>
  <2>1. HandNumber = last + 1
    BY <1>8, <1>10 DEF HandNumber
  <2> QED BY <2>1, <1>2, <1>4, <1>5
<1> QED BY <1>9, <1>10

\* playCard keeps the invariant: the pile grows by the seat on turn.
LEMMA PlayCardInv ==
  ASSUME IInv, NEW d \in Seated, NEW card \in hands[d], PlayCard(d, card)
  PROVE  IInv'
<1> DEFINE lead == IF currentTrick = <<>> THEN card.suit ELSE LeadSuit
           entry == [handNumber |-> HandNumber, deviceId |-> d, card |-> card, leadSuit |-> lead]
           played == [deviceId |-> d, card |-> card]
<1>1. phase = "trick" /\ phase' = "trick" /\ Seated' = Seated /\ IsSeating(seatOrder)
  BY DEF PlayCard, seating, Seated, IInv, TableSeated
<1>2. Len(seatOrder) \in Nat /\ Len(seatOrder) >= 2 /\ d \in Devices
  BY <1>1 DEF IsSeating, Seated, SeatsOf
<1>3. card \in Card /\ card.suit \in Suits
  BY DEF IInv, TypeOK, Card
<1>4. currentTrick \in Seq(PlayedCard) /\ plays \in Seq(LedgerEntry) /\ NumbersOrdered
  BY DEF IInv, TypeOK
<1>5. currentTrick # <<>> => LeadSuit \in Suits
  <2>1. currentTrick # <<>> => currentTrick[1] \in PlayedCard
    BY <1>4
  <2> QED BY <2>1 DEF PlayedCard, Card, LeadSuit
<1>6. HandNumber \in Nat /\ \A i \in 1..Len(plays) : plays[i].handNumber <= HandNumber
  BY HandNumberLast DEF IInv
<1>7. lead \in Suits /\ entry \in LedgerEntry /\ played \in PlayedCard
  BY <1>2, <1>3, <1>5, <1>6 DEF LedgerEntry, PlayedCard
<1>8. plays' = Append(plays, entry) /\ currentTrick' = Append(currentTrick, played)
  BY DEF PlayCard
<1>9. turnSeat' \in -1..(Len(seatOrder) - 1)
  <2>1. (turnSeat + 1) % Len(seatOrder) \in 0..(Len(seatOrder) - 1)
    BY <1>2, ModRange DEF IInv, TypeOK
  <2> QED BY <1>2, <2>1 DEF PlayCard
<1>10. hands' \in [Seated -> SUBSET Card]
  BY DEF PlayCard, IInv, TypeOK
<1>11. voidSuits' \in [Seated -> SUBSET Suits]
  <2>1. voidSuits' = IF card.suit = lead THEN voidSuits ELSE [voidSuits EXCEPT ![d] = @ \cup {lead}]
    BY DEF PlayCard
  <2> HIDE DEF lead
  <2> QED BY <1>7, <2>1 DEF IInv, TypeOK
<1> HIDE DEF lead, entry, played
<1>12. plays' \in Seq(LedgerEntry) /\ currentTrick' \in Seq(PlayedCard)
  BY <1>4, <1>7, <1>8
<1>13. TypeOK'
  <2>1. UNCHANGED <<phase, round, seatOrder, bidOrder, dealerSeat, bids, bidTurnIndex,
                    tricksWon, historyComplete, scores, roundHistory, donkeys, carried, departed>>
    BY DEF PlayCard, seating, bidding, sheet
  <2>2. turnSeat' \in Int
    BY <1>2, <1>9
  <2> QED BY <1>1, <1>10, <1>11, <1>12, <2>1, <2>2 DEF IInv, TypeOK
<1>14. TableSeated' /\ DealerBidsLast'
  BY <1>1 DEF PlayCard, IInv, TableSeated, DealerBidsLast, seating, bidding
<1>15. PileFollowsSeats'
  <2> DEFINE n == Len(seatOrder)
             k == Len(currentTrick)
  <2>1. PICK leader \in 0..(n - 1) :
          /\ k <= n
          /\ \A i \in 1..k : currentTrick[i].deviceId = OrderFrom(seatOrder, leader)[i]
          /\ turnSeat = IF k < n THEN (leader + k) % n ELSE -1
    BY <1>1 DEF IInv, PileFollowsSeats
  <2>2. turnSeat >= 0 /\ seatOrder[turnSeat + 1] = d /\ seatOrder' = seatOrder /\ k \in Nat
    BY <1>4 DEF PlayCard, seating
  <2>3. k < n /\ turnSeat = (leader + k) % n
    BY <1>2, <2>1, <2>2
  <2>4. OrderFrom(seatOrder, leader)[k + 1] = d
    BY <1>2, <2>2, <2>3 DEF OrderFrom
  <2>5. Len(currentTrick') = k + 1 /\ currentTrick'[k + 1].deviceId = d
        /\ \A i \in 1..k : currentTrick'[i] = currentTrick[i]
    BY <1>4, <1>7, <1>8 DEF played
  <2>6. turnSeat' = IF k + 1 < n THEN (turnSeat + 1) % n ELSE -1
    BY DEF PlayCard
  <2>7. n \in Nat /\ leader \in Nat /\ leader < n /\ Len(seatOrder') = n
    BY <1>2, <2>2
  <2> HIDE DEF n, k
  <2>9. (turnSeat + 1) % n = (leader + (k + 1)) % n
    BY <2>2, <2>3, <2>7, NextSeat
  <2>8. \A i \in 1..(k + 1) : currentTrick'[i].deviceId = OrderFrom(seatOrder, leader)[i]
    BY <2>1, <2>2, <2>4, <2>5
  <2>10. k + 1 <= n /\ turnSeat' = IF k + 1 < n THEN (leader + (k + 1)) % n ELSE -1
    BY <2>2, <2>3, <2>6, <2>7, <2>9
  <2> QED BY <2>2, <2>5, <2>7, <2>8, <2>10 DEF PileFollowsSeats
<1>16. NumbersOrdered'
  <2>1. entry.handNumber = HandNumber
    BY DEF entry
  <2>2. \A i \in 1..Len(plays) : plays'[i] = plays[i]
    BY <1>4, <1>7, <1>8
  <2>3. Len(plays') = Len(plays) + 1 /\ plays'[Len(plays) + 1] = entry /\ Len(plays) \in Nat
    BY <1>4, <1>7, <1>8
  <2> QED BY <1>4, <1>6, <2>1, <2>2, <2>3 DEF NumbersOrdered
<1> QED BY <1>13, <1>14, <1>15, <1>16 DEF IInv

\* A full pile is won by a player who sits at the table.
LEMMA WinnerSeated ==
  ASSUME IInv, IsTrickComplete
  PROVE  Winner \in Seated
<1> DEFINE InPile(s) == {i \in 1..Len(currentTrick) : currentTrick[i].card.suit = s}
           pool == IF InPile(Trump(round)) # {} THEN InPile(Trump(round)) ELSE InPile(LeadSuit)
           Highest(i) == \A j \in pool : currentTrick[j].card.rank <= currentTrick[i].card.rank
<1>1. currentTrick \in Seq(PlayedCard) /\ Len(currentTrick) \in Nat /\ Len(currentTrick) >= 2
  BY BidOrderSeating DEF IInv, TypeOK, IsTrickComplete
<1>2. \A i \in 1..Len(currentTrick) : currentTrick[i].card.rank \in Ranks
  <2>1. \A i \in 1..Len(currentTrick) : currentTrick[i] \in PlayedCard
    BY <1>1
  <2> QED BY <2>1 DEF PlayedCard, Card
<1>3. 1 \in InPile(LeadSuit)
  BY <1>1 DEF LeadSuit
<1>4. pool # {} /\ pool \subseteq 1..Len(currentTrick)
  BY <1>3
<1> HIDE DEF pool, InPile
<1>5. \E i \in pool : Highest(i)
  <2> DEFINE rank == [i \in pool |-> currentTrick[i].card.rank]
  <2>1. rank \in [pool -> Ranks]
    BY <1>2, <1>4
  <2>2. \A i \in pool : rank[i] = currentTrick[i].card.rank
    OBVIOUS
  <2> HIDE DEF rank
  <2>3. PICK i \in pool : \A j \in pool : rank[j] <= rank[i]
    BY <1>4, <2>1, HighestExists
  <2> QED BY <2>2, <2>3
<1> DEFINE best == CHOOSE i \in pool : Highest(i)
<1>6. best \in pool
  BY <1>5
<1>7. Winner = currentTrick[best].deviceId
  BY DEF Winner, pool, InPile
<1> HIDE DEF best
<1> QED BY <1>4, <1>6, <1>7, PileSeated

\* resolvePendingTrick keeps the invariant, in a round and at its end.
LEMMA ResolveInv ==
  ASSUME IInv, ResolvePendingTrick
  PROVE  IInv'
<1> DEFINE tricks == [tricksWon EXCEPT ![Winner] = @ + 1]
<1>1. IsTrickComplete /\ phase = "trick" /\ IsSeating(seatOrder)
  BY DEF ResolvePendingTrick, IsTrickComplete, IInv, TableSeated
<1>2. Len(seatOrder) \in Nat /\ Len(seatOrder) >= 2 /\ seatOrder \in Seq(Devices)
  BY <1>1 DEF IsSeating
<1>3. tricks \in [Seated -> Nat]
  BY <1>1, WinnerSeated DEF IInv, TypeOK
<1>4. SeatOf(seatOrder, Winner) \in 0..(Len(seatOrder) - 1)
  BY <1>1, <1>2, WinnerSeated, SeatOfSeated DEF Seated
<1> HIDE DEF tricks
<1>5. CASE \A d \in DOMAIN hands : hands[d] = {}
  <2>1. FinishRound(tricks)
    BY <1>5 DEF ResolvePendingTrick, tricks
  <2> DEFINE results == [d \in Seated |-> [bid |-> Bid(d), tricksWon |-> tricks[d],
                                           roundScore |-> RoundScore(Bid(d), tricks[d])]]
  <2>2. \A d \in Seated : Bid(d) \in Int /\ RoundScore(Bid(d), tricks[d]) \in Int
    BY <1>3 DEF Bid, RoundScore, IInv, TypeOK
  <2>3. results \in [Seated -> Result]
    BY <1>3, <2>2 DEF Result
  <2>4. \A d \in Seated : results[d].roundScore \in Int
    BY <2>2
  <2>5. scores' = [d \in Seated |-> scores[d] + results[d].roundScore]
        /\ roundHistory' = Append(roundHistory, results)
        /\ carried' = carried /\ departed' = departed
    BY <2>1 DEF FinishRound
  <2> HIDE DEF results
  <2>6. scores' \in [Seated -> Int]
    BY <2>4, <2>5 DEF IInv, TypeOK
  <2>7. roundHistory' \in Seq([Seated -> Result])
    BY <2>3, <2>5 DEF IInv, TypeOK
  <2>8. carried' \in [Seated -> Int] /\ departed' \subseteq Devices
    BY <2>5 DEF IInv, TypeOK
  <2>9. CASE round >= Rounds
    <3>1. /\ phase' = "game-end" /\ tricksWon' = tricks /\ currentTrick' = <<>>
          /\ donkeys' = Lowest(scores') /\ turnSeat' = SeatOf(seatOrder, Winner)
          /\ UNCHANGED <<round, seatOrder, bidOrder, dealerSeat, hands, bids, bidTurnIndex,
                         plays, historyComplete, voidSuits>>
      BY <2>1, <2>9 DEF FinishRound, seating, bidding, ledger
    <3>2. donkeys' \subseteq Seated /\ Seated' = Seated
      BY <2>6, <3>1 DEF Lowest, Seated
    <3>3. TypeOK'
      BY <1>2, <1>3, <1>4, <2>6, <2>7, <2>8, <3>1, <3>2 DEF IInv, TypeOK
    <3>4. TableSeated'
      BY <1>1, <3>1 DEF IInv, TableSeated
    <3>5. DealerBidsLast' /\ PileFollowsSeats' /\ NumbersOrdered'
      BY <1>1, <3>1 DEF IInv, DealerBidsLast, PileFollowsSeats, NumbersOrdered
    <3> QED BY <3>3, <3>4, <3>5 DEF IInv
  <2>10. CASE ~(round >= Rounds)
    <3>1. BuildRound(seatOrder, round + 1, (dealerSeat + 1) % Len(seatOrder))
      BY <2>1, <2>10 DEF FinishRound
    <3>2. round + 1 \in 1..Rounds /\ (dealerSeat + 1) % Len(seatOrder) \in 0..(Len(seatOrder) - 1)
      BY <1>2, <2>10, ModRange, RoundsAssumption DEF IInv, TypeOK
    <3>3. \A deck \in Decks : Len(seatOrder) * MaxHand <= Len(deck)
      BY DEF IInv, TableSeated
    <3> QED BY <1>1, <2>6, <2>7, <2>8, <3>1, <3>2, <3>3, BuildRoundInv DEF Seated
  <2> QED BY <2>9, <2>10
<1>6. CASE ~ \A d \in DOMAIN hands : hands[d] = {}
  <2>1. /\ tricksWon' = tricks /\ currentTrick' = <<>> /\ turnSeat' = SeatOf(seatOrder, Winner)
        /\ UNCHANGED <<phase, round, seatOrder, bidOrder, dealerSeat, hands, bids, bidTurnIndex,
                       plays, historyComplete, voidSuits, scores, roundHistory, donkeys, carried,
                       departed>>
    BY <1>6 DEF ResolvePendingTrick, tricks, seating, bidding, ledger, sheet
  <2>2. Seated' = Seated
    BY <2>1 DEF Seated
  <2>3. TypeOK'
    BY <1>2, <1>3, <1>4, <2>1, <2>2 DEF IInv, TypeOK
  <2>4. TableSeated'
    BY <1>1, <2>1 DEF IInv, TableSeated
  <2>5. DealerBidsLast' /\ NumbersOrdered'
    BY <2>1 DEF IInv, DealerBidsLast, NumbersOrdered
  <2>6. PileFollowsSeats'
    BY <1>2, <1>4, <2>1, EmptyPile
  <2> QED BY <2>6, <2>3, <2>4, <2>5 DEF IInv
<1> QED BY <1>5, <1>6

\* Giving a seat to a device that has none keeps a seating one.
LEMMA RenamedSeating ==
  ASSUME NEW order, IsSeating(order), NEW from \in SeatsOf(order),
         NEW to \in Devices, to \notin SeatsOf(order),
         NEW renamed, renamed = [i \in 1..Len(order) |-> Rename(order[i], from, to)]
  PROVE  /\ IsSeating(renamed)
         /\ Len(renamed) = Len(order)
         /\ SeatsOf(renamed) = (SeatsOf(order) \ {from}) \cup {to}
<1>1. order \in Seq(Devices) /\ Len(order) \in Nat /\ Len(order) >= 2
      /\ \A i, j \in 1..Len(order) : order[i] = order[j] => i = j
  BY DEF IsSeating
<1>2. \A i \in 1..Len(order) : order[i] \in SeatsOf(order) /\ order[i] \in Devices
  BY <1>1 DEF SeatsOf
<1>3. Len(renamed) = Len(order) /\ renamed \in Seq(Devices)
  BY <1>1, <1>2 DEF Rename
<1>4. \A i \in 1..Len(order) : renamed[i] = IF order[i] = from THEN to ELSE order[i]
  BY DEF Rename
<1>5. \A i, j \in 1..Len(order) : renamed[i] = renamed[j] => i = j
  BY <1>1, <1>2, <1>4
<1>6. SeatsOf(renamed) = {renamed[i] : i \in 1..Len(order)} /\ SeatsOf(order) = {order[i] : i \in 1..Len(order)}
  BY <1>3 DEF SeatsOf
<1>7. ASSUME NEW e \in SeatsOf(renamed) PROVE e \in (SeatsOf(order) \ {from}) \cup {to}
  <2>1. PICK i \in 1..Len(order) : e = renamed[i]
    BY <1>6
  <2> QED BY <2>1, <1>2, <1>4
<1>8. ASSUME NEW e \in (SeatsOf(order) \ {from}) \cup {to} PROVE e \in SeatsOf(renamed)
  <2>1. PICK i \in 1..Len(order) : order[i] = (IF e = to THEN from ELSE e)
    BY <1>6
  <2>2. renamed[i] = e
    BY <2>1, <1>4
  <2> QED BY <2>2, <1>6
<1>9. SeatsOf(renamed) = (SeatsOf(order) \ {from}) \cup {to}
  BY <1>7, <1>8
<1> QED BY <1>1, <1>3, <1>5, <1>9 DEF IsSeating

\* A per-player table passes to the new holder of a seat with its values.
LEMMA RenameKeyType ==
  ASSUME NEW K, NEW V, NEW f \in [K -> V], NEW from \in K, NEW to
  PROVE  RenameKey(f, from, to) \in [(K \ {from}) \cup {to} -> V]
BY DEF RenameKey

\* A function on 1..n with values in T is a sequence over T.
LEMMA SeqOfValues ==
  ASSUME NEW T, NEW n \in Nat, NEW f, f = [i \in 1..n |-> f[i]], \A i \in 1..n : f[i] \in T
  PROVE  f \in Seq(T) /\ Len(f) = n
<1>1. f \in [1..n -> T]
  OBVIOUS
<1> QED BY <1>1

\* replacePlayer keeps the invariant: only names change.
LEMMA ReplacePlayerInv ==
  ASSUME IInv, NEW from, NEW to \in Devices, ReplacePlayer(from, to)
  PROVE  IInv'
<1> DEFINE seats == (Seated \ {from}) \cup {to}
<1>1. from \in Seated /\ to \notin Seated
  BY DEF ReplacePlayer
<1>2. phase # "none" /\ IsSeating(seatOrder) /\ IsSeating(bidOrder) /\ SeatsOf(bidOrder) = Seated
      /\ Len(bidOrder) = Len(seatOrder) /\ Len(seatOrder) \in Nat /\ Len(seatOrder) >= 2
      /\ dealerSeat \in 0..(Len(seatOrder) - 1) /\ bidOrder = OrderFrom(seatOrder, dealerSeat + 1)
  <2>1. seatOrder # <<>>
    BY <1>1 DEF Seated, SeatsOf
  <2>2. phase # "none"
    BY <2>1 DEF IInv, TableSeated
  <2> QED BY <2>2, BidOrderSeating
<1>3. seatOrder' = [i \in 1..Len(seatOrder) |-> Rename(seatOrder[i], from, to)]
      /\ bidOrder' = [i \in 1..Len(bidOrder) |-> Rename(bidOrder[i], from, to)]
  BY DEF ReplacePlayer
<1>4. IsSeating(seatOrder') /\ Len(seatOrder') = Len(seatOrder) /\ Seated' = seats
  BY <1>1, <1>2, <1>3, RenamedSeating DEF Seated
<1>5. IsSeating(bidOrder') /\ Len(bidOrder') = Len(bidOrder) /\ SeatsOf(bidOrder') = seats
  BY <1>1, <1>2, <1>3, RenamedSeating, SMTT(30) DEF Seated
<1>6. from \in Devices
  BY <1>1, <1>2 DEF Seated, SeatsOf, IsSeating
<1>7. /\ hands' \in [seats -> SUBSET Card] /\ bids' \in [seats -> Int \cup {Null}]
      /\ tricksWon' \in [seats -> Nat] /\ voidSuits' \in [seats -> SUBSET Suits]
      /\ scores' \in [seats -> Int] /\ carried' \in [seats -> Int]
  BY <1>1, RenameKeyType DEF ReplacePlayer, IInv, TypeOK
<1>8. roundHistory' \in Seq([seats -> Result])
  <2>1. roundHistory \in Seq([Seated -> Result]) /\ Len(roundHistory) \in Nat
    BY DEF IInv, TypeOK
  <2>2. \A i \in 1..Len(roundHistory) : RenameKey(roundHistory[i], from, to) \in [seats -> Result]
    <3>1. \A i \in 1..Len(roundHistory) : roundHistory[i] \in [Seated -> Result]
      BY <2>1
    <3> QED BY <1>1, <3>1, RenameKeyType
  <2>3. roundHistory' = [i \in 1..Len(roundHistory) |-> RenameKey(roundHistory[i], from, to)]
    BY DEF ReplacePlayer
  <2> HIDE DEF seats
  <2> QED BY <2>1, <2>2, <2>3
<1>9. currentTrick' \in Seq(PlayedCard) /\ Len(currentTrick') = Len(currentTrick)
      /\ \A i \in 1..Len(currentTrick) :
           currentTrick'[i].deviceId = Rename(currentTrick[i].deviceId, from, to)
  <2>1. currentTrick \in Seq(PlayedCard) /\ Len(currentTrick) \in Nat
    BY DEF IInv, TypeOK
  <2>2. \A i \in 1..Len(currentTrick) : currentTrick[i] \in PlayedCard
    BY <2>1
  <2>3. \A i \in 1..Len(currentTrick) :
          /\ [currentTrick[i] EXCEPT !.deviceId = Rename(@, from, to)] \in PlayedCard
          /\ [currentTrick[i] EXCEPT !.deviceId = Rename(@, from, to)].deviceId
               = Rename(currentTrick[i].deviceId, from, to)
    BY <2>2 DEF PlayedCard, Rename
  <2>4. currentTrick' = [i \in 1..Len(currentTrick) |->
                           [currentTrick[i] EXCEPT !.deviceId = Rename(@, from, to)]]
    BY DEF ReplacePlayer, RenamePlays
  <2>5. currentTrick' = [i \in 1..Len(currentTrick) |-> currentTrick'[i]]
        /\ \A i \in 1..Len(currentTrick) :
             currentTrick'[i] = [currentTrick[i] EXCEPT !.deviceId = Rename(@, from, to)]
    BY <2>4
  <2>6. currentTrick' \in Seq(PlayedCard) /\ Len(currentTrick') = Len(currentTrick)
    BY <2>1, <2>3, <2>5, SeqOfValues
  <2> QED BY <2>3, <2>5, <2>6
<1>10. plays' \in Seq(LedgerEntry) /\ Len(plays') = Len(plays)
       /\ \A i \in 1..Len(plays) : plays'[i].handNumber = plays[i].handNumber
  <2>1. plays \in Seq(LedgerEntry) /\ Len(plays) \in Nat
    BY DEF IInv, TypeOK
  <2>2. \A i \in 1..Len(plays) : plays[i] \in LedgerEntry
    BY <2>1
  <2>3. \A i \in 1..Len(plays) :
          /\ [plays[i] EXCEPT !.deviceId = Rename(@, from, to)] \in LedgerEntry
          /\ [plays[i] EXCEPT !.deviceId = Rename(@, from, to)].handNumber = plays[i].handNumber
    BY <2>2 DEF LedgerEntry, Rename
  <2>4. plays' = [i \in 1..Len(plays) |-> [plays[i] EXCEPT !.deviceId = Rename(@, from, to)]]
    BY DEF ReplacePlayer, RenamePlays
  <2>5. plays' = [i \in 1..Len(plays) |-> plays'[i]]
        /\ \A i \in 1..Len(plays) : plays'[i] = [plays[i] EXCEPT !.deviceId = Rename(@, from, to)]
    BY <2>4
  <2>6. plays' \in Seq(LedgerEntry) /\ Len(plays') = Len(plays)
    BY <2>1, <2>3, <2>5, SeqOfValues
  <2> QED BY <2>3, <2>5, <2>6
<1>11. donkeys' \subseteq seats /\ departed' \subseteq Devices
  BY <1>6 DEF ReplacePlayer, Rename, IInv, TypeOK
<1>12. UNCHANGED <<phase, round, dealerSeat, bidTurnIndex, turnSeat, historyComplete>>
  BY DEF ReplacePlayer
<1>13. \A from0 \in 0..Len(seatOrder) : \A i \in 1..Len(seatOrder) :
         OrderFrom(seatOrder', from0)[i] = Rename(OrderFrom(seatOrder, from0)[i], from, to)
  <2> SUFFICES ASSUME NEW from0 \in 0..Len(seatOrder), NEW i \in 1..Len(seatOrder)
               PROVE  OrderFrom(seatOrder', from0)[i] = Rename(OrderFrom(seatOrder, from0)[i], from, to)
    OBVIOUS
  <2>1. (from0 + i - 1) % Len(seatOrder) \in 0..(Len(seatOrder) - 1)
    BY <1>2, ModRange
  <2> QED BY <1>2, <1>3, <1>4, <2>1 DEF OrderFrom
<1> HIDE DEF seats
<1>14. TypeOK'
  BY <1>4, <1>5, <1>7, <1>8, <1>9, <1>10, <1>11, <1>12 DEF IInv, TypeOK, IsSeating
<1>15. TableSeated'
  <2>1. currentTrick = <<>> => currentTrick' = <<>>
    BY <1>9
  <2> QED BY <1>2, <1>4, <1>5, <1>12, <2>1 DEF IInv, TableSeated
<1>16. NumbersOrdered'
  BY <1>10 DEF IInv, NumbersOrdered
<1>17. DealerBidsLast'
  <2>1. bidOrder' = OrderFrom(seatOrder', dealerSeat + 1)
    <3>1. dealerSeat + 1 \in 0..Len(seatOrder) /\ IsSeating(seatOrder')
      BY <1>2, <1>4
    <3>2. \A i \in 1..Len(seatOrder) : bidOrder'[i] = OrderFrom(seatOrder', dealerSeat + 1)[i]
      BY <1>2, <1>3, <1>13, <3>1
    <3>3. Len(OrderFrom(seatOrder', dealerSeat + 1)) = Len(seatOrder)
          /\ OrderFrom(seatOrder', dealerSeat + 1) \in Seq(Devices)
      BY <1>4, <3>1, RotationSeating DEF IsSeating
    <3> QED BY <1>2, <1>5, <3>2, <3>3 DEF IsSeating
  <2>2. \A i \in 1..Len(bidOrder) : bids'[bidOrder'[i]] = bids[bidOrder[i]]
    <3>1. \A i \in 1..Len(bidOrder) : bidOrder[i] \in Seated
      BY <1>2, SeatOfPosition
    <3> QED BY <1>1, <1>3, <3>1 DEF ReplacePlayer, RenameKey, Rename, IInv, TypeOK
  <2> QED BY <1>2, <1>4, <1>5, <1>12, <2>1, <2>2 DEF IInv, DealerBidsLast
<1>18. PileFollowsSeats'
  <2>1. SUFFICES ASSUME phase = "trick" PROVE PileFollowsSeats'
    BY <1>12 DEF PileFollowsSeats
  <2>2. PICK leader \in 0..(Len(seatOrder) - 1) :
          /\ Len(currentTrick) <= Len(seatOrder)
          /\ \A i \in 1..Len(currentTrick) : currentTrick[i].deviceId = OrderFrom(seatOrder, leader)[i]
          /\ turnSeat = IF Len(currentTrick) < Len(seatOrder)
                        THEN (leader + Len(currentTrick)) % Len(seatOrder) ELSE -1
    BY <2>1 DEF IInv, PileFollowsSeats
  <2>3. Len(currentTrick) \in Nat
    BY DEF IInv, TypeOK
  <2>4. \A i \in 1..Len(currentTrick) : currentTrick'[i].deviceId = OrderFrom(seatOrder', leader)[i]
    BY <1>2, <1>9, <1>13, <2>2, <2>3
  <2> QED BY <1>4, <1>9, <1>12, <2>2, <2>4 DEF PileFollowsSeats
<1> QED BY <1>14, <1>15, <1>16, <1>17, <1>18 DEF IInv

\* A per-player table without the player who left.
LEMMA RemoveKeyType ==
  ASSUME NEW K, NEW V, NEW f \in [K -> V], NEW d
  PROVE  RemoveKey(f, d) \in [K \ {d} -> V]
BY DEF RemoveKey

\* The table after a seat was removed: seats, bid order and dealer.
LEMMA RemovedTable ==
  ASSUME IInv, NEW d, RemovePlayer(d)
  PROVE  /\ d \in Seated /\ phase # "none" /\ Len(seatOrder) > 2
         /\ seatOrder' = Leave(seatOrder, d) /\ IsSeating(seatOrder')
         /\ Len(seatOrder') = Len(seatOrder) - 1 /\ Seated' = Seated \ {d}
         /\ SeatOf(seatOrder, d) \in 0..(Len(seatOrder) - 1)
         /\ dealerSeat' \in 0..(Len(seatOrder') - 1)
         /\ bidOrder' = OrderFrom(seatOrder', dealerSeat' + 1)
<1> DEFINE n == Len(seatOrder)
           gone == SeatOf(seatOrder, d)
<1>1. d \in Seated /\ n > 2 /\ seatOrder' = Leave(seatOrder, d)
  BY DEF RemovePlayer
<1>2. phase # "none"
  <2>1. seatOrder # <<>>
    BY <1>1 DEF Seated, SeatsOf
  <2> QED BY <2>1 DEF IInv, TableSeated
<1>3. /\ IsSeating(seatOrder) /\ seatOrder \in Seq(Devices) /\ n \in Nat
      /\ dealerSeat \in 0..(n - 1) /\ dealerSeat + 1 \in 0..n
      /\ bidOrder = OrderFrom(seatOrder, dealerSeat + 1) /\ SeatsOf(bidOrder) = Seated
  BY <1>2, BidOrderSeating
<1>4. IsSeating(seatOrder') /\ Len(seatOrder') = n - 1 /\ Seated' = Seated \ {d}
  BY <1>1, <1>3, LeaveSeating DEF Seated
<1>5. gone \in 0..(n - 1)
  BY <1>1, <1>3, SeatOfSeated DEF Seated
<1>6. dealerSeat' = IF gone < dealerSeat THEN dealerSeat - 1
                    ELSE IF gone = dealerSeat THEN (gone - 1 + Len(seatOrder')) % Len(seatOrder')
                    ELSE dealerSeat
  BY DEF RemovePlayer, DealerSeatWithout
<1>7. bidOrder' = OrderFrom(seatOrder', FirstWithout(dealerSeat + 1, gone))
  <2>1. d \in SeatsOf(seatOrder)
    BY <1>1 DEF Seated
  <2>2. bidOrder' = Leave(bidOrder, d)
    BY DEF RemovePlayer
  <2> QED BY <1>1, <1>3, <2>1, <2>2, LeaveRotation
<1> HIDE DEF gone, n
<1>8. CASE gone < dealerSeat \/ gone > dealerSeat
  <2>1. dealerSeat' \in 0..(Len(seatOrder') - 1) /\ FirstWithout(dealerSeat + 1, gone) = dealerSeat' + 1
    BY <1>3, <1>4, <1>5, <1>6, <1>8 DEF FirstWithout
  <2> QED BY <1>1, <1>2, <1>4, <1>5, <1>7, <2>1 DEF gone, n
<1>9. CASE gone = dealerSeat /\ gone # 0
  <2>1. (gone - 1 + Len(seatOrder')) % Len(seatOrder') = gone - 1
    BY <1>1, <1>3, <1>4, <1>5, <1>9, ModOver
  <2>2. dealerSeat' \in 0..(Len(seatOrder') - 1) /\ FirstWithout(dealerSeat + 1, gone) = dealerSeat' + 1
    BY <1>3, <1>4, <1>5, <1>6, <1>9, <2>1 DEF FirstWithout
  <2> QED BY <1>1, <1>2, <1>4, <1>5, <1>7, <2>2 DEF gone, n
<1>10. CASE gone = dealerSeat /\ gone = 0
  <2>1. (gone - 1 + Len(seatOrder')) % Len(seatOrder') = Len(seatOrder') - 1
    BY <1>1, <1>3, <1>4, <1>10, ModSmall
  <2>2. /\ dealerSeat' \in 0..(Len(seatOrder') - 1) /\ dealerSeat' + 1 = Len(seatOrder')
        /\ FirstWithout(dealerSeat + 1, gone) = 0
    BY <1>1, <1>3, <1>4, <1>6, <1>10, <2>1 DEF FirstWithout
  <2>3. OrderFrom(seatOrder', Len(seatOrder')) = OrderFrom(seatOrder', 0)
    BY <1>4, RotationFull
  <2> QED BY <1>1, <1>2, <1>4, <1>5, <1>7, <2>2, <2>3 DEF gone, n
<1> QED BY <1>3, <1>5, <1>8, <1>9, <1>10

\* The bids after a seat was removed: of the bid order that is left, the first
\* bidTurnIndex' have bid.
LEMMA RemovedBids ==
  ASSUME IInv, NEW d, RemovePlayer(d)
  PROVE  /\ DealerBidsLast'
         /\ bidTurnIndex' \in Nat
         /\ phase' \in {"bidding", "trick", "game-end"}
         /\ phase' = "bidding" => bidTurnIndex' < Len(bidOrder')
         /\ phase' \in {"trick", "game-end"} => bidTurnIndex' >= Len(bidOrder')
         /\ IsSeating(bidOrder') /\ Len(bidOrder') = Len(seatOrder') /\ SeatsOf(bidOrder') = Seated \ {d}
<1> DEFINE HasBid(i) == bids[bidOrder'[i]] # Null
<1>1. /\ d \in Seated /\ phase # "none" /\ Len(seatOrder) > 2 /\ IsSeating(seatOrder')
      /\ Len(seatOrder') = Len(seatOrder) - 1 /\ Seated' = Seated \ {d}
      /\ dealerSeat' \in 0..(Len(seatOrder') - 1)
      /\ bidOrder' = OrderFrom(seatOrder', dealerSeat' + 1)
  BY RemovedTable
<1>2. IsSeating(bidOrder) /\ Len(bidOrder) = Len(seatOrder) /\ SeatsOf(bidOrder) = Seated
      /\ Len(seatOrder) \in Nat
  BY <1>1, BidOrderSeating
<1>3. PICK p \in 1..Len(bidOrder) : bidOrder[p] = d
  BY <1>1, <1>2 DEF SeatsOf
<1>4. bidOrder' = Leave(bidOrder, d)
  BY DEF RemovePlayer
<1>5. \A i \in 1..(Len(bidOrder) - 1) : bidOrder'[i] = bidOrder[IF i < p THEN i ELSE i + 1]
  BY <1>2, <1>3, <1>4, LeaveAt
<1>0. IsSeating(bidOrder') /\ Len(bidOrder') = Len(bidOrder) - 1 /\ SeatsOf(bidOrder') = Seated \ {d}
  BY <1>1, <1>2, <1>4, LeaveSeating
<1>6. PICK m \in Nat : m = Len(bidOrder') /\ m = Len(bidOrder) - 1
  BY <1>1, <1>2, <1>0
<1>7. \A i \in 1..Len(bidOrder) : bids[bidOrder[i]] # Null <=> i <= bidTurnIndex
  BY <1>1 DEF IInv, DealerBidsLast
<1>8. bidTurnIndex \in Nat /\ m \in Nat /\ m >= 2
  BY <1>1, <1>2, <1>6 DEF IInv, TypeOK
<1>9. \A i \in 1..m : bids'[bidOrder'[i]] = bids[bidOrder'[i]]
  <2>1. \A i \in 1..m : bidOrder'[i] \in Seated \ {d}
    BY <1>0, <1>6, SeatOfPosition
  <2>2. DOMAIN bids = Seated /\ bids' = RemoveKey(bids, d)
    BY DEF RemovePlayer, IInv, TypeOK
  <2> QED BY <2>1, <2>2 DEF RemoveKey
<1> DEFINE last == IF bidTurnIndex < p THEN bidTurnIndex ELSE bidTurnIndex - 1
<1>10. \A i \in 1..m : HasBid(i) <=> i <= last
  <2> SUFFICES ASSUME NEW i \in 1..m PROVE HasBid(i) <=> i <= last
    OBVIOUS
  <2> DEFINE was == IF i < p THEN i ELSE i + 1
  <2>1. was \in 1..Len(bidOrder) /\ bidOrder'[i] = bidOrder[was]
    BY <1>2, <1>3, <1>5, <1>0, <1>6, <1>8
  <2>2. was <= bidTurnIndex <=> i <= last
    BY <1>2, <1>3, <1>8
  <2> HIDE DEF was
  <2> QED BY <1>7, <2>1, <2>2
<1>11. (\A i \in 1..m : HasBid(i) <=> i <= bidTurnIndex') => DealerBidsLast'
  BY <1>1, <1>6, <1>9 DEF DealerBidsLast
<1>14. p \in Nat /\ last \in Int
  BY <1>2, <1>3, <1>8
<1>12. CASE RemoveWhileBidding(d, SeatOf(seatOrder, d))
  <2> DEFINE pending == {i \in 1..Len(bidOrder') : bids'[bidOrder'[i]] = Null}
  <2>1. pending = {i \in 1..m : ~HasBid(i)} /\ pending \subseteq Nat /\ phase = "bidding"
    BY <1>6, <1>9, <1>12 DEF RemoveWhileBidding
  <2>2. CASE pending = {}
    <3>1. phase' = "trick" /\ bidTurnIndex' = m
      BY <1>6, <1>12, <2>2 DEF RemoveWhileBidding
    <3>2. \A i \in 1..m : HasBid(i)
      BY <2>1, <2>2
    <3>3. DealerBidsLast'
      BY <1>8, <1>11, <3>1, <3>2
    <3> QED BY <1>2, <1>0, <1>6, <1>1, <1>8, <3>1, <3>3
  <2>3. CASE pending # {}
    <3>1. phase' = "bidding" /\ bidTurnIndex' = Min(pending) - 1
      BY <1>12, <2>1, <2>3 DEF RemoveWhileBidding
    <3> HIDE DEF pending
    <3>2. Min(pending) \in pending /\ \A i \in pending : Min(pending) <= i
      BY <2>1, <2>3, MinIsLeast
    <3>3. bidTurnIndex' \in 0..(m - 1)
      BY <1>8, <2>1, <3>1, <3>2
    <3> HIDE DEF HasBid, last
    <3>4. ~HasBid(bidTurnIndex' + 1) /\ \A i \in 1..m : i <= bidTurnIndex' => HasBid(i)
      <4>1. bidTurnIndex' + 1 = Min(pending) /\ bidTurnIndex' + 1 \in 1..m
        BY <1>8, <2>1, <3>1, <3>2, <3>3
      <4>2. \A i \in 1..m : i <= bidTurnIndex' => ~(Min(pending) <= i)
        BY <1>8, <3>3, <4>1
      <4>3. \A i \in 1..m : i <= bidTurnIndex' => i \notin pending
        BY <3>2, <4>2
      <4> QED BY <2>1, <3>2, <4>1, <4>3
    <3>5. \A i \in 1..m : HasBid(i) <=> i <= bidTurnIndex'
      <4>1. PICK now \in 0..(m - 1) : now = bidTurnIndex'
        BY <3>3
      <4>2. now \in Nat /\ now + 1 \in 1..m
        OBVIOUS
      <4>3. ~HasBid(now + 1)
        BY <3>4, <4>1
      <4>4. ~(now + 1 <= last)
        BY <1>10, <4>2, <4>3
      <4>5. \A i \in 1..m : i <= last => i <= now
        BY <1>8, <1>14, <4>2, <4>4
      <4>6. \A i \in 1..m : HasBid(i) => i <= now
        BY <1>10, <4>5
      <4> QED BY <3>4, <4>1, <4>6
    <3>6. DealerBidsLast'
      BY <1>11, <3>3, <3>5
    <3> QED BY <1>1, <1>2, <1>0, <1>6, <1>8, <3>1, <3>3, <3>6
  <2> QED BY <2>2, <2>3
<1>13. CASE RemoveWhilePlaying(d, SeatOf(seatOrder, d)) \/ RemoveAtGameEnd
  <2>1. phase \in {"trick", "game-end"} /\ phase' = phase /\ bidTurnIndex' = bidTurnIndex
    BY <1>13 DEF RemoveWhilePlaying, RemoveAtGameEnd
  <2>2. bidTurnIndex >= Len(bidOrder)
    BY <2>1 DEF IInv, TableSeated
  <2>3. \A i \in 1..m : HasBid(i) <=> i <= bidTurnIndex
    <3>1. \A i \in 1..m : i <= last /\ i <= bidTurnIndex
      BY <1>2, <1>3, <1>0, <1>6, <1>8, <2>2
    <3> QED BY <1>10, <3>1
  <2>4. DealerBidsLast'
    BY <1>8, <1>11, <2>1, <2>3
  <2> QED BY <1>1, <1>2, <1>0, <1>6, <1>8, <2>1, <2>2, <2>4
<1> QED BY <1>12, <1>13 DEF RemovePlayer

\* The cards of the pile after a seat was removed.
LEMMA RemovedPileCards ==
  ASSUME IInv, NEW d, RemovePlayer(d)
  PROVE  /\ currentTrick' \in Seq(PlayedCard)
         /\ currentTrick = <<>> => currentTrick' = <<>>
         /\ \A p \in 1..Len(currentTrick) : currentTrick[p].deviceId = d =>
              /\ Len(currentTrick') = Len(currentTrick) - 1
              /\ \A i \in 1..(Len(currentTrick) - 1) : currentTrick'[i] = currentTrick[Past(p, i)]
         /\ (\A i \in 1..Len(currentTrick) : currentTrick[i].deviceId # d) => currentTrick' = currentTrick
<1> DEFINE inPile == {i \in 1..Len(currentTrick) : currentTrick[i].deviceId = d}
<1>1. currentTrick' = IF inPile = {} THEN currentTrick ELSE Without(currentTrick, Min(inPile))
  BY DEF RemovePlayer
<1>2. currentTrick \in Seq(PlayedCard) /\ Len(currentTrick) \in Nat
  BY DEF IInv, TypeOK
<1>3. inPile # {} => Min(inPile) \in inPile
  BY MinIsLeast
<1>4. \A i, j \in inPile : i = j
  BY PileSeated
<1>5. currentTrick = <<>> => inPile = {}
  BY <1>2
<1>6. CASE inPile = {}
  <2>1. \A p \in 1..Len(currentTrick) : currentTrick[p].deviceId # d
    BY <1>6
  <2> QED BY <1>1, <1>2, <1>6, <2>1
<1>7. CASE inPile # {}
  <2>1. PICK at \in 1..Len(currentTrick) : at = Min(inPile) /\ currentTrick[at].deviceId = d
    BY <1>3, <1>7
  <2>2. \A p \in 1..Len(currentTrick) : currentTrick[p].deviceId = d => p = at
    BY <1>4, <2>1
  <2>3. currentTrick' = Without(currentTrick, at)
    BY <1>1, <1>7, <2>1
  <2>4. /\ Without(currentTrick, at) \in Seq(PlayedCard)
        /\ Len(Without(currentTrick, at)) = Len(currentTrick) - 1
        /\ \A i \in 1..(Len(currentTrick) - 1) : Without(currentTrick, at)[i] = currentTrick[Past(at, i)]
    BY <1>2, WithoutAt DEF Past
  <2> HIDE DEF inPile
  <2>5. \A p \in 1..Len(currentTrick) : currentTrick[p].deviceId = d =>
          /\ Len(currentTrick') = Len(currentTrick) - 1
          /\ \A i \in 1..(Len(currentTrick) - 1) : currentTrick'[i] = currentTrick[Past(p, i)]
    BY <2>2, <2>3, <2>4
  <2> QED BY <1>5, <1>7, <2>1, <2>3, <2>4, <2>5
<1> QED BY <1>6, <1>7

\* The turn after a seat was removed during the auction.
LEMMA RemovedBidder ==
  ASSUME IInv, NEW d, RemovePlayer(d), RemoveWhileBidding(d, SeatOf(seatOrder, d))
  PROVE  turnSeat' \in 0..(Len(seatOrder') - 1) /\ currentTrick' = <<>>
<1> DEFINE gone == SeatOf(seatOrder, d)
           n == Len(seatOrder)
           pending == {i \in 1..Len(bidOrder') : bids'[bidOrder'[i]] = Null}
<1>1. /\ d \in Seated /\ IsSeating(seatOrder') /\ Seated' = Seated \ {d}
      /\ gone \in 0..(n - 1) /\ Len(seatOrder') = n - 1 /\ n > 2 /\ phase # "none"
  BY RemovedTable
<1>2. IsSeating(seatOrder) /\ n \in Nat /\ seatOrder' \in Seq(Devices)
  BY <1>1, BidOrderSeating DEF IsSeating
<1>3. phase = "bidding" /\ currentTrick = <<>> /\ turnSeat \in 0..(n - 1)
  BY DEF RemoveWhileBidding, IInv, TableSeated
<1>4. \A e \in Seated \ {d} : SeatOf(seatOrder', e) \in 0..(Len(seatOrder') - 1)
  BY <1>1, <1>2, SeatOfSeated DEF Seated
<1> HIDE DEF gone
<1>5. CASE pending = {}
  <2>1. bidOrder'[1] \in Seated \ {d}
    BY RemovedBids, FirstSeated
  <2> QED BY <1>3, <1>4, <1>5, <2>1, RemovedPileCards DEF RemoveWhileBidding
<1>6. CASE pending # {}
  <2>1. turnSeat' = IF seatOrder[turnSeat + 1] = d THEN gone % Len(seatOrder')
                    ELSE SeatOf(seatOrder', seatOrder[turnSeat + 1])
    BY <1>6 DEF RemoveWhileBidding, gone
  <2>2. gone % Len(seatOrder') \in 0..(Len(seatOrder') - 1)
    BY <1>1, <1>2, ModRange
  <2>3. seatOrder[turnSeat + 1] \in Seated
    BY <1>2, <1>3, SeatOfPosition DEF Seated
  <2> QED BY <1>3, <1>4, <2>1, <2>2, <2>3, RemovedPileCards
<1> QED BY <1>5, <1>6

\* The pile after a seat was removed while it lay on the table.
LEMMA RemovedPile ==
  ASSUME IInv, NEW d, RemovePlayer(d), phase = "trick"
  PROVE  PileFollowsSeats' /\ turnSeat' \in Int
<1> DEFINE n == Len(seatOrder)
           k == Len(currentTrick)
           gone == SeatOf(seatOrder, d)
<1>1. /\ d \in Seated /\ IsSeating(seatOrder') /\ Len(seatOrder') = n - 1 /\ n > 2
      /\ gone \in 0..(n - 1) /\ seatOrder' = Leave(seatOrder, d)
  BY RemovedTable
<1>2. IsSeating(seatOrder) /\ seatOrder \in Seq(Devices) /\ n \in Nat
  BY BidOrderSeating
<1>3. PICK leader \in 0..(n - 1) :
        /\ k <= n
        /\ \A i \in 1..k : currentTrick[i].deviceId = OrderFrom(seatOrder, leader)[i]
        /\ turnSeat = IF k < n THEN (leader + k) % n ELSE -1
  BY DEF IInv, PileFollowsSeats
<1> DEFINE R == OrderFrom(seatOrder, leader)
           p == PlaceOf(n, leader, gone)
           first == FirstWithout(leader, gone)
           leader2 == IF first = n - 1 THEN 0 ELSE first
           Q == OrderFrom(seatOrder', leader2)
           k2 == IF p <= k THEN k - 1 ELSE k
<1>4. IsSeating(R) /\ Len(R) = n
  BY <1>2, RotationSeating
<1>5. first \in 0..(n - 1) /\ p \in 1..n /\ R[p] = d /\ Leave(R, d) = OrderFrom(seatOrder', first)
  <2>1. leader \in 0..Len(seatOrder) /\ Len(seatOrder) > 2 /\ d \in SeatsOf(seatOrder)
    BY <1>1, <1>2 DEF Seated
  <2> QED BY <1>1, <1>2, <2>1, LeaveRotation
<1>6. Leave(R, d) = Q
  BY <1>1, <1>5, RotationFull
<1>7. \A i \in 1..(n - 1) : Q[i] = R[Past(p, i)]
  BY <1>4, <1>5, <1>6, LeaveAt DEF Past
<1>8. k \in Nat /\ leader \in Nat /\ leader2 \in 0..(n - 2)
  BY <1>1, <1>2, <1>5, SMTT(30) DEF IInv, TypeOK
<1>9. \A i \in 1..n : R[i] = seatOrder[((leader + i - 1) % n) + 1]
  BY DEF OrderFrom
<1>10. \A i \in 1..(n - 1) : Q[i] = seatOrder'[((leader2 + i - 1) % (n - 1)) + 1]
  BY <1>1 DEF OrderFrom
<1>11. \A i \in 1..n : R[i] = d => i = p
  BY <1>4, <1>5 DEF IsSeating
<1> HIDE DEF R, Q, p, first, leader2, gone
<1>12. \A i \in 1..k : i \in 1..n /\ currentTrick[i].deviceId = R[i]
  BY <1>3, <1>8, <1>2 DEF R
<1>13. k2 \in 0..(n - 1) /\ Len(currentTrick') = k2
       /\ \A i \in 1..k2 : currentTrick'[i].deviceId = Q[i]
  <2>1. CASE p <= k
    <3>1. p \in 1..k /\ currentTrick[p].deviceId = d
      BY <1>5, <1>8, <1>12, <2>1
    <3>2. Len(currentTrick') = k - 1 /\ \A i \in 1..(k - 1) : currentTrick'[i] = currentTrick[Past(p, i)]
      BY <3>1, RemovedPileCards
    <3>3. \A i \in 1..(k - 1) : Past(p, i) \in 1..k /\ i \in 1..(n - 1)
      BY <1>2, <1>3, <1>8, <3>1 DEF Past
    <3>4. \A i \in 1..(k - 1) : currentTrick'[i].deviceId = Q[i]
      BY <1>7, <1>12, <3>2, <3>3
    <3> QED BY <1>2, <1>3, <1>8, <2>1, <3>1, <3>2, <3>4
  <2>2. CASE ~(p <= k)
    <3>1. \A i \in 1..k : i < p /\ i \in 1..(n - 1) /\ i # p
      BY <1>2, <1>5, <1>8, <2>2
    <3>2. \A i \in 1..k : currentTrick[i].deviceId # d
      BY <1>11, <1>12, <3>1
    <3>3. currentTrick' = currentTrick
      BY <3>2, RemovedPileCards
    <3>4. \A i \in 1..k : Q[i] = R[i]
      BY <1>7, <3>1 DEF Past
    <3> QED BY <1>2, <1>5, <1>8, <1>12, <2>2, <3>3, <3>4
  <2> QED BY <2>1, <2>2
<1>14. turnSeat' = IF k2 = n - 1 THEN -1 ELSE TurnPassesTo(d, gone)
  <2>1. ~RemoveWhileBidding(d, gone) /\ ~RemoveAtGameEnd
    BY DEF RemoveWhileBidding, RemoveAtGameEnd
  <2>2. RemoveWhilePlaying(d, gone)
    BY <2>1 DEF RemovePlayer, gone
  <2> QED BY <1>1, <1>13, <2>2 DEF RemoveWhilePlaying
<1>15. k2 < n - 1 => TurnPassesTo(d, gone) = SeatOf(seatOrder', Q[k2 + 1])
  <2> SUFFICES ASSUME k2 < n - 1 PROVE TurnPassesTo(d, gone) = SeatOf(seatOrder', Q[k2 + 1])
    OBVIOUS
  <2>1. k < n
    BY <1>2, <1>3, <1>5, <1>8
  <2>2. turnSeat = (leader + k) % n /\ turnSeat \in 0..(n - 1)
    BY <1>1, <1>2, <1>3, <1>8, <2>1, ModRange
  <2>3. seatOrder[turnSeat + 1] = R[k + 1] /\ k + 1 \in 1..n
    BY <1>2, <1>8, <1>9, <2>1, <2>2
  <2>4. TurnPassesTo(d, gone)
          = SeatOf(seatOrder', IF R[k + 1] # d THEN R[k + 1] ELSE seatOrder[((gone + 1) % n) + 1])
    BY <2>2, <2>3 DEF TurnPassesTo
  <2>5. CASE R[k + 1] # d
    <3>1. k + 1 # p /\ k2 + 1 \in 1..(n - 1)
      BY <1>2, <1>5, <1>8, <1>13, <2>5
    <3>2. Past(p, k2 + 1) = k + 1
      BY <1>2, <1>5, <1>8, <3>1 DEF Past
    <3> QED BY <1>7, <2>4, <2>5, <3>1, <3>2
  <2>6. CASE R[k + 1] = d
    <3>1. p = k + 1 /\ k2 = k /\ k + 2 \in 1..n /\ k + 1 \in 1..(n - 1)
      BY <1>2, <1>8, <1>11, <2>3, <2>6
    <3>2. Past(p, k + 1) = k + 2
      BY <1>8, <3>1 DEF Past
    <3>3. gone = turnSeat
      <4>1. PICK at \in 1..n : at = turnSeat + 1 /\ seatOrder[at] = d
        BY <1>2, <2>2, <2>3, <2>6
      <4>2. SeatOf(seatOrder, seatOrder[at]) = at - 1
        BY <1>2, SeatOfPosition
      <4> QED BY <2>2, <4>1, <4>2 DEF gone
    <3>4. (gone + 1) % n = (leader + (k + 1)) % n
      <4>1. n \in Nat /\ n > 0 /\ leader \in Nat /\ leader < n /\ k \in Nat /\ k < n
        BY <1>1, <1>2, <1>8, <2>1
      <4> HIDE DEF n, k
      <4>2. (((leader + k) % n) + 1) % n = (leader + (k + 1)) % n
        BY <4>1, NextSeat
      <4> QED BY <2>2, <3>3, <4>2
    <3>5. leader + (k + 1) = leader + (k + 2) - 1
      BY <1>8
    <3>6. R[k + 2] = seatOrder[((gone + 1) % n) + 1]
      BY <1>9, <3>1, <3>4, <3>5
    <3> QED BY <1>7, <2>4, <2>6, <3>1, <3>2, <3>6
  <2> QED BY <2>5, <2>6
<1>16. (leader2 + k2) % (n - 1) \in 0..(n - 2)
  <2>1. leader2 + k2 \in Int /\ n - 1 \in Int /\ n - 1 > 0 /\ n - 1 - 1 = n - 2
    BY <1>1, <1>2, <1>8, <1>13
  <2> HIDE DEF n, k2
  <2>2. (leader2 + k2) % (n - 1) \in 0..(n - 1 - 1)
    BY <2>1, ModRange
  <2> QED BY <2>1, <2>2
<1>17. k2 < n - 1 => SeatOf(seatOrder', Q[k2 + 1]) = (leader2 + k2) % (n - 1)
  <2> SUFFICES ASSUME k2 < n - 1 PROVE SeatOf(seatOrder', Q[k2 + 1]) = (leader2 + k2) % (n - 1)
    OBVIOUS
  <2> DEFINE at == (leader2 + k2) % (n - 1)
  <2>1. k2 + 1 \in 1..(n - 1) /\ leader2 + (k2 + 1) - 1 = leader2 + k2
    BY <1>2, <1>8, <1>13
  <2>2. Q[k2 + 1] = seatOrder'[at + 1]
    BY <1>10, <2>1
  <2>3. at \in 0..(n - 2)
    BY <1>16
  <2> HIDE DEF at
  <2>4. PICK seat \in 1..Len(seatOrder') : seat = at + 1
    BY <1>1, <1>2, <2>3
  <2>5. SeatOf(seatOrder', seatOrder'[seat]) = seat - 1
    BY <1>1, SeatOfPosition
  <2> QED BY <1>2, <2>2, <2>3, <2>4, <2>5 DEF at
<1>18. turnSeat' = IF k2 < n - 1 THEN (leader2 + k2) % (n - 1) ELSE -1
  BY <1>1, <1>2, <1>13, <1>14, <1>15, <1>17
<1>19. turnSeat' \in Int
  BY <1>18, <1>16
<1>20. leader2 \in 0..(n - 1 - 1) /\ k2 <= n - 1
  BY <1>2, <1>8, <1>13
<1> HIDE DEF n, k, k2
<1> QED BY <1>1, <1>13, <1>18, <1>19, <1>20 DEF PileFollowsSeats, Q

\* removePlayer keeps the invariant in every phase.
LEMMA RemovePlayerInv ==
  ASSUME IInv, NEW d, RemovePlayer(d)
  PROVE  IInv'
<1> DEFINE seats == Seated \ {d}
<1>1. /\ d \in Seated /\ phase # "none" /\ IsSeating(seatOrder') /\ Seated' = seats
      /\ Len(seatOrder) > 2 /\ Len(seatOrder') = Len(seatOrder) - 1 /\ dealerSeat' \in 0..(Len(seatOrder') - 1)
  BY RemovedTable
<1>2. /\ DealerBidsLast' /\ bidTurnIndex' \in Nat
      /\ phase' \in {"bidding", "trick", "game-end"}
      /\ phase' = "bidding" => bidTurnIndex' < Len(bidOrder')
      /\ phase' \in {"trick", "game-end"} => bidTurnIndex' >= Len(bidOrder')
      /\ IsSeating(bidOrder') /\ Len(bidOrder') = Len(seatOrder')
  BY RemovedBids
<1>3. Len(seatOrder) \in Nat /\ seatOrder \in Seq(Devices)
  BY <1>1, BidOrderSeating
<1>4. UNCHANGED <<round, plays, historyComplete>>
  BY DEF RemovePlayer
<1>5. /\ hands' \in [seats -> SUBSET Card] /\ bids' \in [seats -> Int \cup {Null}]
      /\ tricksWon' \in [seats -> Nat] /\ voidSuits' \in [seats -> SUBSET Suits]
      /\ scores' \in [seats -> Int] /\ carried' \in [seats -> Int]
  BY RemoveKeyType DEF RemovePlayer, IInv, TypeOK
<1>6. roundHistory' \in Seq([seats -> Result])
  <2>1. roundHistory \in Seq([Seated -> Result]) /\ Len(roundHistory) \in Nat
    BY DEF IInv, TypeOK
  <2>2. \A i \in 1..Len(roundHistory) : RemoveKey(roundHistory[i], d) \in [seats -> Result]
    <3>1. \A i \in 1..Len(roundHistory) : roundHistory[i] \in [Seated -> Result]
      BY <2>1
    <3> QED BY <3>1, RemoveKeyType
  <2>3. roundHistory' = [i \in 1..Len(roundHistory) |-> RemoveKey(roundHistory[i], d)]
    BY DEF RemovePlayer
  <2> HIDE DEF seats
  <2> QED BY <2>1, <2>2, <2>3
<1>7. donkeys' \subseteq seats
  <2>1. DOMAIN scores' = seats
    BY <1>5
  <2> QED BY <2>1 DEF RemovePlayer, DonkeysWithout, Lowest, IInv, TypeOK
<1>8. departed' \subseteq Devices
  BY <1>1, <1>3 DEF RemovePlayer, IInv, TypeOK, Seated, SeatsOf
<1>9. currentTrick' \in Seq(PlayedCard) /\ (currentTrick = <<>> => currentTrick' = <<>>)
  BY RemovedPileCards
<1>10. /\ turnSeat' \in Int
       /\ phase' = "bidding" => turnSeat' \in 0..(Len(seatOrder') - 1)
       /\ phase' # "trick" => currentTrick' = <<>>
       /\ PileFollowsSeats'
  <2>1. CASE RemoveWhileBidding(d, SeatOf(seatOrder, d))
    <3>1. turnSeat' \in 0..(Len(seatOrder') - 1) /\ currentTrick' = <<>>
      BY <2>1, RemovedBidder
    <3>2. PileFollowsSeats'
      BY <1>1, <1>3, <3>1, EmptyPile
    <3> QED BY <1>1, <1>3, <3>1, <3>2
  <2>2. CASE RemoveWhilePlaying(d, SeatOf(seatOrder, d))
    <3>1. phase = "trick" /\ phase' = "trick"
      BY <2>2 DEF RemoveWhilePlaying
    <3> QED BY <3>1, RemovedPile
  <2>3. CASE RemoveAtGameEnd
    <3>1. phase' = "game-end" /\ turnSeat' = turnSeat /\ currentTrick = <<>>
      BY <2>3 DEF RemoveAtGameEnd, IInv, TableSeated
    <3> QED BY <1>9, <3>1 DEF IInv, TypeOK, PileFollowsSeats
  <2> QED BY <2>1, <2>2, <2>3 DEF RemovePlayer
<1> HIDE DEF seats
<1>11. TypeOK'
  <2>1. phase' \in {"none", "bidding", "trick", "game-end"} /\ round' \in 1..Rounds
        /\ plays' \in Seq(LedgerEntry) /\ historyComplete' \in BOOLEAN
    BY <1>2, <1>4 DEF IInv, TypeOK
  <2>2. dealerSeat' \in Nat
    BY <1>1
  <2>3. seatOrder' \in Seq(Devices) /\ bidOrder' \in Seq(Devices)
    BY <1>1, <1>2 DEF IsSeating
  <2> QED BY <1>1, <1>2, <1>5, <1>6, <1>7, <1>8, <1>9, <1>10, <2>1, <2>2, <2>3 DEF TypeOK
<1>12. TableSeated'
  <2>1. \A deck \in Decks : Len(seatOrder') * MaxHand <= Len(deck)
    <3> SUFFICES ASSUME NEW deck \in Decks PROVE Len(seatOrder') * MaxHand <= Len(deck)
      OBVIOUS
    <3>1. Len(seatOrder) * MaxHand <= Len(deck) /\ Len(deck) \in Int
      BY DecksAssumption DEF IInv, TableSeated
    <3>2. Len(seatOrder') * MaxHand <= Len(seatOrder) * MaxHand
      BY <1>1, <1>3, RoundsAssumption
    <3> QED BY <1>1, <1>3, <3>1, <3>2, RoundsAssumption
  <2> QED BY <1>1, <1>2, <1>10, <2>1 DEF TableSeated
<1>13. NumbersOrdered'
  BY <1>4 DEF IInv, NumbersOrdered
<1> QED BY <1>2, <1>10, <1>11, <1>12, <1>13 DEF IInv

\* A step that changes nothing keeps the invariant.
LEMMA UnchangedInv ==
  ASSUME IInv, UNCHANGED vars
  PROVE  IInv'
<1>1. UNCHANGED <<phase, round, dealerSeat, seatOrder, bidOrder, hands, bids, bidTurnIndex, tricksWon,
                  currentTrick, turnSeat, plays, historyComplete, voidSuits, scores, roundHistory,
                  donkeys, carried, departed>>
  BY DEF vars, seating, bidding, ledger, sheet
<1>2. Seated' = Seated
  BY <1>1 DEF Seated
<1>3. TypeOK' /\ TableSeated'
  BY <1>1, <1>2 DEF IInv, TypeOK, TableSeated
<1>4. DealerBidsLast' /\ PileFollowsSeats' /\ NumbersOrdered'
  BY <1>1 DEF IInv, DealerBidsLast, PileFollowsSeats, NumbersOrdered
<1> QED BY <1>3, <1>4 DEF IInv

\* The invariant is inductive.
LEMMA NextInv == IInv /\ [Next]_vars => IInv'
<1> SUFFICES ASSUME IInv, [Next]_vars PROVE IInv'
  OBVIOUS
<1>1. CASE \E d \in Seated, bid \in BidInput : PlaceBid(d, bid)
  BY <1>1, PlaceBidInv
<1>2. CASE \E d \in Seated : \E card \in hands[d] : PlayCard(d, card)
  BY <1>2, PlayCardInv
<1>3. CASE ResolvePendingTrick
  BY <1>3, ResolveInv
<1>4. CASE \E from \in Leavers, to \in Devices \ departed : ReplacePlayer(from, to)
  BY <1>4, ReplacePlayerInv
<1>5. CASE \E d \in Leavers : RemovePlayer(d)
  BY <1>5, RemovePlayerInv
<1>6. CASE \E order \in SeatOrders : StartGame(order)
  BY <1>6, StartGameInv
<1>7. CASE NewGame
  BY <1>7, NewGameInv
<1>8. CASE ContinueGame
  BY <1>8, ContinueGameInv
<1>9. CASE UNCHANGED vars
  BY <1>9, UnchangedInv
<1> QED BY <1>1, <1>2, <1>3, <1>4, <1>5, <1>6, <1>7, <1>8, <1>9 DEF Next, Play, SeatChange, Session

\* The invariant holds in every state of every game.
LEMMA Invariant == Spec => []IInv
BY InitInv, NextInv, PTL DEF Spec

-------------------------------------------------------------------------------
(* Theorems.                                                               *)

\* The per-player tables, orders, pile and ledger keep their types; in particular
\* every table has exactly the seated players as keys, after any number of
\* replacements and removals.
THEOREM TypeCorrect == Spec => []TypeOK
<1>1. IInv => TypeOK
  BY DEF IInv
<1> QED BY <1>1, Invariant, PTL

\* The dealer bids last, and those who have bid are the first of the bid order
\* (placeBid 132-156, removePlayer 359-379).
THEOREM AuctionInOrder == Spec => []DealerBidsLast
<1>1. IInv => DealerBidsLast
  BY DEF IInv
<1> QED BY <1>1, Invariant, PTL

\* The pile on the table was played by consecutive seats and the turn is the next
\* one's (playCard 243-254, removePlayer 380-391).
THEOREM PileInSeatOrder == Spec => []PileFollowsSeats
<1>1. IInv => PileFollowsSeats
  BY DEF IInv
<1> QED BY <1>1, Invariant, PTL

-------------------------------------------------------------------------------
(* The tables of hands and of void suits through every step.               *)

\* Every step outside a deal leaves the hands alone, plays a card, or passes or
\* removes a seat.  A table that was just dealt to:
JustDealt ==
  /\ phase = "bidding" /\ bidTurnIndex = 0 /\ historyComplete = TRUE
  /\ plays = <<>> /\ currentTrick = <<>>
  /\ bids = [d \in Seated |-> Null] /\ tricksWon = [d \in Seated |-> 0]
  /\ voidSuits = [d \in Seated |-> {}]
  /\ \A d, e \in Seated : d # e => hands[d] \cap hands[e] = {}
  /\ \A d \in Seated : IsFiniteSet(hands[d]) /\ Cardinality(hands[d]) = HandSize(round)

\* buildRound deals.
LEMMA BuildRoundTables ==
  ASSUME NEW order, IsSeating(order), \A deck \in Decks : Len(order) * MaxHand <= Len(deck),
         NEW r \in 1..Rounds, NEW dealer \in 0..(Len(order) - 1),
         BuildRound(order, r, dealer)
  PROVE  Seated' = SeatsOf(order) /\ JustDealt'
<1>1. Seated' = SeatsOf(order) /\ round' = r
  BY DEF BuildRound, Seated
<1>2. PICK deck \in Decks : hands' = DealRound(order, r, dealer, deck)
  BY DEF BuildRound
<1>3. /\ \A d, e \in SeatsOf(order) : d # e => hands'[d] \cap hands'[e] = {}
      /\ \A d \in SeatsOf(order) : IsFiniteSet(hands'[d]) /\ Cardinality(hands'[d]) = HandSize(r)
  BY <1>2, DealtHands
<1>4. /\ phase' = "bidding" /\ bidTurnIndex' = 0 /\ historyComplete' = TRUE
      /\ plays' = <<>> /\ currentTrick' = <<>>
      /\ bids' = [d \in SeatsOf(order) |-> Null] /\ tricksWon' = [d \in SeatsOf(order) |-> 0]
      /\ voidSuits' = [d \in SeatsOf(order) |-> {}]
  BY DEF BuildRound
<1> QED BY <1>1, <1>3, <1>4 DEF JustDealt

\* The four operations that deal.
LEMMA DealSteps ==
  ASSUME IInv,
         \/ \E order \in SeatOrders : StartGame(order)
         \/ NewGame
         \/ ContinueGame
         \/ ResolvePendingTrick /\ phase' = "bidding"
  PROVE  JustDealt'
<1>1. ASSUME NEW order \in SeatOrders, StartGame(order) PROVE JustDealt'
  <2>1. IsSeating(order) /\ 1 \in 1..Rounds /\ 0 \in 0..(Len(order) - 1)
        /\ \A deck \in Decks : Len(order) * MaxHand <= Len(deck)
    BY SeatsAssumption, RoundsAssumption, DecksAssumption DEF IsSeating
  <2>2. BuildRound(order, 1, 0)
    BY <1>1 DEF StartGame
  <2> QED BY <2>1, <2>2, BuildRoundTables
<1>2. ASSUME phase # "none"
      PROVE  /\ IsSeating(seatOrder) /\ Len(seatOrder) \in Nat /\ Len(seatOrder) >= 2
             /\ dealerSeat \in Int
             /\ \A deck \in Decks : Len(seatOrder) * MaxHand <= Len(deck)
  BY <1>2, BidOrderSeating DEF IInv, TableSeated, TypeOK
<1>3. ASSUME NEW r \in 1..Rounds, NEW dealer \in 0..(Len(seatOrder) - 1), phase # "none",
             BuildRound(seatOrder, r, dealer)
      PROVE  JustDealt'
  BY <1>2, <1>3, BuildRoundTables
<1>4. 1 \in 1..Rounds
  BY RoundsAssumption
<1>5. phase # "none" => (dealerSeat + 1) % Len(seatOrder) \in 0..(Len(seatOrder) - 1)
                        /\ 0 \in 0..(Len(seatOrder) - 1)
  BY <1>2, ModRange
<1>6. CASE NewGame
  BY <1>3, <1>4, <1>5, <1>6 DEF NewGame
<1>7. CASE ContinueGame
  BY <1>3, <1>4, <1>5, <1>7 DEF ContinueGame
<1>8. CASE ResolvePendingTrick /\ phase' = "bidding"
  <2>1. phase = "trick"
    BY <1>8 DEF ResolvePendingTrick, IsTrickComplete
  <2>2. FinishRound([tricksWon EXCEPT ![Winner] = @ + 1])
    BY <1>8, <2>1 DEF ResolvePendingTrick
  <2>3. ~(round >= Rounds) /\ BuildRound(seatOrder, round + 1, (dealerSeat + 1) % Len(seatOrder))
    BY <1>8, <2>2 DEF FinishRound
  <2>4. round + 1 \in 1..Rounds
    BY <2>3, RoundsAssumption DEF IInv, TypeOK
  <2> QED BY <1>3, <1>5, <2>1, <2>3, <2>4
<1> QED BY <1>1, <1>6, <1>7, <1>8

\* A step that neither deals, plays a card nor changes a seat leaves cards and pile
\* as they are, but for a pile that is resolved.
LEMMA QuietSteps ==
  ASSUME IInv,
         \/ \E d \in Seated, bid \in BidInput : PlaceBid(d, bid)
         \/ ResolvePendingTrick /\ phase' # "bidding"
         \/ UNCHANGED vars
  PROVE  /\ UNCHANGED <<round, seatOrder, hands, plays, historyComplete, voidSuits, departed>> /\ Seated' = Seated
         /\ currentTrick' \in {currentTrick, <<>>}
<1> SUFFICES UNCHANGED <<round, seatOrder, hands, plays, historyComplete, voidSuits, departed>> /\ currentTrick' \in {currentTrick, <<>>}
  BY DEF Seated
<1>1. CASE \E d \in Seated, bid \in BidInput : PlaceBid(d, bid)
  BY <1>1 DEF PlaceBid, seating, ledger
<1>2. CASE UNCHANGED vars
  BY <1>2 DEF vars, seating, ledger
<1>3. CASE ResolvePendingTrick /\ phase' # "bidding"
  <2>1. CASE FinishRound([tricksWon EXCEPT ![Winner] = @ + 1])
    BY <1>3, <2>1 DEF FinishRound, BuildRound, seating, ledger
  <2>2. CASE ~FinishRound([tricksWon EXCEPT ![Winner] = @ + 1])
    BY <1>3, <2>2 DEF ResolvePendingTrick, seating, ledger
  <2> QED BY <2>1, <2>2
<1> QED BY <1>1, <1>2, <1>3

-------------------------------------------------------------------------------
(* Void suits.                                                             *)

\* Every step keeps the recorded void suits right.
LEMMA VoidSuitsStep ==
  ASSUME IInv, VoidSuitsSound, [Next]_vars
  PROVE  VoidSuitsSound'
<1> USE DEF VoidSuitsSound
<1>1. CASE \/ \E order \in SeatOrders : StartGame(order)
           \/ NewGame
           \/ ContinueGame
           \/ ResolvePendingTrick /\ phase' = "bidding"
  <2>1. voidSuits' = [d \in Seated' |-> {}]
    BY <1>1, DealSteps DEF JustDealt
  <2> QED BY <2>1
<1>2. CASE \/ \E d \in Seated, bid \in BidInput : PlaceBid(d, bid)
           \/ ResolvePendingTrick /\ phase' # "bidding"
           \/ UNCHANGED vars
  BY <1>2, QuietSteps
<1>3. ASSUME NEW d \in Seated, NEW card \in hands[d], PlayCard(d, card)
      PROVE  VoidSuitsSound'
  <2> DEFINE lead == IF currentTrick = <<>> THEN card.suit ELSE LeadSuit
  <2>1. /\ Seated' = Seated
        /\ hands' = [hands EXCEPT ![d] = @ \ {card}]
        /\ voidSuits' = IF card.suit = lead THEN voidSuits
                        ELSE [voidSuits EXCEPT ![d] = @ \cup {lead}]
        /\ phase = "trick" /\ card \in LegalCards(d)
    BY <1>3 DEF PlayCard, Seated, seating
  <2>2. hands \in [Seated -> SUBSET Card] /\ voidSuits \in [Seated -> SUBSET Suits]
    BY DEF IInv, TypeOK
  <2>3. card.suit # lead => \A c \in hands[d] : c.suit # lead
    BY <2>1 DEF LegalCards
  <2> HIDE DEF lead
  <2> QED BY <2>1, <2>2, <2>3
<1>4. ASSUME NEW from \in Leavers, NEW to \in Devices \ departed, ReplacePlayer(from, to)
      PROVE  VoidSuitsSound'
  <2>1. from \in Seated /\ to \notin Seated
        /\ hands' = RenameKey(hands, from, to) /\ voidSuits' = RenameKey(voidSuits, from, to)
    BY <1>4 DEF ReplacePlayer
  <2>2. hands \in [Seated -> SUBSET Card] /\ voidSuits \in [Seated -> SUBSET Suits]
        /\ hands' \in [Seated' -> SUBSET Card]
    BY <1>4, ReplacePlayerInv DEF IInv, TypeOK
  <2>3. DOMAIN hands' = (Seated \ {from}) \cup {to}
    BY <2>1, <2>2 DEF RenameKey
  <2>4. \A d \in Seated' : \E e \in Seated : hands'[d] = hands[e] /\ voidSuits'[d] = voidSuits[e]
    BY <2>1, <2>2, <2>3 DEF RenameKey
  <2> QED BY <2>4
<1>5. ASSUME NEW d \in Leavers, RemovePlayer(d)
      PROVE  VoidSuitsSound'
  <2>1. hands' = RemoveKey(hands, d) /\ voidSuits' = RemoveKey(voidSuits, d) /\ Seated' = Seated \ {d}
    BY <1>5, RemovedTable DEF RemovePlayer
  <2>2. hands \in [Seated -> SUBSET Card] /\ voidSuits \in [Seated -> SUBSET Suits]
    BY DEF IInv, TypeOK
  <2> QED BY <2>1, <2>2 DEF RemoveKey
<1> QED BY <1>1, <1>2, <1>3, <1>4, <1>5 DEF Next, Play, SeatChange, Session

\* A player recorded as void in a suit holds no card of it (playCard 235-239), through
\* every replacement and removal of seats.
THEOREM VoidsAreCertain == Spec => []VoidSuitsSound
<1>1. Init => VoidSuitsSound
  BY DEF Init, VoidSuitsSound, Seated, SeatsOf
<1>2. IInv /\ VoidSuitsSound /\ [Next]_vars => VoidSuitsSound'
  BY VoidSuitsStep
<1> QED BY <1>1, <1>2, Invariant, PTL DEF Spec

-------------------------------------------------------------------------------
(* Conservation of cards.                                                  *)

\* The cards of a pile from which a player's card may have been taken.
LEMMA RemovedPileIsPart ==
  ASSUME IInv, NEW d, RemovePlayer(d)
  PROVE  \A i \in 1..Len(currentTrick') : \E j \in 1..Len(currentTrick) : currentTrick'[i] = currentTrick[j]
<1>1. Len(currentTrick) \in Nat
  BY DEF IInv, TypeOK
<1>2. CASE \A i \in 1..Len(currentTrick) : currentTrick[i].deviceId # d
  <2>1. currentTrick' = currentTrick
    BY <1>2, RemovedPileCards
  <2> QED BY <2>1
<1>3. ASSUME NEW p \in 1..Len(currentTrick), currentTrick[p].deviceId = d
      PROVE  \A i \in 1..Len(currentTrick') : \E j \in 1..Len(currentTrick) : currentTrick'[i] = currentTrick[j]
  <2>1. /\ Len(currentTrick') = Len(currentTrick) - 1
        /\ \A i \in 1..(Len(currentTrick) - 1) : currentTrick'[i] = currentTrick[Past(p, i)]
    BY <1>3, RemovedPileCards
  <2>2. \A i \in 1..(Len(currentTrick) - 1) : Past(p, i) \in 1..Len(currentTrick)
    BY <1>1 DEF Past
  <2> QED BY <2>1, <2>2
<1> QED BY <1>2, <1>3

\* playCard moves a card from one hand to the ledger and the pile.
LEMMA PlayConserves ==
  ASSUME IInv, CardsConserved, NEW d \in Seated, NEW card \in hands[d], PlayCard(d, card)
  PROVE  CardsConserved'
<1> DEFINE lead == IF currentTrick = <<>> THEN card.suit ELSE LeadSuit
           entry == [handNumber |-> HandNumber, deviceId |-> d, card |-> card, leadSuit |-> lead]
           played == [deviceId |-> d, card |-> card]
           m == Len(plays)
           k == Len(currentTrick)
<1>1. /\ Seated' = Seated
      /\ hands' = [hands EXCEPT ![d] = @ \ {card}]
      /\ plays' = Append(plays, entry)
      /\ currentTrick' = Append(currentTrick, played)
  BY DEF PlayCard, Seated, seating
<1>2. /\ hands \in [Seated -> SUBSET Card] /\ plays \in Seq(LedgerEntry) /\ m \in Nat
      /\ currentTrick \in Seq(PlayedCard) /\ k \in Nat
  BY DEF IInv, TypeOK
<1>3. entry.card = card /\ entry.deviceId = d /\ played.card = card /\ played.deviceId = d
  OBVIOUS
<1> HIDE DEF entry, played
<1>4. /\ Len(plays') = m + 1 /\ plays'[m + 1] = entry /\ \A i \in 1..m : plays'[i] = plays[i]
      /\ Len(currentTrick') = k + 1 /\ currentTrick'[k + 1] = played
      /\ \A i \in 1..k : currentTrick'[i] = currentTrick[i]
  BY <1>1, <1>2
<1>5. \A e \in Seated : hands'[e] \subseteq hands[e] /\ card \notin hands'[e]
  BY <1>1, <1>2 DEF CardsConserved
<1>6. \A i \in 1..m : plays[i].card # card
  BY DEF CardsConserved
<1>7. \A e, f \in Seated : e # f => hands'[e] \cap hands'[f] = {}
  BY <1>5 DEF CardsConserved
<1>8. \A i \in 1..(m + 1) : i \in 1..m \/ i = m + 1
  BY <1>2
<1>9. \A i \in 1..(k + 1) : i \in 1..k \/ i = k + 1
  BY <1>2
<1>10. \A i \in 1..(m + 1) : \A e \in Seated : plays'[i].card \notin hands'[e]
  BY <1>3, <1>4, <1>5, <1>8 DEF CardsConserved
<1>11. \A i, j \in 1..(m + 1) : plays'[i].card = plays'[j].card => i = j
  <2> SUFFICES ASSUME NEW i \in 1..(m + 1), NEW j \in 1..(m + 1), plays'[i].card = plays'[j].card
               PROVE  i = j
    OBVIOUS
  <2>1. \A e \in 1..m : plays'[e].card # plays'[m + 1].card
    BY <1>3, <1>4, <1>6
  <2>2. CASE i \in 1..m /\ j \in 1..m
    BY <1>4, <2>2 DEF CardsConserved
  <2>3. CASE i = m + 1 \/ j = m + 1
    BY <1>8, <2>1, <2>3
  <2> QED BY <1>8, <2>2, <2>3
<1>12. \A i \in 1..m : i \in 1..(m + 1)
  BY <1>2
<1>13. m + 1 \in 1..(m + 1)
  BY <1>2
<1>14. \A i \in 1..(k + 1) : \E j \in 1..(m + 1) :
         plays'[j].deviceId = currentTrick'[i].deviceId /\ plays'[j].card = currentTrick'[i].card
  <2> SUFFICES ASSUME NEW i \in 1..(k + 1)
               PROVE  \E j \in 1..(m + 1) : plays'[j].deviceId = currentTrick'[i].deviceId
                                             /\ plays'[j].card = currentTrick'[i].card
    OBVIOUS
  <2>1. CASE i \in 1..k
    BY <1>4, <1>12, <2>1 DEF CardsConserved
  <2>2. CASE i = k + 1
    BY <1>3, <1>4, <1>13, <2>2
  <2> QED BY <1>9, <2>1, <2>2
<1>15. \A i \in 1..Len(plays') : \A e \in Seated' : plays'[i].card \notin hands'[e]
  BY <1>1, <1>4, <1>10
<1>16. \A i, j \in 1..Len(plays') : plays'[i].card = plays'[j].card => i = j
  BY <1>4, <1>11
<1>17. \A i \in 1..Len(currentTrick') : \E j \in 1..Len(plays') :
         plays'[j].deviceId = currentTrick'[i].deviceId /\ plays'[j].card = currentTrick'[i].card
  BY <1>4, <1>14
<1>18. \A e, f \in Seated' : e # f => hands'[e] \cap hands'[f] = {}
  BY <1>1, <1>7
<1> QED BY <1>15, <1>16, <1>17, <1>18 DEF CardsConserved

\* What replacePlayer does to the ledger and the pile: the seat's entries are renamed.
LEMMA ReplacedEntries ==
  ASSUME IInv, NEW from, NEW to \in Devices, ReplacePlayer(from, to)
  PROVE  /\ from \in Seated /\ to \notin Seated /\ Seated' = (Seated \ {from}) \cup {to}
         /\ Len(plays') = Len(plays) /\ Len(currentTrick') = Len(currentTrick)
         /\ Len(plays) \in Nat /\ Len(currentTrick) \in Nat
         /\ \A i \in 1..Len(plays) : /\ plays'[i].card = plays[i].card
                                     /\ plays'[i].handNumber = plays[i].handNumber
                                     /\ plays'[i].deviceId = Rename(plays[i].deviceId, from, to)
         /\ \A i \in 1..Len(currentTrick) :
              /\ currentTrick'[i].card = currentTrick[i].card
              /\ currentTrick'[i].deviceId = Rename(currentTrick[i].deviceId, from, to)
<1> DEFINE m == Len(plays)
           k == Len(currentTrick)
<1>1. /\ from \in Seated /\ to \notin Seated
      /\ hands' = RenameKey(hands, from, to)
      /\ plays' = [i \in 1..m |-> [plays[i] EXCEPT !.deviceId = Rename(@, from, to)]]
      /\ currentTrick' = [i \in 1..k |-> [currentTrick[i] EXCEPT !.deviceId = Rename(@, from, to)]]
  BY DEF ReplacePlayer, RenamePlays
<1>2. /\ hands \in [Seated -> SUBSET Card] /\ plays \in Seq(LedgerEntry) /\ m \in Nat
      /\ currentTrick \in Seq(PlayedCard) /\ k \in Nat /\ hands' \in [Seated' -> SUBSET Card]
  BY ReplacePlayerInv DEF IInv, TypeOK
<1>3. DOMAIN hands' = (Seated \ {from}) \cup {to}
  BY <1>1, <1>2 DEF RenameKey
<1>4. Seated' = (Seated \ {from}) \cup {to}
  BY <1>2, <1>3
<1>5. Len(plays') = m /\ Len(currentTrick') = k
  BY <1>1, <1>2
<1>6. \A i \in 1..m : plays[i] \in LedgerEntry
  BY <1>2
<1>7. \A i \in 1..k : currentTrick[i] \in PlayedCard
  BY <1>2
<1>8. \A i \in 1..m : plays'[i] = [plays[i] EXCEPT !.deviceId = Rename(@, from, to)]
  BY <1>1
<1>9. \A i \in 1..k : currentTrick'[i] = [currentTrick[i] EXCEPT !.deviceId = Rename(@, from, to)]
  BY <1>1
<1>10. \A i \in 1..m : /\ plays'[i].card = plays[i].card
                       /\ plays'[i].handNumber = plays[i].handNumber
                       /\ plays'[i].deviceId = Rename(plays[i].deviceId, from, to)
  BY <1>6, <1>8 DEF LedgerEntry
<1>11. \A i \in 1..k : /\ currentTrick'[i].card = currentTrick[i].card
                       /\ currentTrick'[i].deviceId = Rename(currentTrick[i].deviceId, from, to)
  BY <1>7, <1>9 DEF PlayedCard
<1> QED BY <1>1, <1>2, <1>4, <1>5, <1>10, <1>11

\* replacePlayer hands every card to the one name that stands for its holder.
LEMMA ReplacedHands ==
  ASSUME IInv, NEW from, NEW to \in Devices, ReplacePlayer(from, to)
  PROVE  /\ hands'[to] = hands[from]
         /\ \A d \in Seated \ {from} : d \in Seated' /\ d # to /\ hands'[d] = hands[d]
<1>1. /\ from \in Seated /\ to \notin Seated /\ Seated' = (Seated \ {from}) \cup {to}
      /\ hands' = RenameKey(hands, from, to)
  BY ReplacedEntries DEF ReplacePlayer
<1> QED BY <1>1 DEF RenameKey, IInv, TypeOK

\* replacePlayer moves no card.
LEMMA ReplaceConserves ==
  ASSUME IInv, CardsConserved, NEW from, NEW to \in Devices, ReplacePlayer(from, to)
  PROVE  CardsConserved'
<1> DEFINE Back(d) == IF d = to THEN from ELSE d
           m == Len(plays)
           k == Len(currentTrick)
<1>1. /\ from \in Seated /\ to \notin Seated /\ Seated' = (Seated \ {from}) \cup {to}
      /\ Len(plays') = m /\ Len(currentTrick') = k
      /\ \A i \in 1..m : /\ plays'[i].card = plays[i].card
                         /\ plays'[i].deviceId = Rename(plays[i].deviceId, from, to)
      /\ \A i \in 1..k : /\ currentTrick'[i].card = currentTrick[i].card
                         /\ currentTrick'[i].deviceId = Rename(currentTrick[i].deviceId, from, to)
  BY ReplacedEntries
<1>2. \A d \in Seated' : Back(d) \in Seated /\ hands'[d] = hands[Back(d)]
  BY <1>1, ReplacedHands
<1>3. \A d, e \in Seated' : d # e => Back(d) # Back(e)
  BY <1>1
<1> HIDE DEF Back, m, k
<1>4. \A d, e \in Seated' : d # e => hands'[d] \cap hands'[e] = {}
  BY <1>2, <1>3 DEF CardsConserved
<1>5. \A i \in 1..m : \A d \in Seated' : plays'[i].card \notin hands'[d]
  BY <1>1, <1>2 DEF CardsConserved, m
<1>6. \A i, j \in 1..m : plays'[i].card = plays'[j].card => i = j
  BY <1>1 DEF CardsConserved, m
<1>7. \A i \in 1..k : \E j \in 1..m :
        plays'[j].deviceId = currentTrick'[i].deviceId /\ plays'[j].card = currentTrick'[i].card
  BY <1>1 DEF CardsConserved, m, k
<1> QED BY <1>1, <1>4, <1>5, <1>6, <1>7 DEF CardsConserved

\* removePlayer only takes cards away.
LEMMA RemoveConserves ==
  ASSUME IInv, CardsConserved, NEW d, RemovePlayer(d)
  PROVE  CardsConserved'
<1>1. hands' = RemoveKey(hands, d) /\ plays' = plays /\ Seated' = Seated \ {d}
  BY RemovedTable DEF RemovePlayer
<1>2. \A e \in Seated' : e \in Seated /\ hands'[e] = hands[e]
  BY <1>1 DEF RemoveKey, IInv, TypeOK
<1>3. \A i \in 1..Len(currentTrick') : \E j \in 1..Len(currentTrick) : currentTrick'[i] = currentTrick[j]
  BY RemovedPileIsPart
<1>4. \A i \in 1..Len(currentTrick') : \E j \in 1..Len(plays) :
        plays[j].deviceId = currentTrick'[i].deviceId /\ plays[j].card = currentTrick'[i].card
  BY <1>3 DEF CardsConserved
<1> QED BY <1>1, <1>2, <1>4 DEF CardsConserved

\* Every step keeps each card in one place.
LEMMA CardsConservedStep ==
  ASSUME IInv, CardsConserved, [Next]_vars
  PROVE  CardsConserved'
<1>1. CASE \/ \E order \in SeatOrders : StartGame(order)
           \/ NewGame
           \/ ContinueGame
           \/ ResolvePendingTrick /\ phase' = "bidding"
  <2>1. plays' = <<>> /\ currentTrick' = <<>>
        /\ \A d, e \in Seated' : d # e => hands'[d] \cap hands'[e] = {}
    BY <1>1, DealSteps DEF JustDealt
  <2> QED BY <2>1 DEF CardsConserved
<1>2. CASE \/ \E d \in Seated, bid \in BidInput : PlaceBid(d, bid)
           \/ ResolvePendingTrick /\ phase' # "bidding"
           \/ UNCHANGED vars
  <2>1. UNCHANGED <<hands, plays>> /\ Seated' = Seated /\ currentTrick' \in {currentTrick, <<>>}
    BY <1>2, QuietSteps
  <2> QED BY <2>1 DEF CardsConserved
<1>3. CASE \E d \in Seated : \E card \in hands[d] : PlayCard(d, card)
  BY <1>3, PlayConserves
<1>4. CASE \E from \in Leavers, to \in Devices \ departed : ReplacePlayer(from, to)
  BY <1>4, ReplaceConserves
<1>5. CASE \E d \in Leavers : RemovePlayer(d)
  BY <1>5, RemoveConserves
<1> QED BY <1>1, <1>2, <1>3, <1>4, <1>5 DEF Next, Play, SeatChange, Session

\* No card is in two places: dealRound (62-71) deals disjoint slices, playCard (227-236)
\* moves a card from its hand to the pile and the ledger, and seats pass or leave with
\* their cards.
THEOREM NoCardTwice == Spec => []CardsConserved
<1>1. Init => CardsConserved
  BY DEF Init, CardsConserved, Seated, SeatsOf
<1>2. IInv /\ CardsConserved /\ [Next]_vars => CardsConserved'
  BY CardsConservedStep
<1> QED BY <1>1, <1>2, Invariant, PTL DEF Spec

-------------------------------------------------------------------------------
(* Who is in the ledger.                                                   *)

\* Whoever played in this round sits at the table or gave up a seat: a newcomer,
\* who may not have given up one, finds no card under its name.
PlayersKnown == \A i \in 1..Len(plays) : plays[i].deviceId \in Seated \cup departed

\* Nobody plays twice under one number.
OncePerNumber ==
  \A i, j \in 1..Len(plays) :
    i < j /\ plays[i].deviceId = plays[j].deviceId => plays[i].handNumber < plays[j].handNumber

\* While cards lie on the table, what players of the table played under the last
\* number lies there...
LastNumberIsPile ==
  currentTrick # <<>> =>
    \A i \in 1..Len(plays) :
      plays[i].handNumber = plays[Len(plays)].handNumber /\ plays[i].deviceId \in Seated
        => \E k \in 1..Len(currentTrick) : currentTrick[k].deviceId = plays[i].deviceId
\* ...and what lies there was played under the last number.
PileHasLastNumber ==
  \A k \in 1..Len(currentTrick) : \E j \in 1..Len(plays) :
    /\ plays[j].deviceId = currentTrick[k].deviceId /\ plays[j].card = currentTrick[k].card
    /\ plays[j].handNumber = plays[Len(plays)].handNumber

LedgerInv == PlayersKnown /\ OncePerNumber /\ LastNumberIsPile /\ PileHasLastNumber

\* The seat on turn has no card on the table, and there is one until the pile is full.
LEMMA ActorNotInPile ==
  ASSUME IInv, phase = "trick"
  PROVE  /\ turnSeat >= 0 =>
              \A i \in 1..Len(currentTrick) : currentTrick[i].deviceId # seatOrder[turnSeat + 1]
         /\ ~IsTrickComplete => turnSeat \in 0..(Len(seatOrder) - 1)
<1> DEFINE n == Len(seatOrder)
           k == Len(currentTrick)
<1>1. IsSeating(seatOrder) /\ n \in Nat /\ n >= 2 /\ k \in Nat
  BY BidOrderSeating DEF IInv, TypeOK
<1>2. PICK leader \in 0..(n - 1) :
        /\ k <= n
        /\ \A i \in 1..k : currentTrick[i].deviceId = OrderFrom(seatOrder, leader)[i]
        /\ turnSeat = IF k < n THEN (leader + k) % n ELSE -1
  BY DEF IInv, PileFollowsSeats
<1> DEFINE R == OrderFrom(seatOrder, leader)
<1>3. ASSUME turnSeat >= 0
      PROVE  \A i \in 1..k : currentTrick[i].deviceId # seatOrder[turnSeat + 1]
  <2>1. k < n /\ turnSeat = (leader + k) % n
    BY <1>1, <1>2, <1>3
  <2>2. R[k + 1] = seatOrder[turnSeat + 1]
    BY <1>1, <2>1 DEF OrderFrom
  <2>3. IsSeating(R) /\ Len(R) = n
    BY <1>1, RotationSeating
  <2>4. \A i \in 1..k : currentTrick[i].deviceId = R[i]
    BY <1>2
  <2> HIDE DEF R
  <2>5. \A i \in 1..k : i \in 1..n /\ k + 1 \in 1..n /\ i # k + 1
    BY <1>1, <2>1
  <2>6. \A i \in 1..k : R[i] # R[k + 1]
    BY <2>3, <2>5 DEF IsSeating
  <2> QED BY <2>2, <2>4, <2>6
<1>4. ASSUME ~IsTrickComplete
      PROVE  turnSeat \in 0..(n - 1)
  <2>1. k < n
    BY <1>1, <1>2, <1>4 DEF IsTrickComplete
  <2> QED BY <1>1, <1>2, <2>1, ModRange
<1> QED BY <1>3, <1>4

\* A player has no card on the table when it plays one.
LEMMA PlaysOnce ==
  ASSUME IInv, NEW d \in Seated, NEW card, PlayCard(d, card)
  PROVE  \A i \in 1..Len(currentTrick) : currentTrick[i].deviceId # d
BY ActorNotInPile DEF PlayCard

\* A card that joins a pile gets the number of the pile.
LEMMA PileNumber ==
  ASSUME IInv, CardsConserved, currentTrick # <<>>
  PROVE  /\ plays # <<>> /\ Len(plays) \in 1..Len(plays)
         /\ HandNumber = plays[Len(plays)].handNumber
<1>1. currentTrick \in Seq(PlayedCard) /\ plays \in Seq(LedgerEntry)
  BY DEF IInv, TypeOK
<1>2. 1 \in 1..Len(currentTrick)
  BY <1>1
<1>3. \E j \in 1..Len(plays) : plays[j].card = currentTrick[1].card
  BY <1>2 DEF CardsConserved
<1> QED BY <1>1, <1>3 DEF HandNumber

\* playCard keeps the ledger.
LEMMA PlayLedger ==
  ASSUME IInv, CardsConserved, LedgerInv, NEW d \in Seated, NEW card \in hands[d], PlayCard(d, card)
  PROVE  LedgerInv'
<1> DEFINE lead == IF currentTrick = <<>> THEN card.suit ELSE LeadSuit
           entry == [handNumber |-> HandNumber, deviceId |-> d, card |-> card, leadSuit |-> lead]
           played == [deviceId |-> d, card |-> card]
           m == Len(plays)
           k == Len(currentTrick)
<1>1. /\ Seated' = Seated /\ departed' = departed
      /\ plays' = Append(plays, entry)
      /\ currentTrick' = Append(currentTrick, played)
  BY DEF PlayCard, Seated, seating
<1>2. /\ plays \in Seq(LedgerEntry) /\ m \in Nat
      /\ currentTrick \in Seq(PlayedCard) /\ k \in Nat
  BY DEF IInv, TypeOK
<1>3. /\ entry.handNumber = HandNumber /\ entry.deviceId = d /\ entry.card = card
      /\ played.deviceId = d /\ played.card = card
  OBVIOUS
<1> HIDE DEF entry, played
<1>4. /\ Len(plays') = m + 1 /\ plays'[m + 1] = entry /\ \A i \in 1..m : plays'[i] = plays[i]
      /\ Len(currentTrick') = k + 1 /\ currentTrick'[k + 1] = played
      /\ \A i \in 1..k : currentTrick'[i] = currentTrick[i]
  BY <1>1, <1>2
<1>5. /\ \A i \in 1..(m + 1) : i \in 1..m \/ i = m + 1
      /\ \A i \in 1..(k + 1) : i \in 1..k \/ i = k + 1
      /\ \A i \in 1..m : i \in 1..(m + 1)
      /\ \A i \in 1..k : i \in 1..(k + 1)
      /\ m + 1 \in 1..(m + 1) /\ k + 1 \in 1..(k + 1)
  BY <1>2
<1>6. /\ HandNumber \in Nat /\ \A i \in 1..m : plays[i].handNumber <= HandNumber
      /\ currentTrick = <<>> => \A i \in 1..m : plays[i].handNumber < HandNumber
  BY HandNumberLast DEF IInv
<1>7. currentTrick # <<>> => HandNumber = plays[m].handNumber
  BY PileNumber
<1>8. \A i \in 1..m : plays[i].handNumber \in Nat
  <2>1. \A i \in 1..m : plays[i] \in LedgerEntry
    BY <1>2
  <2> QED BY <2>1 DEF LedgerEntry
<1>9. \A i \in 1..k : currentTrick[i].deviceId # d
  BY PlaysOnce
<1>10. \A i \in 1..m : plays[i].deviceId = d => plays[i].handNumber < HandNumber
  <2> SUFFICES ASSUME NEW i \in 1..m, plays[i].deviceId = d, plays[i].handNumber = HandNumber
               PROVE  FALSE
    BY <1>6, <1>8
  <2>1. currentTrick # <<>>
    BY <1>6, <1>8
  <2> QED BY <1>7, <1>9, <2>1 DEF LedgerInv, LastNumberIsPile
<1>11. PlayersKnown'
  BY <1>1, <1>3, <1>4, <1>5 DEF LedgerInv, PlayersKnown
<1>12. OncePerNumber'
  <2> SUFFICES ASSUME NEW i \in 1..(m + 1), NEW j \in 1..(m + 1), i < j,
                      plays'[i].deviceId = plays'[j].deviceId
               PROVE  plays'[i].handNumber < plays'[j].handNumber
    BY <1>4 DEF OncePerNumber
  <2>1. i \in 1..m
    BY <1>2
  <2>2. CASE j \in 1..m
    BY <1>4, <2>1, <2>2 DEF LedgerInv, OncePerNumber
  <2>3. CASE j = m + 1
    BY <1>3, <1>4, <1>10, <2>1, <2>3
  <2> QED BY <1>5, <2>2, <2>3
<1>13. LastNumberIsPile'
  <2> SUFFICES ASSUME NEW i \in 1..(m + 1), plays'[i].handNumber = HandNumber,
                      plays'[i].deviceId \in Seated
               PROVE  \E q \in 1..(k + 1) : currentTrick'[q].deviceId = plays'[i].deviceId
    BY <1>1, <1>3, <1>4 DEF LastNumberIsPile
  <2>1. CASE i = m + 1
    BY <1>3, <1>4, <1>5, <2>1
  <2>2. CASE i \in 1..m
    <3>1. currentTrick # <<>>
      BY <1>4, <1>6, <1>8, <2>2
    <3>2. \E q \in 1..k : currentTrick[q].deviceId = plays[i].deviceId
      BY <1>4, <1>7, <2>2, <3>1 DEF LedgerInv, LastNumberIsPile
    <3> QED BY <1>4, <1>5, <2>2, <3>2
  <2> QED BY <1>5, <2>1, <2>2
<1>14. PileHasLastNumber'
  <2> SUFFICES ASSUME NEW q \in 1..(k + 1)
               PROVE  \E j \in 1..(m + 1) :
                        /\ plays'[j].deviceId = currentTrick'[q].deviceId
                        /\ plays'[j].card = currentTrick'[q].card
                        /\ plays'[j].handNumber = HandNumber
    BY <1>3, <1>4 DEF PileHasLastNumber
  <2>1. CASE q = k + 1
    BY <1>3, <1>4, <1>5, <2>1
  <2>2. CASE q \in 1..k
    <3>1. currentTrick # <<>>
      BY <1>2, <2>2
    <3>2. PICK j \in 1..m : /\ plays[j].deviceId = currentTrick[q].deviceId
                            /\ plays[j].card = currentTrick[q].card
                            /\ plays[j].handNumber = HandNumber
      BY <1>7, <2>2, <3>1 DEF LedgerInv, PileHasLastNumber
    <3> QED BY <1>4, <1>5, <2>2, <3>2
  <2> QED BY <1>5, <2>1, <2>2
<1> QED BY <1>11, <1>12, <1>13, <1>14 DEF LedgerInv

\* replacePlayer keeps the ledger: nobody in it has the newcomer's name.
LEMMA ReplaceLedger ==
  ASSUME IInv, LedgerInv, NEW from, NEW to \in Devices \ departed, ReplacePlayer(from, to)
  PROVE  LedgerInv'
<1> DEFINE m == Len(plays)
           k == Len(currentTrick)
<1>1. /\ from \in Seated /\ to \notin Seated /\ Seated' = (Seated \ {from}) \cup {to}
      /\ Len(plays') = m /\ Len(currentTrick') = k /\ m \in Nat /\ k \in Nat
      /\ \A i \in 1..m : /\ plays'[i].card = plays[i].card
                         /\ plays'[i].handNumber = plays[i].handNumber
                         /\ plays'[i].deviceId = Rename(plays[i].deviceId, from, to)
      /\ \A i \in 1..k : /\ currentTrick'[i].card = currentTrick[i].card
                         /\ currentTrick'[i].deviceId = Rename(currentTrick[i].deviceId, from, to)
  BY ReplacedEntries
<1>2. departed' = departed \cup {from}
  BY DEF ReplacePlayer
<1>3. \A i \in 1..m : plays[i].deviceId # to /\ plays[i].deviceId \in Seated \cup departed
  BY <1>1 DEF LedgerInv, PlayersKnown
<1>4. \A i \in 1..k : currentTrick[i].deviceId # to
  BY <1>1, PileSeated
<1>5. PlayersKnown'
  BY <1>1, <1>2, <1>3 DEF PlayersKnown, Rename
<1>6. OncePerNumber'
  <2>1. \A i, j \in 1..m : plays'[i].deviceId = plays'[j].deviceId => plays[i].deviceId = plays[j].deviceId
    BY <1>1, <1>3 DEF Rename
  <2> QED BY <1>1, <2>1 DEF LedgerInv, OncePerNumber
<1>7. currentTrick # <<>> => m \in 1..m
  <2>1. currentTrick # <<>> => 1 \in 1..k
    BY DEF IInv, TypeOK
  <2>2. currentTrick # <<>> => \E j \in 1..m : TRUE
    BY <2>1 DEF LedgerInv, PileHasLastNumber
  <2> QED BY <1>1, <2>2
<1>8. currentTrick' # <<>> => currentTrick # <<>>
  BY <1>1, ReplacePlayerInv DEF IInv, TypeOK
<1>9. LastNumberIsPile'
  <2> SUFFICES ASSUME currentTrick' # <<>>, NEW i \in 1..m,
                      plays'[i].handNumber = plays'[m].handNumber, plays'[i].deviceId \in Seated'
               PROVE  \E q \in 1..k : currentTrick'[q].deviceId = plays'[i].deviceId
    BY <1>1 DEF LastNumberIsPile
  <2>1. plays[i].deviceId \in Seated
    BY <1>1, <1>3 DEF Rename
  <2>2. plays[i].handNumber = plays[m].handNumber
    BY <1>1, <1>7, <1>8
  <2>3. PICK q \in 1..k : currentTrick[q].deviceId = plays[i].deviceId
    BY <1>8, <2>1, <2>2 DEF LedgerInv, LastNumberIsPile
  <2> QED BY <1>1, <2>3
<1>10. PileHasLastNumber'
  <2> SUFFICES ASSUME NEW q \in 1..k
               PROVE  \E j \in 1..m : /\ plays'[j].deviceId = currentTrick'[q].deviceId
                                      /\ plays'[j].card = currentTrick'[q].card
                                      /\ plays'[j].handNumber = plays'[m].handNumber
    BY <1>1 DEF PileHasLastNumber
  <2>1. currentTrick # <<>>
    BY <1>1
  <2>2. PICK j \in 1..m : /\ plays[j].deviceId = currentTrick[q].deviceId
                          /\ plays[j].card = currentTrick[q].card
                          /\ plays[j].handNumber = plays[m].handNumber
    BY DEF LedgerInv, PileHasLastNumber
  <2> QED BY <1>1, <1>7, <2>1, <2>2
<1> QED BY <1>5, <1>6, <1>9, <1>10 DEF LedgerInv

\* removePlayer takes no card of another player off the table.
LEMMA RemovedPileKeeps ==
  ASSUME IInv, NEW d, RemovePlayer(d)
  PROVE  \A j \in 1..Len(currentTrick) : currentTrick[j].deviceId # d =>
           \E i \in 1..Len(currentTrick') : currentTrick'[i] = currentTrick[j]
<1>1. Len(currentTrick) \in Nat
  BY DEF IInv, TypeOK
<1>2. CASE \A i \in 1..Len(currentTrick) : currentTrick[i].deviceId # d
  <2>1. currentTrick' = currentTrick
    BY <1>2, RemovedPileCards
  <2> QED BY <2>1
<1>3. ASSUME NEW p \in 1..Len(currentTrick), currentTrick[p].deviceId = d,
             NEW j \in 1..Len(currentTrick), currentTrick[j].deviceId # d
      PROVE  \E i \in 1..Len(currentTrick') : currentTrick'[i] = currentTrick[j]
  <2>1. /\ Len(currentTrick') = Len(currentTrick) - 1
        /\ \A i \in 1..(Len(currentTrick) - 1) : currentTrick'[i] = currentTrick[Past(p, i)]
    BY <1>3, RemovedPileCards
  <2>2. j # p
    BY <1>3
  <2>3. CASE j < p
    <3>1. j \in 1..(Len(currentTrick) - 1) /\ Past(p, j) = j
      BY <1>1, <2>3 DEF Past
    <3> QED BY <2>1, <3>1
  <2>4. CASE j > p
    <3>1. j - 1 \in 1..(Len(currentTrick) - 1) /\ Past(p, j - 1) = j
      BY <1>1, <2>4 DEF Past
    <3> QED BY <2>1, <3>1
  <2> QED BY <2>2, <2>3, <2>4
<1> QED BY <1>2, <1>3

\* removePlayer keeps the ledger: what the seat played stays, its card on the table goes.
LEMMA RemoveLedger ==
  ASSUME IInv, LedgerInv, NEW d, RemovePlayer(d)
  PROVE  LedgerInv'
<1>1. plays' = plays /\ Seated' = Seated \ {d} /\ departed' = departed \cup {d}
  BY RemovedTable DEF RemovePlayer
<1>2. \A i \in 1..Len(currentTrick') : \E j \in 1..Len(currentTrick) : currentTrick'[i] = currentTrick[j]
  BY RemovedPileIsPart
<1>3. \A j \in 1..Len(currentTrick) : currentTrick[j].deviceId # d =>
        \E i \in 1..Len(currentTrick') : currentTrick'[i] = currentTrick[j]
  BY RemovedPileKeeps
<1>4. PlayersKnown' /\ OncePerNumber'
  BY <1>1 DEF LedgerInv, PlayersKnown, OncePerNumber
<1>5. LastNumberIsPile'
  <2> SUFFICES ASSUME currentTrick' # <<>>, NEW i \in 1..Len(plays),
                      plays[i].handNumber = plays[Len(plays)].handNumber,
                      plays[i].deviceId \in Seated \ {d}
               PROVE  \E k \in 1..Len(currentTrick') : currentTrick'[k].deviceId = plays[i].deviceId
    BY <1>1 DEF LastNumberIsPile
  <2>1. currentTrick # <<>>
    BY RemovedPileCards
  <2>2. PICK k \in 1..Len(currentTrick) : currentTrick[k].deviceId = plays[i].deviceId
    BY <2>1 DEF LedgerInv, LastNumberIsPile
  <2> QED BY <1>3, <2>2
<1>6. PileHasLastNumber'
  <2> SUFFICES ASSUME NEW i \in 1..Len(currentTrick')
               PROVE  \E j \in 1..Len(plays) :
                        /\ plays[j].deviceId = currentTrick'[i].deviceId
                        /\ plays[j].card = currentTrick'[i].card
                        /\ plays[j].handNumber = plays[Len(plays)].handNumber
    BY <1>1 DEF PileHasLastNumber
  <2>1. PICK k \in 1..Len(currentTrick) : currentTrick'[i] = currentTrick[k]
    BY <1>2
  <2> QED BY <2>1 DEF LedgerInv, PileHasLastNumber
<1> QED BY <1>4, <1>5, <1>6 DEF LedgerInv

\* Every step keeps the ledger.
LEMMA LedgerStep ==
  ASSUME IInv, CardsConserved, LedgerInv, [Next]_vars
  PROVE  LedgerInv'
<1>1. CASE \/ \E order \in SeatOrders : StartGame(order)
           \/ NewGame
           \/ ContinueGame
           \/ ResolvePendingTrick /\ phase' = "bidding"
  <2>1. plays' = <<>> /\ currentTrick' = <<>>
    BY <1>1, DealSteps DEF JustDealt
  <2>2. \A i \in 1..Len(plays') : FALSE
    BY <2>1
  <2>3. \A i \in 1..Len(currentTrick') : FALSE
    BY <2>1
  <2>4. PlayersKnown' /\ OncePerNumber'
    BY <2>2 DEF PlayersKnown, OncePerNumber
  <2>5. LastNumberIsPile' /\ PileHasLastNumber'
    BY <2>2, <2>3 DEF LastNumberIsPile, PileHasLastNumber
  <2> QED BY <2>4, <2>5 DEF LedgerInv
<1>2. CASE \/ \E d \in Seated, bid \in BidInput : PlaceBid(d, bid)
           \/ ResolvePendingTrick /\ phase' # "bidding"
           \/ UNCHANGED vars
  <2>1. UNCHANGED <<plays, departed>> /\ Seated' = Seated /\ currentTrick' \in {currentTrick, <<>>}
    BY <1>2, QuietSteps
  <2>2. PlayersKnown' /\ OncePerNumber'
    BY <2>1 DEF LedgerInv, PlayersKnown, OncePerNumber
  <2>3. LastNumberIsPile' /\ PileHasLastNumber'
    BY <2>1 DEF LedgerInv, LastNumberIsPile, PileHasLastNumber
  <2> QED BY <2>2, <2>3 DEF LedgerInv
<1>3. CASE \E d \in Seated : \E card \in hands[d] : PlayCard(d, card)
  BY <1>3, PlayLedger
<1>4. CASE \E from \in Leavers, to \in Devices \ departed : ReplacePlayer(from, to)
  BY <1>4, ReplaceLedger
<1>5. CASE \E d \in Leavers : RemovePlayer(d)
  BY <1>5, RemoveLedger
<1> QED BY <1>1, <1>2, <1>3, <1>4, <1>5 DEF Next, Play, SeatChange, Session

\* The ledger's invariant holds in every state of every game.
LEMMA LedgerInvariant == Spec => [](IInv /\ CardsConserved /\ LedgerInv)
<1>1. Init => LedgerInv
  BY DEF Init, LedgerInv, PlayersKnown, OncePerNumber, LastNumberIsPile, PileHasLastNumber
<1>2. IInv /\ CardsConserved /\ LedgerInv /\ [Next]_vars => LedgerInv'
  BY LedgerStep
<1> QED BY <1>1, <1>2, Invariant, NoCardTwice, PTL DEF Spec

\* A hand number marks one hand (playCard 218-226): it never decreases along the
\* ledger, nobody plays twice under it, and the pile carries the last one, whichever
\* seats changed hands or left.
THEOREM NumbersMarkHands == Spec => []HandNumbersMarkHands
<1>1. IInv /\ LedgerInv => HandNumbersMarkHands
  BY DEF IInv, NumbersOrdered, LedgerInv, OncePerNumber, PileHasLastNumber, HandNumbersMarkHands
<1> QED BY <1>1, LedgerInvariant, PTL

-------------------------------------------------------------------------------
(* How many cards the players hold.                                        *)

OwnPlays(d) == {i \in 1..Len(plays) : plays[i].deviceId = d}
InPile(d) == \E i \in 1..Len(currentTrick) : currentTrick[i].deviceId = d
Holding(d) == Cardinality(hands[d]) + (IF InPile(d) THEN 1 ELSE 0)

HandsFinite == \A d \in Seated : IsFiniteSet(hands[d])

\* Everyone begins a round with all the cards of the round, and holds or has on the
\* table as many as everyone else, at least one, until the hand is resolved.
HandsEven ==
  /\ phase = "bidding" => \A d \in Seated : Cardinality(hands[d]) = HandSize(round)
  /\ phase = "trick" => \A d, e \in Seated : Holding(d) = Holding(e) /\ Holding(d) >= 1

HandsInv == HandsFinite /\ HandsEven

\* Everyone has a card in a full pile.
LEMMA FullPile ==
  ASSUME IInv, IsTrickComplete
  PROVE  \A d \in Seated : InPile(d)
<1> DEFINE n == Len(seatOrder)
<1>1. IsSeating(seatOrder) /\ n \in Nat /\ n >= 2 /\ Len(currentTrick) = n
  BY BidOrderSeating DEF IsTrickComplete
<1>2. PICK leader \in 0..(n - 1) :
        \A i \in 1..n : currentTrick[i].deviceId = OrderFrom(seatOrder, leader)[i]
  BY <1>1 DEF IInv, PileFollowsSeats, IsTrickComplete
<1>3. /\ Len(OrderFrom(seatOrder, leader)) = n
      /\ SeatsOf(OrderFrom(seatOrder, leader)) = Seated
  BY <1>1, RotationSeating DEF Seated
<1>4. \A d \in Seated : \E i \in 1..n : OrderFrom(seatOrder, leader)[i] = d
  BY <1>3 DEF SeatsOf
<1> QED BY <1>1, <1>2, <1>4 DEF InPile

\* What a step of play does to the hands: a card goes from the hand to the table.
LEMMA PlayHands ==
  ASSUME IInv, HandsInv, NEW d \in Seated, NEW card \in hands[d], PlayCard(d, card)
  PROVE  /\ Seated' = Seated /\ ~InPile(d) /\ InPile(d)'
         /\ Cardinality(hands[d]) \in Nat
         /\ IsFiniteSet(hands'[d]) /\ Cardinality(hands'[d]) = Cardinality(hands[d]) - 1
         /\ \A e \in Seated \ {d} : hands'[e] = hands[e] /\ (InPile(e)' <=> InPile(e))
<1> DEFINE k == Len(currentTrick)
<1>1. /\ Seated' = Seated
      /\ hands' = [hands EXCEPT ![d] = @ \ {card}]
      /\ currentTrick' = Append(currentTrick, [deviceId |-> d, card |-> card])
  BY DEF PlayCard, Seated, seating
<1>2. hands \in [Seated -> SUBSET Card] /\ currentTrick \in Seq(PlayedCard) /\ k \in Nat
  BY DEF IInv, TypeOK
<1>3. /\ Len(currentTrick') = k + 1 /\ currentTrick'[k + 1].deviceId = d
      /\ \A i \in 1..k : currentTrick'[i] = currentTrick[i]
  BY <1>1, <1>2
<1>4. /\ \A i \in 1..(k + 1) : i \in 1..k \/ i = k + 1
      /\ \A i \in 1..k : i \in 1..(k + 1)
      /\ k + 1 \in 1..(k + 1)
  BY <1>2
<1>5. ~InPile(d) /\ InPile(d)' /\ \A e \in Seated \ {d} : (InPile(e)' <=> InPile(e))
  BY <1>3, <1>4, PlaysOnce DEF InPile
<1>6. hands'[d] = hands[d] \ {card} /\ \A e \in Seated \ {d} : hands'[e] = hands[e]
  BY <1>1, <1>2
<1>7. /\ Cardinality(hands[d]) \in Nat
      /\ IsFiniteSet(hands'[d]) /\ Cardinality(hands'[d]) = Cardinality(hands[d]) - 1
  BY <1>6, FS_RemoveElement, FS_CardinalityType DEF HandsInv, HandsFinite
<1> QED BY <1>1, <1>5, <1>6, <1>7

\* playCard keeps the hands even.
LEMMA PlayKeepsHands ==
  ASSUME IInv, HandsInv, NEW d \in Seated, NEW card \in hands[d], PlayCard(d, card)
  PROVE  HandsInv' /\ \A e \in Seated : Holding(e)' = Holding(e)
<1>1. /\ Seated' = Seated /\ ~InPile(d) /\ InPile(d)'
      /\ Cardinality(hands[d]) \in Nat
      /\ IsFiniteSet(hands'[d]) /\ Cardinality(hands'[d]) = Cardinality(hands[d]) - 1
      /\ \A e \in Seated \ {d} : hands'[e] = hands[e] /\ (InPile(e)' <=> InPile(e))
  BY PlayHands
<1>2. phase = "trick" /\ phase' = "trick"
  BY DEF PlayCard
<1>3. HandsFinite'
  BY <1>1 DEF HandsInv, HandsFinite
<1>4. \A e \in Seated : Holding(e)' = Holding(e)
  BY <1>1 DEF Holding
<1> QED BY <1>1, <1>2, <1>3, <1>4 DEF HandsInv, HandsEven

\* placeBid keeps the hands even, also the bid that ends the auction.
LEMMA BidKeepsHands ==
  ASSUME IInv, HandsInv, NEW d \in Seated, NEW bid, PlaceBid(d, bid)
  PROVE  HandsInv' /\ \A e \in Seated : Holding(e)' = HandSize(round)
<1>1. /\ UNCHANGED <<hands, currentTrick, round>> /\ Seated' = Seated
      /\ phase = "bidding" /\ phase' \in {"bidding", "trick"}
  BY DEF PlaceBid, seating, Seated
<1>2. currentTrick = <<>> /\ HandSize(round) \in Nat /\ HandSize(round) >= 1
  BY <1>1, HandSizeBounds DEF IInv, TypeOK, TableSeated
<1>3. \A e \in Seated : ~InPile(e)' /\ Cardinality(hands[e]) = HandSize(round)
  BY <1>1, <1>2 DEF InPile, HandsInv, HandsEven
<1>4. \A e \in Seated : Holding(e)' = HandSize(round)
  BY <1>1, <1>2, <1>3 DEF Holding
<1> QED BY <1>1, <1>2, <1>3, <1>4 DEF HandsInv, HandsEven, HandsFinite

\* A hand that does not end the round leaves everyone the same number of cards.
LEMMA ResolveKeepsHands ==
  ASSUME IInv, HandsInv, ResolvePendingTrick, phase' # "bidding"
  PROVE  HandsInv'
<1>1. phase = "trick" /\ UNCHANGED hands /\ Seated' = Seated
  BY QuietSteps DEF ResolvePendingTrick, IsTrickComplete
<1>2. CASE phase' # "trick"
  BY <1>1, <1>2 DEF HandsInv, HandsEven, HandsFinite
<1>3. CASE phase' = "trick"
  <2>1. ~(\A d \in DOMAIN hands : hands[d] = {}) /\ currentTrick' = <<>>
    BY <1>3 DEF ResolvePendingTrick, FinishRound, BuildRound
  <2>2. PICK f \in Seated : hands[f] # {}
    BY <2>1 DEF IInv, TypeOK
  <2>3. \A d \in Seated : Cardinality(hands[d]) \in Nat
    BY FS_CardinalityType DEF HandsInv, HandsFinite
  <2>4. Cardinality(hands[f]) >= 1
    BY <2>2, <2>3, FS_EmptySet DEF HandsInv, HandsFinite
  <2>5. \A d, e \in Seated : Holding(d) = Holding(e)
    BY <1>1 DEF HandsInv, HandsEven
  <2>6. \A d \in Seated : Holding(d) = Cardinality(hands[d]) + 1
    BY FullPile DEF Holding, ResolvePendingTrick
  <2>7. \A d \in Seated : Cardinality(hands[d]) = Cardinality(hands[f])
    BY <2>3, <2>5, <2>6
  <2>8. \A d \in Seated : Holding(d)' = Cardinality(hands[f])
    BY <1>1, <2>1, <2>3, <2>7 DEF Holding, InPile
  <2> QED BY <1>1, <1>3, <2>4, <2>8 DEF HandsInv, HandsEven, HandsFinite
<1> QED BY <1>2, <1>3

\* replacePlayer keeps the hands even: the newcomer holds what its predecessor held.
LEMMA ReplaceKeepsHands ==
  ASSUME IInv, HandsInv, NEW from, NEW to \in Devices, ReplacePlayer(from, to)
  PROVE  HandsInv'
<1> DEFINE Back(d) == IF d = to THEN from ELSE d
           k == Len(currentTrick)
<1>1. /\ from \in Seated /\ to \notin Seated /\ Seated' = (Seated \ {from}) \cup {to}
      /\ Len(currentTrick') = k
      /\ \A i \in 1..k : currentTrick'[i].deviceId = Rename(currentTrick[i].deviceId, from, to)
  BY ReplacedEntries
<1>2. \A d \in Seated' : Back(d) \in Seated /\ hands'[d] = hands[Back(d)]
  BY <1>1, ReplacedHands
<1>3. \A i \in 1..k : currentTrick[i].deviceId # to
  BY <1>1, PileSeated
<1>4. \A d \in Seated' : InPile(d)' <=> InPile(Back(d))
  BY <1>1, <1>3 DEF InPile, Rename
<1>5. UNCHANGED <<phase, round>>
  BY DEF ReplacePlayer
<1> HIDE DEF Back
<1>6. \A d \in Seated' : Holding(d)' = Holding(Back(d))
  BY <1>2, <1>4 DEF Holding
<1> QED BY <1>2, <1>5, <1>6 DEF HandsInv, HandsEven, HandsFinite

\* removePlayer keeps the hands even, also when it ends the auction.
LEMMA RemoveKeepsHands ==
  ASSUME IInv, HandsInv, NEW d, RemovePlayer(d)
  PROVE  HandsInv'
<1>1. Seated' = Seated \ {d} /\ hands' = RemoveKey(hands, d) /\ round' = round
  BY RemovedTable DEF RemovePlayer
<1>2. \A e \in Seated' : e \in Seated /\ e # d /\ hands'[e] = hands[e]
  BY <1>1 DEF RemoveKey, IInv, TypeOK
<1>3. \A e \in Seated' : InPile(e)' <=> InPile(e)
  <2>1. \A i \in 1..Len(currentTrick') : \E j \in 1..Len(currentTrick) : currentTrick'[i] = currentTrick[j]
    BY RemovedPileIsPart
  <2>2. \A j \in 1..Len(currentTrick) : currentTrick[j].deviceId # d =>
          \E i \in 1..Len(currentTrick') : currentTrick'[i] = currentTrick[j]
    BY RemovedPileKeeps
  <2> QED BY <1>2, <2>1, <2>2 DEF InPile
<1>4. \A e \in Seated' : Holding(e)' = Holding(e)
  BY <1>2, <1>3 DEF Holding
<1>5. HandsFinite'
  BY <1>2 DEF HandsInv, HandsFinite
<1>6. CASE phase = "bidding"
  <2>1. phase' \in {"bidding", "trick"}
    BY <1>6 DEF RemovePlayer, RemoveWhileBidding, RemoveWhilePlaying, RemoveAtGameEnd
  <2>2. currentTrick = <<>> /\ HandSize(round) \in Nat /\ HandSize(round) >= 1
    BY <1>6, HandSizeBounds DEF IInv, TypeOK, TableSeated
  <2>3. \A e \in Seated' : Cardinality(hands'[e]) = HandSize(round')
    BY <1>1, <1>2, <1>6 DEF HandsInv, HandsEven
  <2>4. \A e \in Seated' : Holding(e)' = HandSize(round)
    BY <1>1, <1>3, <2>2, <2>3 DEF Holding, InPile
  <2> QED BY <1>5, <2>2, <2>3, <2>4 DEF HandsInv, HandsEven
<1>7. CASE phase = "trick"
  <2>1. phase' = "trick"
    BY <1>7 DEF RemovePlayer, RemoveWhileBidding, RemoveWhilePlaying, RemoveAtGameEnd
  <2> QED BY <1>2, <1>4, <1>5, <1>7, <2>1 DEF HandsInv, HandsEven
<1>8. CASE phase = "game-end"
  <2>1. phase' = "game-end"
    BY <1>8 DEF RemovePlayer, RemoveWhileBidding, RemoveWhilePlaying, RemoveAtGameEnd
  <2> QED BY <1>5, <2>1 DEF HandsInv, HandsEven
<1> QED BY <1>6, <1>7, <1>8 DEF RemovePlayer, RemoveWhileBidding, RemoveWhilePlaying, RemoveAtGameEnd

\* Every step keeps the hands even.
LEMMA HandsStep ==
  ASSUME IInv, HandsInv, [Next]_vars
  PROVE  HandsInv'
<1>1. CASE \/ \E order \in SeatOrders : StartGame(order)
           \/ NewGame
           \/ ContinueGame
           \/ ResolvePendingTrick /\ phase' = "bidding"
  BY <1>1, DealSteps DEF JustDealt, HandsInv, HandsFinite, HandsEven
<1>2. CASE \E d \in Seated, bid \in BidInput : PlaceBid(d, bid)
  BY <1>2, BidKeepsHands
<1>3. CASE ResolvePendingTrick /\ phase' # "bidding"
  BY <1>3, ResolveKeepsHands
<1>4. CASE \E d \in Seated : \E card \in hands[d] : PlayCard(d, card)
  BY <1>4, PlayKeepsHands
<1>5. CASE \E from \in Leavers, to \in Devices \ departed : ReplacePlayer(from, to)
  BY <1>5, ReplaceKeepsHands
<1>6. CASE \E d \in Leavers : RemovePlayer(d)
  BY <1>6, RemoveKeepsHands
<1>7. CASE UNCHANGED vars
  <2>1. UNCHANGED <<phase, round, hands, currentTrick>> /\ Seated' = Seated
    BY <1>7 DEF vars, seating, Seated
  <2>2. \A d \in Seated : Holding(d)' = Holding(d)
    BY <2>1 DEF Holding, InPile
  <2> QED BY <2>1, <2>2 DEF HandsInv, HandsFinite, HandsEven
<1> QED BY <1>1, <1>2, <1>3, <1>4, <1>5, <1>6, <1>7 DEF Next, Play, SeatChange, Session

\* In every state the hands are finite and even.
LEMMA HandsInvariant == Spec => [](IInv /\ HandsInv)
<1>1. Init => HandsInv
  BY DEF Init, HandsInv, HandsFinite, HandsEven, Seated, SeatsOf
<1>2. IInv /\ HandsInv /\ [Next]_vars => HandsInv'
  BY HandsStep
<1> QED BY <1>1, <1>2, Invariant, PTL DEF Spec

\* One of the two legal bids is not the forbidden one, and a player with no card on the
\* table holds one.
LEMMA ActorMoves ==
  ASSUME IInv, HandsInv
  PROVE  ActorCanMove
<1>1. ASSUME phase = "bidding"
      PROVE  \E bid \in 0..MaxBid(round) : ~DealerRestricted(bidOrder[bidTurnIndex + 1], bid)
  <2>1. 0 \in 0..MaxBid(round) /\ 1 \in 0..MaxBid(round)
    BY HandSizeBounds DEF MaxBid, IInv, TypeOK
  <2> QED BY <2>1 DEF DealerRestricted
<1>2. ASSUME phase = "trick", ~IsTrickComplete
      PROVE  LegalCards(seatOrder[turnSeat + 1]) # {}
  <2> DEFINE d == seatOrder[turnSeat + 1]
  <2>1. turnSeat \in 0..(Len(seatOrder) - 1) /\ ~InPile(d)
    BY <1>2, ActorNotInPile DEF InPile
  <2>2. d \in Seated
    BY <1>2, <2>1, BidOrderSeating DEF Seated, SeatsOf
  <2> HIDE DEF d
  <2>3. Holding(d) = Cardinality(hands[d]) + 0 /\ Holding(d) >= 1
    BY <1>2, <2>1, <2>2 DEF Holding, HandsInv, HandsEven
  <2>4. hands[d] # {}
    BY <2>3, FS_EmptySet
  <2> QED BY <2>4 DEF LegalCards, d
<1> QED BY <1>1, <1>2 DEF ActorCanMove, HandsInv, HandsEven, Holding, InPile

\* Whoever is to move has a legal move: placeBid (142-149) forbids the dealer one bid
\* and leaves it another, and the hands run out together, whichever seats changed
\* hands or left, so resolvePendingTrick (268) tells the end of a round by them.
THEOREM TableNeverStuck == Spec => []ActorCanMove
<1>1. IInv /\ HandsInv => ActorCanMove
  BY ActorMoves
<1> QED BY <1>1, HandsInvariant, PTL

-------------------------------------------------------------------------------
(* What every player was dealt is in its hand or in the ledger.            *)

\* A player's entries in the ledger are finitely many.
LEMMA OwnPlaysFinite ==
  ASSUME IInv, NEW d
  PROVE  IsFiniteSet(OwnPlays(d)) /\ Cardinality(OwnPlays(d)) \in Nat
<1> DEFINE m == Len(plays)
<1>1. m \in Int /\ 1 \in Int
  BY DEF IInv, TypeOK
<1> HIDE DEF m
<1>2. IsFiniteSet(1..m)
  BY <1>1, FS_Interval
<1>3. OwnPlays(d) \in SUBSET (1..m)
  BY DEF OwnPlays, m
<1> QED BY <1>2, <1>3, FS_Subset, FS_CardinalityType

\* Hand and ledger of a player together.
Accounted(d) == Cardinality(hands[d]) + Cardinality(OwnPlays(d))

\* playCard moves one card from the hand to the ledger.
LEMMA PlayAccounts ==
  ASSUME IInv, HandsInv, NEW d \in Seated, NEW card \in hands[d], PlayCard(d, card),
         NEW e \in Seated
  PROVE  Accounted(e)' = Accounted(e)
<1> DEFINE lead == IF currentTrick = <<>> THEN card.suit ELSE LeadSuit
           entry == [handNumber |-> HandNumber, deviceId |-> d, card |-> card, leadSuit |-> lead]
           m == Len(plays)
<1>1. plays' = Append(plays, entry) /\ plays \in Seq(LedgerEntry) /\ m \in Nat
  BY DEF PlayCard, IInv, TypeOK
<1>2. entry.deviceId = d
  OBVIOUS
<1> HIDE DEF entry
<1>3. /\ Len(plays') = m + 1 /\ plays'[m + 1] = entry
      /\ \A i \in 1..m : plays'[i] = plays[i]
  BY <1>1
<1>4. /\ \A i \in 1..(m + 1) : i \in 1..m \/ i = m + 1
      /\ \A i \in 1..m : i \in 1..(m + 1)
      /\ m + 1 \in 1..(m + 1) /\ m + 1 \notin 1..m
  BY <1>1
<1>5. /\ Cardinality(hands[d]) \in Nat
      /\ Cardinality(hands'[d]) = Cardinality(hands[d]) - 1
      /\ \A f \in Seated \ {d} : hands'[f] = hands[f]
  BY PlayHands
<1>6. IsFiniteSet(OwnPlays(e)) /\ Cardinality(OwnPlays(e)) \in Nat
  BY OwnPlaysFinite
<1>7. CASE e = d
  <2>1. OwnPlays(e)' = OwnPlays(e) \cup {m + 1} /\ m + 1 \notin OwnPlays(e)
    BY <1>2, <1>3, <1>4, <1>7 DEF OwnPlays
  <2>2. Cardinality(OwnPlays(e)') = Cardinality(OwnPlays(e)) + 1
    BY <1>6, <2>1, FS_AddElement
  <2> QED BY <1>5, <1>6, <1>7, <2>2 DEF Accounted
<1>8. CASE e # d
  <2>1. OwnPlays(e)' = OwnPlays(e)
    BY <1>2, <1>3, <1>4, <1>8 DEF OwnPlays
  <2> QED BY <1>5, <1>8, <2>1 DEF Accounted
<1> QED BY <1>7, <1>8

\* replacePlayer hands the entries of a seat on with its cards.
LEMMA ReplaceAccounts ==
  ASSUME IInv, LedgerInv, NEW from, NEW to \in Devices \ departed, ReplacePlayer(from, to),
         NEW d \in Seated'
  PROVE  \E e \in Seated : Accounted(d)' = Accounted(e)
<1> DEFINE m == Len(plays)
           e == IF d = to THEN from ELSE d
<1>1. /\ from \in Seated /\ to \notin Seated /\ Seated' = (Seated \ {from}) \cup {to}
      /\ Len(plays') = m
      /\ \A i \in 1..m : plays'[i].deviceId = Rename(plays[i].deviceId, from, to)
  BY ReplacedEntries
<1>2. \A i \in 1..m : plays[i].deviceId # to
  BY <1>1 DEF LedgerInv, PlayersKnown
<1>3. e \in Seated /\ hands'[d] = hands[e]
  BY <1>1, ReplacedHands
<1>4. OwnPlays(d)' = OwnPlays(e)
  <2>1. \A i \in 1..m : plays'[i].deviceId = d <=> plays[i].deviceId = e
    BY <1>1, <1>2 DEF Rename
  <2> HIDE DEF e
  <2> QED BY <1>1, <2>1 DEF OwnPlays
<1> HIDE DEF e
<1> QED BY <1>3, <1>4 DEF Accounted

\* Every step keeps the ledger complete that is marked so.
LEMMA LedgerCompleteStep ==
  ASSUME IInv, LedgerInv, HandsInv, LedgerComplete, [Next]_vars
  PROVE  LedgerComplete'
<1> USE DEF LedgerComplete
<1>1. historyComplete => \A d \in Seated : Accounted(d) = HandSize(round)
  BY DEF Accounted, OwnPlays
<1> SUFFICES historyComplete' => \A d \in Seated' : Accounted(d)' = HandSize(round')
  BY DEF Accounted, OwnPlays, HandSize
<1>2. CASE \/ \E order \in SeatOrders : StartGame(order)
           \/ NewGame
           \/ ContinueGame
           \/ ResolvePendingTrick /\ phase' = "bidding"
  <2>1. /\ \A d \in Seated' : IsFiniteSet(hands'[d]) /\ Cardinality(hands'[d]) = HandSize(round')
        /\ plays' = <<>>
    BY <1>2, DealSteps DEF JustDealt, HandSize
  <2>2. \A d : OwnPlays(d)' = {}
    BY <2>1 DEF OwnPlays
  <2>3. \A d \in Seated' : Cardinality(hands'[d]) \in Nat
    BY <2>1, FS_CardinalityType
  <2> QED BY <2>1, <2>2, <2>3, FS_EmptySet DEF Accounted
<1>3. CASE \/ \E d \in Seated, bid \in BidInput : PlaceBid(d, bid)
           \/ ResolvePendingTrick /\ phase' # "bidding"
           \/ UNCHANGED vars
  <2>1. UNCHANGED <<round, hands, plays, historyComplete>> /\ Seated' = Seated
    BY <1>3, QuietSteps
  <2>2. \A d \in Seated : Accounted(d)' = Accounted(d)
    BY <2>1 DEF Accounted, OwnPlays
  <2> QED BY <1>1, <2>1, <2>2
<1>4. ASSUME NEW d \in Seated, NEW card \in hands[d], PlayCard(d, card)
      PROVE  historyComplete' => \A e \in Seated' : Accounted(e)' = HandSize(round')
  <2>1. UNCHANGED <<round, historyComplete>> /\ Seated' = Seated
    BY <1>4 DEF PlayCard, seating, Seated
  <2>2. \A e \in Seated : Accounted(e)' = Accounted(e)
    BY <1>4, PlayAccounts
  <2> QED BY <1>1, <2>1, <2>2
<1>5. ASSUME NEW from \in Leavers, NEW to \in Devices \ departed, ReplacePlayer(from, to)
      PROVE  historyComplete' => \A e \in Seated' : Accounted(e)' = HandSize(round')
  <2>1. UNCHANGED <<round, historyComplete>>
    BY <1>5 DEF ReplacePlayer
  <2>2. \A d \in Seated' : \E e \in Seated : Accounted(d)' = Accounted(e)
    BY <1>5, ReplaceAccounts
  <2> QED BY <1>1, <2>1, <2>2
<1>6. ASSUME NEW d \in Leavers, RemovePlayer(d)
      PROVE  historyComplete' => \A e \in Seated' : Accounted(e)' = HandSize(round')
  <2>1. Seated' = Seated \ {d} /\ hands' = RemoveKey(hands, d)
        /\ UNCHANGED <<round, plays, historyComplete>>
    BY <1>6, RemovedTable DEF RemovePlayer
  <2>2. \A e \in Seated' : e \in Seated /\ hands'[e] = hands[e]
    BY <2>1 DEF RemoveKey, IInv, TypeOK
  <2>3. \A e \in Seated' : Accounted(e)' = Accounted(e)
    BY <2>1, <2>2 DEF Accounted, OwnPlays
  <2> QED BY <1>1, <2>1, <2>2, <2>3
<1> QED BY <1>2, <1>3, <1>4, <1>5, <1>6 DEF Next, Play, SeatChange, Session

\* A ledger marked complete accounts for every card a seated player was dealt, also
\* after its seat changed hands (playCard 227-236, replacePlayer): a newcomer has no
\* entry of its own, because whoever gave up a seat never takes one again.
THEOREM NothingMissing == Spec => []LedgerComplete
<1>1. Init => LedgerComplete
  BY DEF Init, LedgerComplete, Seated, SeatsOf
<1>2. IInv /\ LedgerInv /\ HandsInv /\ LedgerComplete /\ [Next]_vars => LedgerComplete'
  BY LedgerCompleteStep
<1> QED BY <1>1, <1>2, LedgerInvariant, HandsInvariant, PTL DEF Spec

-------------------------------------------------------------------------------
(* Sums along a sequence.                                                  *)

\* t[i] is the sum of the first i elements of s.
RunningTotal(t, s, n) ==
  /\ t \in [0..n -> Int] /\ t[0] = 0
  /\ \A i \in 1..n : t[i] = t[i - 1] + s[i]

\* A set of numbers that leaves out 0 has a number that follows one left out.
LEMMA FirstOf ==
  ASSUME NEW n \in Nat, NEW Bad, Bad \subseteq 0..n, 0 \notin Bad, Bad # {}
  PROVE  \E m \in 1..n : m \in Bad /\ m - 1 \in 0..n /\ m - 1 \notin Bad
<1>1. Bad \subseteq Nat
  OBVIOUS
<1>2. PICK m \in Bad : \A y \in Bad : m <= y
  BY <1>1, LeastExists
<1>3. m \in 1..n /\ m - 1 \in 0..n
  OBVIOUS
<1> QED BY <1>2, <1>3

\* Every sequence of integers has running totals.
LEMMA RunningTotalExists ==
  ASSUME NEW n \in Nat, NEW s, \A i \in 1..n : s[i] \in Int
  PROVE  \E t : RunningTotal(t, s, n)
<1> DEFINE Bad == {m \in 0..n : ~(\E t : RunningTotal(t, s, m))}
<1>1. SUFFICES Bad = {}
  OBVIOUS
<1>2. SUFFICES ASSUME Bad # {} PROVE FALSE
  OBVIOUS
<1>3. 0 \notin Bad
  <2>1. RunningTotal([i \in 0..0 |-> 0], s, 0)
    BY DEF RunningTotal
  <2> QED BY <2>1
<1>4. Bad \subseteq 0..n
  OBVIOUS
<1> HIDE DEF Bad
<1>5. PICK m \in 1..n : m \in Bad /\ m - 1 \in 0..n /\ m - 1 \notin Bad
  BY <1>2, <1>3, <1>4, FirstOf
<1> USE DEF Bad
<1>6. PICK t : RunningTotal(t, s, m - 1)
  BY <1>5
<1> DEFINE u == [i \in 0..m |-> IF i = m THEN t[m - 1] + s[m] ELSE t[i]]
<1>7. t[m - 1] \in Int /\ s[m] \in Int
  BY <1>5, <1>6 DEF RunningTotal
<1>8. u \in [0..m -> Int] /\ u[0] = 0
  BY <1>5, <1>6, <1>7 DEF RunningTotal
<1>9. \A i \in 1..m : u[i] = u[i - 1] + s[i]
  BY <1>5, <1>6, <1>7 DEF RunningTotal
<1>10. RunningTotal(u, s, m)
  BY <1>8, <1>9 DEF RunningTotal
<1> QED BY <1>5, <1>10

\* A sum is the last of the running totals.
LEMMA SumIsTotal ==
  ASSUME NEW s, Len(s) \in Nat, NEW t, RunningTotal(t, s, Len(s))
  PROVE  SumOf(s) = t[Len(s)]
<1> DEFINE n == Len(s)
           Eq(f) == f = [i \in 0..n |-> IF i = 0 THEN 0 ELSE f[i - 1] + s[i]]
<1>1. Eq(t)
  BY DEF RunningTotal
<1>2. \A f : Eq(f) => f = t
  <2> SUFFICES ASSUME NEW f, Eq(f) PROVE f = t
    OBVIOUS
  <2>1. f[0] = 0 /\ \A i \in 1..n : f[i] = f[i - 1] + s[i]
    OBVIOUS
  <2> DEFINE Bad == {m \in 0..n : f[m] # t[m]}
  <2>2. Bad = {}
    <3> SUFFICES ASSUME Bad # {} PROVE FALSE
      OBVIOUS
    <3>1. Bad \subseteq 0..n /\ 0 \notin Bad
      BY <2>1 DEF RunningTotal
    <3>2. PICK m \in 1..n : m \in Bad /\ m - 1 \in 0..n /\ m - 1 \notin Bad
      <4> HIDE DEF Bad, Eq
      <4> QED BY <3>1, FirstOf
    <3> QED BY <2>1, <3>2 DEF RunningTotal
  <2>3. \A m \in 0..n : f[m] = t[m]
    BY <2>2
  <2> QED BY <2>3 DEF RunningTotal
<1>3. SumOf(s) = (CHOOSE f : Eq(f))[n]
  BY DEF SumOf
<1> HIDE DEF Eq
<1> QED BY <1>1, <1>2, <1>3

\* A sum to which one place contributes `more`.
Bumped(s, r, n, p, more) ==
  /\ n \in Nat /\ Len(s) = n /\ Len(r) = n /\ p \in 1..n /\ more \in Int
  /\ \A i \in 1..n : s[i] \in Int /\ r[i] = IF i = p THEN s[i] + more ELSE s[i]

\* A sequence that differs in one place has a sum that differs by as much.
LEMMA SumBumped ==
  ASSUME NEW s, NEW r, NEW n, NEW p, NEW more, Bumped(s, r, n, p, more)
  PROVE  SumOf(r) = SumOf(s) + more
<1> USE DEF Bumped
<1>1. PICK t : RunningTotal(t, s, n)
  BY RunningTotalExists
<1> DEFINE u == [i \in 0..n |-> IF i < p THEN t[i] ELSE t[i] + more]
<1>2. \A i \in 0..n : t[i] \in Int
  BY <1>1 DEF RunningTotal
<1>3. u \in [0..n -> Int] /\ u[0] = 0
  BY <1>1, <1>2 DEF RunningTotal
<1>4. ASSUME NEW i \in 1..n PROVE u[i] = u[i - 1] + r[i]
  <2>1. i - 1 \in 0..n /\ i \in 0..n /\ t[i] = t[i - 1] + s[i]
    BY <1>1 DEF RunningTotal
  <2>2. t[i] \in Int /\ t[i - 1] \in Int /\ s[i] \in Int
    BY <1>2, <2>1
  <2> QED BY <2>1, <2>2, SMTT(30)
<1> HIDE DEF u
<1>5. RunningTotal(u, r, n)
  BY <1>3, <1>4 DEF RunningTotal
<1>6. SumOf(s) = t[n] /\ SumOf(r) = u[n]
  BY <1>1, <1>5, SumIsTotal
<1> QED BY <1>6 DEF u

\* A sum to which one more element is added.
LEMMA SumAppended ==
  ASSUME NEW n \in Nat, NEW s, NEW r, Len(s) = n, Len(r) = n + 1,
         \A i \in 1..n : s[i] \in Int /\ r[i] = s[i], r[n + 1] \in Int
  PROVE  SumOf(r) = SumOf(s) + r[n + 1]
<1>1. PICK t : RunningTotal(t, s, n)
  BY RunningTotalExists
<1> DEFINE u == [i \in 0..(n + 1) |-> IF i = n + 1 THEN t[n] + r[n + 1] ELSE t[i]]
<1>2. u \in [0..(n + 1) -> Int] /\ u[0] = 0
  BY <1>1 DEF RunningTotal
<1>3. ASSUME NEW i \in 1..(n + 1) PROVE u[i] = u[i - 1] + r[i]
  <2>1. CASE i \in 1..n
    BY <1>1, <2>1 DEF RunningTotal
  <2>2. CASE i = n + 1
    BY <2>2
  <2> QED BY <2>1, <2>2
<1>4. u[n + 1] = t[n] + r[n + 1]
  OBVIOUS
<1> HIDE DEF u
<1>5. RunningTotal(u, r, n + 1) /\ n + 1 \in Nat
  BY <1>2, <1>3 DEF RunningTotal
<1>6. SumOf(s) = t[n] /\ SumOf(r) = u[n + 1]
  BY <1>1, <1>5, SumIsTotal
<1> QED BY <1>4, <1>6

\* A sum of zeros, or of nothing.
LEMMA SumOfZeros ==
  ASSUME NEW s, Len(s) \in Nat, \A i \in 1..Len(s) : s[i] = 0
  PROVE  SumOf(s) = 0
<1> DEFINE t == [i \in 0..Len(s) |-> 0]
<1>1. RunningTotal(t, s, Len(s))
  BY DEF RunningTotal
<1> QED BY <1>1, SumIsTotal

\* A sum of integers is one.
LEMMA SumIsInt ==
  ASSUME NEW s, Len(s) \in Nat, \A i \in 1..Len(s) : s[i] \in Int
  PROVE  SumOf(s) \in Int
<1>1. PICK t : RunningTotal(t, s, Len(s))
  BY RunningTotalExists
<1>2. SumOf(s) = t[Len(s)]
  BY <1>1, SumIsTotal
<1> QED BY <1>1, <1>2 DEF RunningTotal

-------------------------------------------------------------------------------
(* The scoresheet.                                                         *)

RowScores(d) == [i \in 1..Len(roundHistory) |-> roundHistory[i][d].roundScore]

\* The hands won, with the one that is being resolved.
TricksWith(winner) == [tricksWon EXCEPT ![winner] = @ + 1]

\* What the end of a round does to the sheet (finishRound).
LEMMA FinishedSheet ==
  ASSUME IInv, ResolvePendingTrick, \A d \in Seated : hands[d] = {}
  PROVE  /\ UNCHANGED <<seatOrder, carried, departed>> /\ Seated' = Seated
         /\ Winner \in Seated
         /\ Len(roundHistory) \in Nat /\ Len(roundHistory') = Len(roundHistory) + 1
         /\ \A i \in 1..Len(roundHistory) : roundHistory'[i] = roundHistory[i]
         /\ DOMAIN roundHistory'[Len(roundHistory) + 1] = Seated
         /\ \A d \in Seated :
              /\ roundHistory'[Len(roundHistory) + 1][d].bid = Bid(d)
              /\ roundHistory'[Len(roundHistory) + 1][d].tricksWon = TricksWith(Winner)[d]
              /\ roundHistory'[Len(roundHistory) + 1][d].roundScore \in Int
              /\ scores'[d] = scores[d] + roundHistory'[Len(roundHistory) + 1][d].roundScore
         /\ phase' \in {"bidding", "game-end"}
         /\ phase' = "game-end" => donkeys' = Lowest(scores')
<1> DEFINE tricks == TricksWith(Winner)
           results == [d \in Seated |-> [bid |-> Bid(d), tricksWon |-> tricks[d],
                                         roundScore |-> RoundScore(Bid(d), tricks[d])]]
           n == Len(roundHistory)
<1>1. FinishRound(tricks)
  BY DEF ResolvePendingTrick, TricksWith, IInv, TypeOK
<1>2. /\ scores' = [d \in Seated |-> scores[d] + results[d].roundScore]
      /\ roundHistory' = Append(roundHistory, results)
      /\ UNCHANGED <<carried, departed>>
  BY <1>1 DEF FinishRound
<1>3. seatOrder' = seatOrder /\ phase' \in {"bidding", "game-end"}
      /\ (phase' = "game-end" => donkeys' = Lowest(scores'))
  BY <1>1 DEF FinishRound, BuildRound, seating
<1>4. roundHistory \in Seq([Seated -> Result]) /\ n \in Nat
  BY DEF IInv, TypeOK
<1>5. Winner \in Seated
  BY WinnerSeated DEF ResolvePendingTrick
<1>6. \A d \in Seated : Bid(d) \in Int /\ tricks[d] \in Int
  BY <1>5 DEF IInv, TypeOK, Bid, TricksWith
<1>7. \A d \in Seated : results[d].roundScore \in Int
  BY <1>6 DEF RoundScore
<1>8. \A d \in Seated : results[d].bid = Bid(d) /\ results[d].tricksWon = tricks[d]
  OBVIOUS
<1>9. DOMAIN results = Seated
  OBVIOUS
<1> HIDE DEF results, tricks
<1>10. /\ Len(roundHistory') = n + 1 /\ roundHistory'[n + 1] = results
       /\ \A i \in 1..n : roundHistory'[i] = roundHistory[i]
  BY <1>2, <1>4
<1> QED BY <1>2, <1>3, <1>4, <1>5, <1>7, <1>8, <1>9, <1>10 DEF tricks, Seated

\* Finitely many integers have a least one.
LEMMA LeastPlace ==
  ASSUME NEW n \in Nat, n > 0, NEW g \in [1..n -> Int]
  PROVE  \E i \in 1..n : \A j \in 1..n : g[i] <= g[j]
<1> DEFINE LeastOf(m) == \E i \in 1..m : \A j \in 1..m : g[i] <= g[j]
           Bad == {m \in 1..n : ~LeastOf(m)}
<1> SUFFICES ASSUME Bad # {} PROVE FALSE
  <2>1. n \in 1..n
    OBVIOUS
  <2> QED BY <2>1
<1>1. Bad \subseteq 0..n /\ 0 \notin Bad
  OBVIOUS
<1>2. PICK m \in 1..n : m \in Bad /\ m - 1 \in 0..n /\ m - 1 \notin Bad
  <2> HIDE DEF Bad
  <2> QED BY <1>1, FirstOf
<1>3. ~LeastOf(m) /\ (m # 1 => LeastOf(m - 1))
  BY <1>2
<1>4. \A j \in 1..m : g[j] \in Int /\ (j \in 1..(m - 1) \/ j = m)
  OBVIOUS
<1>5. m \in 1..m /\ \A j \in 1..(m - 1) : j \in 1..m
  OBVIOUS
<1>6. CASE m = 1
  <2>1. \A j \in 1..m : g[m] <= g[j]
    BY <1>4, <1>6
  <2> QED BY <1>3, <1>5, <2>1
<1>7. CASE m # 1
  <2>1. PICK i \in 1..(m - 1) : \A j \in 1..(m - 1) : g[i] <= g[j]
    BY <1>3, <1>7
  <2>2. g[i] \in Int /\ g[m] \in Int /\ i \in 1..m
    BY <1>4, <1>5
  <2>3. CASE g[i] <= g[m]
    <3>1. \A j \in 1..m : g[i] <= g[j]
      BY <1>4, <2>1, <2>3
    <3> QED BY <1>3, <2>2, <3>1
  <2>4. CASE ~(g[i] <= g[m])
    <3>1. ASSUME NEW j \in 1..m PROVE g[m] <= g[j]
      <4>1. CASE j \in 1..(m - 1)
        <5> DEFINE x == g[i]  y == g[j]  z == g[m]
        <5>1. x \in Int /\ y \in Int /\ z \in Int /\ x <= y /\ ~(x <= z)
          BY <1>4, <2>1, <2>2, <2>4, <4>1
        <5> HIDE DEF x, y, z
        <5>2. z <= y
          BY <5>1
        <5> QED BY <5>2 DEF y, z
      <4>2. CASE j = m
        BY <2>2, <4>2
      <4> QED BY <1>4, <4>1, <4>2
    <3> QED BY <1>3, <1>5, <3>1
  <2> QED BY <2>3, <2>4
<1> QED BY <1>6, <1>7

\* Some seat of a table has the lowest score.
LEMMA LowestExists ==
  ASSUME NEW order, IsSeating(order), NEW f \in [SeatsOf(order) -> Int]
  PROVE  Lowest(f) # {}
<1> DEFINE n == Len(order)
           g == [i \in 1..n |-> f[order[i]]]
<1>1. n \in Nat /\ n > 0 /\ \A i \in 1..n : order[i] \in SeatsOf(order)
  BY DEF IsSeating, SeatsOf
<1>2. g \in [1..n -> Int] /\ \A i \in 1..n : g[i] = f[order[i]]
  BY <1>1
<1> HIDE DEF g, n
<1>3. PICK i \in 1..n : \A j \in 1..n : g[i] <= g[j]
  BY <1>1, <1>2, LeastPlace
<1>4. \A d \in SeatsOf(order) : \E j \in 1..n : order[j] = d
  BY DEF SeatsOf, n
<1>5. order[i] \in Lowest(f)
  <2>1. order[i] \in DOMAIN f /\ DOMAIN f = SeatsOf(order)
    BY <1>1, <1>3
  <2>2. \A d \in SeatsOf(order) : f[order[i]] <= f[d]
    BY <1>2, <1>3, <1>4
  <2> QED BY <2>1, <2>2 DEF Lowest
<1> QED BY <1>5

\* The donkeys of a finished game are those with the lowest score, and there is one.
LEMMA LowestJudges ==
  ASSUME IInv', donkeys' = Lowest(scores'), phase' = "game-end"
  PROVE  /\ donkeys' # {}
         /\ \A d \in Seated' : d \in donkeys' <=> \A e \in Seated' : scores'[d] <= scores'[e]
<1>1. IsSeating(seatOrder') /\ scores' \in [Seated' -> Int]
  BY DEF IInv, TableSeated, TypeOK
<1>2. Lowest(scores') # {}
  BY <1>1, LowestExists DEF Seated
<1> QED BY <1>1, <1>2 DEF Lowest

\* The end of a round adds a row to the sheet and what it scores to the scoreboard.
LEMMA FinishKeepsSheet ==
  ASSUME IInv, ScoresheetAddsUp, ResolvePendingTrick, \A d \in Seated : hands[d] = {}
  PROVE  ScoresheetAddsUp'
<1> DEFINE n == Len(roundHistory)
           row == roundHistory'[n + 1]
<1>1. /\ carried' = carried /\ Seated' = Seated
      /\ n \in Nat /\ Len(roundHistory') = n + 1
      /\ \A i \in 1..n : roundHistory'[i] = roundHistory[i]
      /\ \A d \in Seated : row[d].roundScore \in Int /\ scores'[d] = scores[d] + row[d].roundScore
      /\ phase' = "game-end" => donkeys' = Lowest(scores')
  BY FinishedSheet
<1>2. /\ roundHistory \in Seq([Seated -> Result])
      /\ scores \in [Seated -> Int] /\ carried \in [Seated -> Int]
  BY DEF IInv, TypeOK
<1>3. ASSUME NEW d \in Seated
      PROVE  scores'[d] = carried[d] + SumOf(RowScores(d)')
  <2> DEFINE s == RowScores(d)
             r == RowScores(d)'
  <2>1. Len(s) = n /\ Len(r) = n + 1
    BY <1>1 DEF RowScores
  <2>2. \A i \in 1..n : roundHistory[i] \in [Seated -> Result]
    BY <1>2
  <2>3. \A i \in 1..n : roundHistory[i][d].roundScore \in Int
    BY <2>2 DEF Result
  <2>4. \A i \in 1..n : s[i] \in Int /\ r[i] = s[i]
    BY <1>1, <2>3 DEF RowScores
  <2>5. r[n + 1] = row[d].roundScore
    BY <1>1 DEF RowScores
  <2>6. scores[d] = carried[d] + SumOf(s)
    BY DEF ScoresheetAddsUp, RowScores
  <2> HIDE DEF s, r
  <2>7. SumOf(r) = SumOf(s) + r[n + 1]
    <3>1. n \in Nat /\ row[d].roundScore \in Int
      BY <1>1
    <3> HIDE DEF n, row
    <3> QED BY <2>1, <2>4, <2>5, <3>1, SumAppended
  <2>8. SumOf(s) \in Int
    BY <1>1, <2>1, <2>4, SumIsInt
  <2> QED BY <1>1, <1>2, <2>5, <2>6, <2>7, <2>8 DEF r
<1>4. IInv'
  BY ResolveInv
<1> QED BY <1>1, <1>3, <1>4, LowestJudges DEF ScoresheetAddsUp, RowScores

\* replacePlayer passes the sheet of a seat on.
LEMMA ReplaceKeepsSheet ==
  ASSUME IInv, ScoresheetAddsUp, NEW from, NEW to \in Devices, ReplacePlayer(from, to)
  PROVE  ScoresheetAddsUp'
<1> DEFINE n == Len(roundHistory)
           Back(d) == IF d = to THEN from ELSE d
<1>1. /\ from \in Seated /\ to \notin Seated /\ Seated' = (Seated \ {from}) \cup {to}
      /\ scores' = RenameKey(scores, from, to) /\ carried' = RenameKey(carried, from, to)
      /\ roundHistory' = [i \in 1..n |-> RenameKey(roundHistory[i], from, to)]
      /\ donkeys' = {Rename(d, from, to) : d \in donkeys} /\ phase' = phase
  BY ReplacedEntries DEF ReplacePlayer
<1>2. /\ roundHistory \in Seq([Seated -> Result]) /\ n \in Nat
      /\ scores \in [Seated -> Int] /\ carried \in [Seated -> Int] /\ donkeys \subseteq Seated
  BY DEF IInv, TypeOK
<1>3. \A d \in Seated' : /\ Back(d) \in Seated
                         /\ scores'[d] = scores[Back(d)] /\ carried'[d] = carried[Back(d)]
  BY <1>1, <1>2 DEF RenameKey
<1>4. \A i \in 1..n : roundHistory[i] \in [Seated -> Result]
  BY <1>2
<1>5. ASSUME NEW d \in Seated' PROVE RowScores(d)' = RowScores(Back(d))
  <2>1. \A i \in 1..n : roundHistory'[i][d] = roundHistory[i][Back(d)]
    BY <1>1, <1>4, <1>5 DEF RenameKey
  <2>2. Len(roundHistory') = n
    BY <1>1, <1>2
  <2> HIDE DEF Back
  <2> QED BY <2>1, <2>2 DEF RowScores
<1>6. \A d \in Seated : scores[d] = carried[d] + SumOf(RowScores(d))
  BY DEF ScoresheetAddsUp, RowScores
<1>7. \A d \in Seated' : d \in donkeys' <=> Back(d) \in donkeys
  BY <1>1, <1>2 DEF Rename
<1>8. \A e \in Seated : \E d \in Seated' : Back(d) = e
  BY <1>1
<1>9. donkeys # {} => donkeys' # {}
  BY <1>1
<1> HIDE DEF Back
<1>10. \A d \in Seated' : scores'[d] = carried'[d] + SumOf(RowScores(d)')
  BY <1>3, <1>5, <1>6
<1>11. ASSUME phase' = "game-end"
       PROVE  /\ donkeys' # {}
              /\ \A d \in Seated' : d \in donkeys' <=> \A e \in Seated' : scores'[d] <= scores'[e]
  <2>1. /\ donkeys # {}
        /\ \A d \in Seated : d \in donkeys <=> \A e \in Seated : scores[d] <= scores[e]
    BY <1>1, <1>11 DEF ScoresheetAddsUp
  <2> QED BY <1>3, <1>7, <1>8, <1>9, <2>1
<1> QED BY <1>10, <1>11 DEF ScoresheetAddsUp, RowScores

\* removePlayer takes a column out of the sheet and judges a finished game again.
LEMMA RemoveKeepsSheet ==
  ASSUME IInv, ScoresheetAddsUp, NEW d, RemovePlayer(d)
  PROVE  ScoresheetAddsUp'
<1> DEFINE n == Len(roundHistory)
<1>1. /\ Seated' = Seated \ {d}
      /\ scores' = RemoveKey(scores, d) /\ carried' = RemoveKey(carried, d)
      /\ roundHistory' = [i \in 1..n |-> RemoveKey(roundHistory[i], d)]
      /\ donkeys' = DonkeysWithout(d)
  BY RemovedTable DEF RemovePlayer
<1>2. phase' = "game-end" => phase = "game-end"
  BY DEF RemovePlayer, RemoveWhileBidding, RemoveWhilePlaying, RemoveAtGameEnd
<1>3. /\ roundHistory \in Seq([Seated -> Result]) /\ n \in Nat
      /\ scores \in [Seated -> Int] /\ carried \in [Seated -> Int]
  BY DEF IInv, TypeOK
<1>4. \A e \in Seated' : e \in Seated /\ scores'[e] = scores[e] /\ carried'[e] = carried[e]
  BY <1>1, <1>3 DEF RemoveKey
<1>5. \A i \in 1..n : roundHistory[i] \in [Seated -> Result]
  BY <1>3
<1>6. ASSUME NEW e \in Seated' PROVE RowScores(e)' = RowScores(e)
  <2>1. \A i \in 1..n : roundHistory'[i][e] = roundHistory[i][e]
    BY <1>1, <1>5, <1>6 DEF RemoveKey
  <2>2. Len(roundHistory') = n
    BY <1>1, <1>3
  <2> QED BY <2>1, <2>2 DEF RowScores
<1>7. \A e \in Seated : scores[e] = carried[e] + SumOf(RowScores(e))
  BY DEF ScoresheetAddsUp, RowScores
<1>8. \A e \in Seated' : scores'[e] = carried'[e] + SumOf(RowScores(e)')
  BY <1>4, <1>6, <1>7
<1>9. phase' = "game-end" =>
        /\ donkeys' # {}
        /\ \A e \in Seated' : e \in donkeys' <=> \A f \in Seated' : scores'[e] <= scores'[f]
  BY <1>1, <1>2, RemovePlayerInv, LowestJudges DEF DonkeysWithout
<1> QED BY <1>8, <1>9 DEF ScoresheetAddsUp, RowScores

\* Every step keeps the scoreboard and the sheet in agreement.
LEMMA SheetStep ==
  ASSUME IInv, ScoresheetAddsUp, [Next]_vars
  PROVE  ScoresheetAddsUp'
<1>1. CASE (\E order \in SeatOrders : StartGame(order)) \/ NewGame
  <2>1. /\ scores' = [d \in Seated' |-> 0] /\ carried' = scores' /\ roundHistory' = <<>>
        /\ phase' = "bidding"
    BY <1>1 DEF StartGame, NewGame, BuildRound, Seated
  <2>2. \A d \in Seated' : SumOf(RowScores(d)') = 0
    <3> SUFFICES ASSUME NEW d \in Seated' PROVE SumOf(RowScores(d)') = 0
      OBVIOUS
    <3>1. Len(RowScores(d)') \in Nat /\ \A i \in 1..Len(RowScores(d)') : RowScores(d)'[i] = 0
      BY <2>1 DEF RowScores
    <3> QED BY <3>1, SumOfZeros
  <2> QED BY <2>1, <2>2 DEF ScoresheetAddsUp, RowScores
<1>2. CASE ContinueGame
  <2>1. /\ scores' = scores /\ carried' = scores /\ roundHistory' = <<>>
        /\ phase' = "bidding" /\ Seated' = Seated
    BY <1>2 DEF ContinueGame, BuildRound, Seated
  <2>2. \A d \in Seated : SumOf(RowScores(d)') = 0
    <3> SUFFICES ASSUME NEW d \in Seated PROVE SumOf(RowScores(d)') = 0
      OBVIOUS
    <3>1. Len(RowScores(d)') \in Nat /\ \A i \in 1..Len(RowScores(d)') : RowScores(d)'[i] = 0
      BY <2>1 DEF RowScores
    <3> QED BY <3>1, SumOfZeros
  <2> QED BY <2>1, <2>2 DEF ScoresheetAddsUp, RowScores, IInv, TypeOK
<1>3. CASE ResolvePendingTrick /\ \A d \in Seated : hands[d] = {}
  BY <1>3, FinishKeepsSheet
<1>4. CASE \/ \E d \in Seated, bid \in BidInput : PlaceBid(d, bid)
           \/ \E d \in Seated : \E card \in hands[d] : PlayCard(d, card)
           \/ ResolvePendingTrick /\ ~(\A d \in Seated : hands[d] = {})
           \/ UNCHANGED vars
  <2>1. /\ UNCHANGED <<scores, carried, roundHistory, donkeys, seatOrder>>
        /\ phase' = "game-end" => phase = "game-end"
    <3>1. DOMAIN hands = Seated
      BY DEF IInv, TypeOK
    <3> QED BY <1>4, <3>1
            DEF PlaceBid, PlayCard, ResolvePendingTrick, IsTrickComplete, vars, sheet, seating
  <2> QED BY <2>1 DEF ScoresheetAddsUp, Seated
<1>5. CASE \E from \in Leavers, to \in Devices \ departed : ReplacePlayer(from, to)
  BY <1>5, ReplaceKeepsSheet
<1>6. CASE \E d \in Leavers : RemovePlayer(d)
  BY <1>6, RemoveKeepsSheet
<1> QED BY <1>1, <1>2, <1>3, <1>4, <1>5, <1>6 DEF Next, Play, SeatChange, Session

\* The scoreboard is what the game began with plus the rows of the scoresheet, and
\* the donkeys of a finished game are the seated players with the lowest score
\* (finishRound 177-194, renameSummary, removeFromSummary, removePlayer 394-400).
THEOREM SheetIsScoreboard == Spec => []ScoresheetAddsUp
<1>1. Init => ScoresheetAddsUp
  BY DEF Init, ScoresheetAddsUp, Seated, SeatsOf
<1>2. IInv /\ ScoresheetAddsUp /\ [Next]_vars => ScoresheetAddsUp'
  BY SheetStep
<1> QED BY <1>1, <1>2, Invariant, PTL DEF Spec

-------------------------------------------------------------------------------
(* The promise to a full table.                                            *)

\* Bids and hands won, seat by seat.
BidsAt == [i \in 1..Len(seatOrder) |-> Bid(seatOrder[i])]
TricksAt == [i \in 1..Len(seatOrder) |-> tricksWon[seatOrder[i]]]

\* The bids of a table nobody left do not add up to the hands of the round, while the
\* hands won and those still to be played do.
FullTable ==
  /\ phase = "bidding" => \A d \in Seated : tricksWon[d] = 0
  /\ phase = "trick" /\ departed = {} =>
       /\ SumOf(BidsAt) # HandSize(round)
       /\ \A d \in Seated : SumOf(TricksAt) + Holding(d) = HandSize(round)

\* The bid that ends the auction does not make the sum (placeBid 142-149).
LEMMA LastBidMisses ==
  ASSUME IInv, NEW d \in Seated, NEW bid \in BidInput, PlaceBid(d, bid), phase' = "trick"
  PROVE  SumOf(BidsAt') # HandSize(round)
<1> DEFINE n == Len(seatOrder)
           s == [i \in 1..n |->
                   IF seatOrder[i] = d \/ bids[seatOrder[i]] = Null THEN 0 ELSE bids[seatOrder[i]]]
           r == BidsAt'
<1>1. /\ phase = "bidding" /\ bidOrder[bidTurnIndex + 1] = d
      /\ bids' = [bids EXCEPT ![d] = bid]
      /\ ~DealerRestricted(d, bid) /\ bidTurnIndex + 1 >= Len(bidOrder)
      /\ UNCHANGED <<seatOrder, round>>
  BY DEF PlaceBid, seating
<1>2. IsSeating(seatOrder) /\ seatOrder \in Seq(Devices) /\ n \in Nat /\ Len(bidOrder) = n
  BY <1>1, BidOrderSeating
<1>3. bids \in [Seated -> Int \cup {Null}] /\ bid \in Int /\ bid # Null /\ bidTurnIndex \in Nat
      /\ bidTurnIndex < n
  BY <1>1, <1>2, BidsAssumption DEF IInv, TypeOK, TableSeated
<1>4. PICK p \in 1..n : seatOrder[p] = d
  BY DEF Seated, SeatsOf
<1>5. \A i \in 1..n : seatOrder[i] \in Seated /\ (seatOrder[i] = d <=> i = p)
  BY <1>2, <1>4 DEF Seated, SeatsOf, IsSeating
<1>6. Len(s) = n /\ Len(r) = n
  BY <1>1, <1>2 DEF BidsAt
<1>7. \A i \in 1..n : s[i] \in Int
  BY <1>3, <1>5
<1>8. \A i \in 1..n : r[i] = IF i = p THEN s[i] + bid ELSE s[i]
  <2> SUFFICES ASSUME NEW i \in 1..n PROVE r[i] = IF i = p THEN s[i] + bid ELSE s[i]
    OBVIOUS
  <2>1. r[i] = IF bids'[seatOrder[i]] = Null THEN 0 ELSE bids'[seatOrder[i]]
    BY <1>1 DEF BidsAt, Bid
  <2>2. CASE i = p
    BY <1>1, <1>3, <1>4, <1>5, <2>1, <2>2
  <2>3. CASE i # p
    BY <1>1, <1>3, <1>5, <2>1, <2>3
  <2> QED BY <2>2, <2>3
<1>9. bid # HandSize(round) - SumOf(s)
  BY <1>1, <1>2, <1>3 DEF DealerRestricted, OthersSum
<1> HIDE DEF s, r, n
<1>10. SumOf(r) = SumOf(s) + bid
  <2>1. Bumped(s, r, n, p, bid)
    BY <1>2, <1>3, <1>4, <1>6, <1>7, <1>8 DEF Bumped
  <2> QED BY <2>1, SumBumped
<1>11. SumOf(s) \in Int
  BY <1>2, <1>6, <1>7, SumIsInt
<1>12. HandSize(round) \in Int
  BY HandSizeBounds DEF IInv, TypeOK
<1> QED BY <1>3, <1>9, <1>10, <1>11, <1>12 DEF r

\* A resolved hand adds one to the hands won.
LEMMA WinnerCounted ==
  ASSUME IInv, IsTrickComplete
  PROVE  /\ SumOf([i \in 1..Len(seatOrder) |-> TricksWith(Winner)[seatOrder[i]]])
              = SumOf(TricksAt) + 1
         /\ SumOf(TricksAt) \in Int
<1> DEFINE n == Len(seatOrder)
           s == TricksAt
           r == [i \in 1..n |-> TricksWith(Winner)[seatOrder[i]]]
<1>1. IsSeating(seatOrder) /\ n \in Nat
  BY BidOrderSeating DEF IsTrickComplete
<1>2. Winner \in Seated /\ tricksWon \in [Seated -> Nat]
  BY WinnerSeated DEF IInv, TypeOK
<1>3. PICK p \in 1..n : seatOrder[p] = Winner
  BY <1>2 DEF Seated, SeatsOf
<1>4. \A i \in 1..n : seatOrder[i] \in Seated /\ (seatOrder[i] = Winner <=> i = p)
  BY <1>1, <1>3 DEF Seated, SeatsOf, IsSeating
<1>5. Len(s) = n /\ Len(r) = n
  BY <1>1 DEF TricksAt
<1>6. \A i \in 1..n : s[i] \in Int
  BY <1>2, <1>4 DEF TricksAt
<1>7. \A i \in 1..n : r[i] = IF i = p THEN s[i] + 1 ELSE s[i]
  BY <1>2, <1>4 DEF TricksAt, TricksWith
<1> HIDE DEF s, r, n
<1>8. SumOf(r) = SumOf(s) + 1
  <2>1. Bumped(s, r, n, p, 1)
    BY <1>1, <1>3, <1>5, <1>6, <1>7 DEF Bumped
  <2> QED BY <2>1, SumBumped
<1>9. SumOf(s) \in Int
  BY <1>1, <1>5, <1>6, SumIsInt
<1> QED BY <1>8, <1>9 DEF s, r, n

\* placeBid keeps the account of a full table.
LEMMA BidKeepsFullTable ==
  ASSUME IInv, HandsInv, FullTable, NEW d \in Seated, NEW bid \in BidInput, PlaceBid(d, bid)
  PROVE  FullTable'
<1>1. /\ UNCHANGED <<tricksWon, round, seatOrder>> /\ Seated' = Seated
      /\ phase = "bidding" /\ phase' \in {"bidding", "trick"}
  BY DEF PlaceBid, seating, Seated
<1>2. \A e \in Seated : tricksWon[e] = 0
  BY <1>1 DEF FullTable
<1>3. ASSUME phase' = "trick"
      PROVE  /\ SumOf(BidsAt') # HandSize(round')
             /\ \A e \in Seated : SumOf(TricksAt') + Holding(e)' = HandSize(round')
  <2>1. SumOf(BidsAt') # HandSize(round')
    BY <1>1, <1>3, LastBidMisses
  <2>2. Len(seatOrder) \in Nat
    BY DEF IInv, TypeOK
  <2>3. TricksAt' = [i \in 1..Len(seatOrder) |-> tricksWon[seatOrder[i]]]
    BY <1>1 DEF TricksAt
  <2>4. Len(TricksAt') \in Nat /\ \A i \in 1..Len(TricksAt') : TricksAt'[i] = 0
    BY <1>2, <2>2, <2>3 DEF Seated, SeatsOf
  <2>5. SumOf(TricksAt') = 0
    BY <2>4, SumOfZeros
  <2>6. \A e \in Seated : Holding(e)' = HandSize(round)
    BY BidKeepsHands
  <2>7. HandSize(round) \in Int
    BY HandSizeBounds DEF IInv, TypeOK
  <2> QED BY <1>1, <2>1, <2>5, <2>6, <2>7
<1> QED BY <1>1, <1>2, <1>3 DEF FullTable

\* playCard keeps it: the card played is still held, on the table.
LEMMA PlayKeepsFullTable ==
  ASSUME IInv, HandsInv, FullTable, NEW d \in Seated, NEW card \in hands[d], PlayCard(d, card)
  PROVE  FullTable'
<1>1. /\ UNCHANGED <<tricksWon, bids, round, seatOrder, departed>> /\ Seated' = Seated
      /\ phase = "trick" /\ phase' = "trick"
  BY DEF PlayCard, seating, bidding, Seated
<1>2. BidsAt' = BidsAt /\ TricksAt' = TricksAt
  BY <1>1 DEF BidsAt, TricksAt, Bid
<1>3. \A e \in Seated : Holding(e)' = Holding(e)
  BY PlayKeepsHands
<1> QED BY <1>1, <1>2, <1>3 DEF FullTable

\* resolveTrick keeps it: a hand that was held is now won.
LEMMA ResolveKeepsFullTable ==
  ASSUME IInv, HandsInv, FullTable, ResolvePendingTrick, phase' # "bidding"
  PROVE  FullTable'
<1> SUFFICES ASSUME phase' = "trick" PROVE FullTable'
  BY DEF FullTable
<1>1. /\ phase = "trick" /\ IsTrickComplete /\ currentTrick' = <<>>
      /\ tricksWon' = TricksWith(Winner)
      /\ UNCHANGED <<hands, bids, round, seatOrder, departed>> /\ Seated' = Seated
  BY DEF ResolvePendingTrick, FinishRound, BuildRound, TricksWith, IsTrickComplete,
         seating, bidding, Seated
<1>2. TricksAt' = [i \in 1..Len(seatOrder) |-> TricksWith(Winner)[seatOrder[i]]]
  BY <1>1 DEF TricksAt
<1>3. SumOf(TricksAt') = SumOf(TricksAt) + 1 /\ SumOf(TricksAt) \in Int
  BY <1>1, <1>2, WinnerCounted
<1>4. BidsAt' = BidsAt
  BY <1>1 DEF BidsAt, Bid
<1>5. \A e \in Seated : Cardinality(hands[e]) \in Nat
  BY FS_CardinalityType DEF HandsInv, HandsFinite
<1>6. \A e \in Seated : Holding(e) = Cardinality(hands[e]) + 1 /\ Holding(e)' = Cardinality(hands[e])
  BY <1>1, <1>5, FullPile DEF Holding, InPile
<1> QED BY <1>1, <1>3, <1>4, <1>5, <1>6 DEF FullTable

\* Every step keeps the account of a full table.
LEMMA FullTableStep ==
  ASSUME IInv, HandsInv, FullTable, [Next]_vars
  PROVE  FullTable'
<1>1. CASE \/ \E order \in SeatOrders : StartGame(order)
           \/ NewGame
           \/ ContinueGame
           \/ ResolvePendingTrick /\ phase' = "bidding"
  BY <1>1, DealSteps DEF JustDealt, FullTable
<1>2. CASE \E d \in Seated, bid \in BidInput : PlaceBid(d, bid)
  BY <1>2, BidKeepsFullTable
<1>3. CASE ResolvePendingTrick /\ phase' # "bidding"
  BY <1>3, ResolveKeepsFullTable
<1>4. CASE \E d \in Seated : \E card \in hands[d] : PlayCard(d, card)
  BY <1>4, PlayKeepsFullTable
<1>5. ASSUME NEW from \in Leavers, NEW to \in Devices \ departed, ReplacePlayer(from, to)
      PROVE  FullTable'
  <2>1. departed' # {} /\ phase' = phase /\ from \in Seated
        /\ tricksWon' = RenameKey(tricksWon, from, to)
    BY <1>5 DEF ReplacePlayer
  <2>2. Seated' = (Seated \ {from}) \cup {to}
    BY <1>5, ReplacedEntries
  <2> QED BY <2>1, <2>2 DEF FullTable, RenameKey, IInv, TypeOK
<1>6. ASSUME NEW d \in Leavers, RemovePlayer(d)
      PROVE  FullTable'
  <2>1. departed' # {} /\ (phase' = "bidding" => phase = "bidding")
        /\ tricksWon' = RemoveKey(tricksWon, d)
    BY <1>6 DEF RemovePlayer, RemoveWhileBidding, RemoveWhilePlaying, RemoveAtGameEnd
  <2>2. Seated' = Seated \ {d}
    BY <1>6, RemovedTable
  <2> QED BY <2>1, <2>2 DEF FullTable, RemoveKey, IInv, TypeOK
<1>7. CASE UNCHANGED vars
  <2>1. UNCHANGED <<phase, round, seatOrder, hands, bids, tricksWon, currentTrick, departed>>
    BY <1>7 DEF vars, seating, bidding
  <2>2. BidsAt' = BidsAt /\ TricksAt' = TricksAt /\ Seated' = Seated
    BY <2>1 DEF BidsAt, TricksAt, Bid, Seated
  <2>3. \A d : Holding(d)' = Holding(d)
    BY <2>1 DEF Holding, InPile
  <2> QED BY <2>1, <2>2, <2>3 DEF FullTable
<1> QED BY <1>1, <1>2, <1>3, <1>4, <1>5, <1>6, <1>7 DEF Next, Play, SeatChange, Session

\* A round ends only when its last hand is resolved.
LEMMA RoundEndsResolved ==
  ASSUME IInv, [Next]_vars, RoundEnds
  PROVE  ResolvePendingTrick /\ \A d \in Seated : hands[d] = {}
<1>1. Len(roundHistory) \in Nat /\ DOMAIN hands = Seated
  BY DEF IInv, TypeOK
<1>2. CASE \/ \E order \in SeatOrders : StartGame(order)
           \/ NewGame
           \/ ContinueGame
  <2>1. roundHistory' = <<>>
    BY <1>2 DEF StartGame, NewGame, ContinueGame
  <2> QED BY <1>1, <2>1 DEF RoundEnds
<1>3. CASE \/ \E d \in Seated, bid \in BidInput : PlaceBid(d, bid)
           \/ \E d \in Seated : \E card \in hands[d] : PlayCard(d, card)
           \/ ResolvePendingTrick /\ ~(\A d \in Seated : hands[d] = {})
           \/ UNCHANGED vars
  <2>1. roundHistory' = roundHistory
    BY <1>1, <1>3 DEF PlaceBid, PlayCard, ResolvePendingTrick, vars, sheet
  <2> QED BY <1>1, <2>1 DEF RoundEnds
<1>4. CASE \/ \E from \in Leavers, to \in Devices \ departed : ReplacePlayer(from, to)
           \/ \E d \in Leavers : RemovePlayer(d)
  <2>1. \/ \E from, to : ReplacePlayer(from, to)
        \/ \E d : RemovePlayer(d)
    BY <1>4
  <2>2. CASE \E from, to : ReplacePlayer(from, to)
    <3>1. PICK from, to : ReplacePlayer(from, to)
      BY <2>2
    <3>2. roundHistory' = [i \in 1..Len(roundHistory) |-> RenameKey(roundHistory[i], from, to)]
      BY <3>1 DEF ReplacePlayer
    <3> QED BY <1>1, <3>2 DEF RoundEnds
  <2>3. CASE \E d : RemovePlayer(d)
    <3>1. PICK d : RemovePlayer(d)
      BY <2>3
    <3>2. roundHistory' = [i \in 1..Len(roundHistory) |-> RemoveKey(roundHistory[i], d)]
      BY <3>1 DEF RemovePlayer
    <3> QED BY <1>1, <3>2 DEF RoundEnds
  <2> QED BY <2>1, <2>2, <2>3
<1> QED BY <1>2, <1>3, <1>4 DEF Next, Play, SeatChange, Session

\* At a full table a round that ends leaves somebody with a missed bid.
LEMMA SomeoneMisses ==
  ASSUME IInv, HandsInv, FullTable, [Next]_vars, RoundEnds, departed = {}
  PROVE  \E d \in DOMAIN LastResults : LastResults[d].bid # LastResults[d].tricksWon
<1> DEFINE n == Len(roundHistory)
<1>1. ResolvePendingTrick /\ \A d \in Seated : hands[d] = {}
  BY RoundEndsResolved
<1>2. phase = "trick" /\ IsTrickComplete
  BY <1>1 DEF ResolvePendingTrick, IsTrickComplete
<1>3. /\ LastResults = roundHistory'[n + 1] /\ DOMAIN LastResults = Seated
      /\ \A d \in Seated : /\ LastResults[d].bid = Bid(d)
                           /\ LastResults[d].tricksWon = TricksWith(Winner)[d]
  BY <1>1, FinishedSheet DEF LastResults
<1> SUFFICES ASSUME \A d \in Seated : Bid(d) = TricksWith(Winner)[d]
             PROVE  FALSE
  BY <1>3
<1>4. \A i \in 1..Len(seatOrder) : seatOrder[i] \in Seated
  BY DEF Seated, SeatsOf
<1>5. BidsAt = [i \in 1..Len(seatOrder) |-> TricksWith(Winner)[seatOrder[i]]]
  BY <1>4 DEF BidsAt
<1>6. SumOf(BidsAt) = SumOf(TricksAt) + 1 /\ SumOf(TricksAt) \in Int
  BY <1>2, <1>5, WinnerCounted
<1>7. Winner \in Seated
  BY <1>2, WinnerSeated
<1>8. Holding(Winner) = 1
  BY <1>1, <1>2, <1>7, FullPile, FS_EmptySet DEF Holding
<1> QED BY <1>2, <1>6, <1>7, <1>8 DEF FullTable

\* "guarantees at least one player fails their bid" (docs/PLAN.md:25-27) holds for every
\* table whose seats are all still held by who took them: the dealer's restriction
\* (placeBid 142-149) keeps the bids from adding up to the hands of the round.
THEOREM PromiseToFullTable == Spec => SomeoneMissesBidAtFullTable
<1>1. Init => FullTable
  BY DEF Init, FullTable
<1>2. IInv /\ HandsInv /\ FullTable /\ [Next]_vars => FullTable'
  BY FullTableStep
<1>3. IInv /\ HandsInv /\ FullTable /\ [Next]_vars =>
        [RoundEnds /\ departed = {} =>
           \E d \in DOMAIN LastResults : LastResults[d].bid # LastResults[d].tricksWon]_vars
  BY SomeoneMisses
<1> QED BY <1>1, <1>2, <1>3, HandsInvariant, PTL DEF Spec, SomeoneMissesBidAtFullTable

-------------------------------------------------------------------------------
(* Engine implements Table: one lemma says for each operation which step   *)
(* of Table it is.  Table takes seats out of lists of who has still to bid *)
(* or to play; the engine computes with seat numbers.  That these agree is *)
(* an argument about parts of rotations.                                   *)

\* The mapping of EngineTable by name.
Dealer == IF phase = "none" THEN "nobody" ELSE seatOrder[dealerSeat + 1]
LeftToBid == IF phase = "bidding" THEN SubSeq(bidOrder, bidTurnIndex + 1, Len(bidOrder)) ELSE <<>>
LeftToPlay == IF phase = "trick" /\ turnSeat >= 0
              THEN SubSeq(OrderFrom(seatOrder, turnSeat), 1, Len(seatOrder) - Len(currentTrick))
              ELSE <<>>

-------------------------------------------------------------------------------
(* Parts of a seating.                                                     *)

\* A part of a sequence of devices.
LEMMA PartOf ==
  ASSUME NEW s \in Seq(Devices), NEW a \in 1..(Len(s) + 1), NEW b \in 0..Len(s), a <= b + 1
  PROVE  /\ SubSeq(s, a, b) \in Seq(Devices)
         /\ Len(SubSeq(s, a, b)) = b - a + 1
         /\ \A i \in 1..(b - a + 1) : SubSeq(s, a, b)[i] = s[a + i - 1]
<1>1. a \in Int /\ b \in Int /\ \A i \in a..b : s[i] \in Devices
  OBVIOUS
<1> QED BY <1>1, SubSeqProperties

\* Position q is where its device sits.
LEMMA SeatIndex ==
  ASSUME NEW s, IsSeating(s), NEW q \in 1..Len(s)
  PROVE  OnTable!IndexIn(s, s[q]) = q
BY DEF OnTable!IndexIn, IsSeating

\* Counting from a seat is what Table writes as beginning with its device.
LEMMA StartingIs ==
  ASSUME NEW s, IsSeating(s), NEW from \in 0..(Len(s) - 1)
  PROVE  OnTable!Starting(s, s[from + 1]) = OrderFrom(s, from)
<1> DEFINE n == Len(s)
<1>1. s \in Seq(Devices) /\ n \in Nat /\ n >= 2 /\ from + 1 \in 1..n /\ from \in 0..n
  BY DEF IsSeating
<1>2. OnTable!Starting(s, s[from + 1]) = SubSeq(s, from + 1, n) \o SubSeq(s, 1, from)
  <2>1. OnTable!IndexIn(s, s[from + 1]) = from + 1 /\ (from + 1) - 1 = from
    BY <1>1, SeatIndex
  <2> QED BY <2>1 DEF OnTable!Starting
<1> DEFINE u == SubSeq(s, from + 1, n)
           v == SubSeq(s, 1, from)
<1>3. u \in Seq(Devices) /\ Len(u) = n - from /\ \A i \in 1..(n - from) : u[i] = s[from + i]
  <2>1. /\ u \in Seq(Devices) /\ Len(u) = n - (from + 1) + 1
        /\ \A i \in 1..(n - (from + 1) + 1) : u[i] = s[(from + 1) + i - 1]
    BY <1>1, PartOf
  <2> HIDE DEF u
  <2> QED BY <1>1, <2>1
<1>4. v \in Seq(Devices) /\ Len(v) = from /\ \A i \in 1..from : v[i] = s[i]
  <2>1. /\ v \in Seq(Devices) /\ Len(v) = from - 1 + 1
        /\ \A i \in 1..(from - 1 + 1) : v[i] = s[1 + i - 1]
    BY <1>1, PartOf
  <2> HIDE DEF v
  <2> QED BY <1>1, <2>1
<1> HIDE DEF u, v
<1>5. /\ u \o v \in Seq(Devices) /\ Len(u \o v) = n
      /\ \A i \in 1..n : (u \o v)[i] = IF i <= n - from THEN u[i] ELSE v[i - (n - from)]
  BY <1>1, <1>3, <1>4, ConcatProperties
<1>6. \A i \in 1..n : (u \o v)[i] = s[IF from + i <= n THEN from + i ELSE from + i - n]
  <2> TAKE i \in 1..n
  <2>1. CASE i <= n - from
    <3>1. i \in 1..(n - from) /\ from + i <= n
      BY <1>1, <2>1
    <3> QED BY <1>3, <1>5, <2>1, <3>1
  <2>2. CASE ~(i <= n - from)
    <3>1. i - (n - from) \in 1..from /\ ~(from + i <= n) /\ i - (n - from) = from + i - n
      BY <1>1, <2>2
    <3> QED BY <1>4, <1>5, <2>2, <3>1
  <2> QED BY <2>1, <2>2
<1>7. /\ OrderFrom(s, from) \in Seq(Devices) /\ Len(OrderFrom(s, from)) = n
      /\ \A i \in 1..n : OrderFrom(s, from)[i] = s[IF from + i <= n THEN from + i ELSE from + i - n]
  BY <1>1, RotationSeating, RotationAt DEF IsSeating
<1>8. u \o v = OrderFrom(s, from)
  BY <1>5, <1>6, <1>7, SeqEqual
<1> QED BY <1>2, <1>8 DEF u, v

\* The seat left of a seat, from which an auction is counted.
LEMMA LeftStarting ==
  ASSUME NEW s, IsSeating(s), NEW dealer \in 0..(Len(s) - 1)
  PROVE  /\ OnTable!LeftOf(s, s[dealer + 1]) = s[((dealer + 1) % Len(s)) + 1]
         /\ OnTable!Starting(s, OnTable!LeftOf(s, s[dealer + 1])) = OrderFrom(s, dealer + 1)
         /\ OrderFrom(s, (dealer + 1) % Len(s)) = OrderFrom(s, dealer + 1)
<1> DEFINE n == Len(s)
           next == (dealer + 1) % n
<1>1. s \in Seq(Devices) /\ n \in Nat /\ n >= 2 /\ dealer + 1 \in 1..n
  BY DEF IsSeating
<1>2. OnTable!LeftOf(s, s[dealer + 1]) = s[next + 1]
  BY <1>1, SeatIndex DEF OnTable!LeftOf
<1>3. next = IF dealer + 1 = n THEN 0 ELSE dealer + 1
  <2>1. CASE dealer + 1 = n
    BY <1>1, <2>1, ModOver
  <2>2. CASE dealer + 1 # n
    BY <1>1, <2>2, ModSmall
  <2> QED BY <2>1, <2>2
<1> HIDE DEF next
<1>4. next \in 0..(n - 1)
  BY <1>1, <1>3
<1>5. OrderFrom(s, next) = OrderFrom(s, dealer + 1)
  BY <1>1, <1>3, RotationFull
<1> QED BY <1>2, <1>4, <1>5, StartingIs DEF next

\* A part of a sequence, under a name: the lemmas below are cited for it as a whole.
Part(s, a, b) == SubSeq(s, a, b)

\* Taking a device out of a part of a seating leaves a part of the seating without it.
LEMMA KeepPart ==
  ASSUME NEW s, IsSeating(s), Len(s) > 2, NEW p \in 1..Len(s),
         NEW a \in 1..(Len(s) + 1), NEW b \in 0..Len(s), a <= b + 1
  PROVE  OnTable!Keep(Part(s, a, b), s[p])
           = Part(Leave(s, s[p]), IF p < a THEN a - 1 ELSE a, IF p <= b THEN b - 1 ELSE b)
<1> SUFFICES OnTable!Keep(SubSeq(s, a, b), s[p])
           = SubSeq(Leave(s, s[p]), IF p < a THEN a - 1 ELSE a, IF p <= b THEN b - 1 ELSE b)
  BY DEF Part
<1> DEFINE n == Len(s)
           d == s[p]
           t == SubSeq(s, a, b)
           left == Leave(s, d)
<1>1. s \in Seq(Devices) /\ n \in Nat /\ d \in SeatsOf(s) /\ \A i, j \in 1..n : s[i] = s[j] => i = j
  BY SeatOfPosition DEF IsSeating
<1>2. /\ left \in Seq(Devices) /\ Len(left) = n - 1
      /\ \A i \in 1..(n - 1) : left[i] = s[IF i < p THEN i ELSE i + 1]
  BY <1>1, LeaveSeating, LeaveAt DEF IsSeating
<1>3. /\ t \in Seq(Devices) /\ Len(t) = b - a + 1
      /\ \A i \in 1..(b - a + 1) : t[i] = s[a + i - 1]
  BY <1>1, PartOf
<1> HIDE DEF t, left, d
<1>4. CASE p \in a..b
  <2>1. \A i \in 1..Len(t) : t[i] = d <=> i = p - a + 1
    <3> TAKE i \in 1..Len(t)
    <3>0. i \in 1..(b - a + 1)
      BY <1>3
    <3>1. t[i] = s[a + i - 1] /\ a + i - 1 \in 1..n
      BY <1>1, <1>3, <3>0
    <3>2. s[a + i - 1] = s[p] <=> a + i - 1 = p
      BY <1>1, <3>1
    <3>3. a + i - 1 = p <=> i = p - a + 1
      BY <1>1, <3>0
    <3> QED BY <3>1, <3>2, <3>3 DEF d
  <2>2. p - a + 1 \in 1..Len(t)
    BY <1>1, <1>3, <1>4
  <2>3. d \in OnTable!MembersOf(t) /\ OnTable!IndexIn(t, d) = p - a + 1
    BY <2>1, <2>2 DEF OnTable!MembersOf, OnTable!IndexIn
  <2>4. OnTable!Keep(t, d) = [i \in 1..(Len(t) - 1) |-> IF i < p - a + 1 THEN t[i] ELSE t[i + 1]]
    BY <2>3 DEF OnTable!Keep
  <2>5. \A i \in 1..(b - a) : (IF i < p - a + 1 THEN t[i] ELSE t[i + 1]) = left[a + i - 1]
    <3> TAKE i \in 1..(b - a)
    <3>1. i \in 1..(b - a + 1) /\ i + 1 \in 1..(b - a + 1) /\ a + i - 1 \in 1..(n - 1)
      BY <1>1, <1>4
    <3>2. t[i] = s[a + i - 1] /\ t[i + 1] = s[a + i - 1 + 1]
      BY <1>1, <1>3, <3>1
    <3>3. left[a + i - 1] = s[IF a + i - 1 < p THEN a + i - 1 ELSE a + i - 1 + 1]
      BY <1>2, <3>1
    <3> QED BY <1>1, <1>4, <3>2, <3>3
  <2>6. /\ SubSeq(left, a, b - 1) \in Seq(Devices) /\ Len(SubSeq(left, a, b - 1)) = b - 1 - a + 1
        /\ \A i \in 1..(b - 1 - a + 1) : SubSeq(left, a, b - 1)[i] = left[a + i - 1]
    <3>1. a \in 1..(Len(left) + 1) /\ b - 1 \in 0..Len(left) /\ a <= b - 1 + 1
      BY <1>1, <1>2, <1>4
    <3> QED BY <1>2, <3>1, PartOf
  <2> DEFINE r == SubSeq(left, a, b - 1)
             kept == OnTable!Keep(t, d)
  <2> HIDE DEF r
  <2>7. Len(t) - 1 = b - a /\ b - a \in Nat /\ b - 1 - a + 1 = b - a
    BY <1>1, <1>3, <1>4
  <2>8. r \in Seq(Devices) /\ Len(r) = b - a /\ \A i \in 1..(b - a) : r[i] = left[a + i - 1]
    BY <2>6, <2>7 DEF r
  <2>9. kept = [i \in 1..(b - a) |-> r[i]]
    BY <2>4, <2>5, <2>7, <2>8
  <2>10. r = [i \in 1..(b - a) |-> r[i]]
    BY <2>7, <2>8
  <2> QED BY <1>4, <2>9, <2>10 DEF r, t, d, left
<1>5. CASE p \notin a..b
  <2>1. \A i \in 1..Len(t) : t[i] # d
    <3> TAKE i \in 1..Len(t)
    <3>1. i \in 1..(b - a + 1)
      BY <1>3
    <3>2. a + i - 1 \in 1..n /\ a + i - 1 # p
      BY <1>1, <1>5, <3>1
    <3>3. t[i] = s[a + i - 1]
      BY <1>3, <3>1
    <3> QED BY <1>1, <3>2, <3>3 DEF d
  <2>2. OnTable!Keep(t, d) = t
    BY <2>1 DEF OnTable!Keep, OnTable!MembersOf
  <2>3. CASE p < a
    <3>2. a - 1 \in 1..(Len(left) + 1) /\ b - 1 \in 0..Len(left) /\ a - 1 <= b - 1 + 1 /\ p <= b
      BY <1>1, <1>2, <2>3
    <3> DEFINE r == SubSeq(left, a - 1, b - 1)
    <3>3. /\ r \in Seq(Devices) /\ Len(r) = b - 1 - (a - 1) + 1
          /\ \A i \in 1..(b - 1 - (a - 1) + 1) : r[i] = left[a - 1 + i - 1]
      BY <1>2, <3>2, PartOf
    <3> HIDE DEF r
    <3>4. Len(r) = Len(t) /\ \A i \in 1..Len(t) : t[i] = r[i]
      <4>1. Len(r) = b - a + 1 /\ Len(t) = b - a + 1
        BY <1>1, <1>3, <3>3
      <4> SUFFICES ASSUME NEW i \in 1..(b - a + 1) PROVE t[i] = r[i]
        BY <4>1
      <4>2. r[i] = left[a - 1 + i - 1] /\ a - 1 + i - 1 \in 1..(n - 1) /\ ~(a - 1 + i - 1 < p)
        <5>1. i \in 1..(b - 1 - (a - 1) + 1)
          BY <1>1
        <5>2. a - 1 + i - 1 \in 1..(n - 1) /\ ~(a - 1 + i - 1 < p)
          BY <1>1, <2>3
        <5> QED BY <3>3, <5>1, <5>2
      <4>3. r[i] = s[a - 1 + i - 1 + 1]
        BY <1>2, <4>2
      <4>4. a - 1 + i - 1 + 1 = a + i - 1
        BY <1>1
      <4>5. t[i] = s[a + i - 1]
        BY <1>3
      <4> QED BY <4>2, <4>3, <4>4, <4>5
    <3>5. t = r
      BY <1>3, <3>3, <3>4, SeqEqual
    <3> QED BY <2>2, <2>3, <3>2, <3>5 DEF r, t, d, left
  <2>4. CASE p > b
    <3>1. a \in 1..(Len(left) + 1) /\ b \in 0..Len(left) /\ ~(p < a)
      BY <1>1, <1>2, <1>5, <2>4
    <3> DEFINE r == SubSeq(left, a, b)
    <3>2. /\ r \in Seq(Devices) /\ Len(r) = b - a + 1
          /\ \A i \in 1..(b - a + 1) : r[i] = left[a + i - 1]
      BY <1>2, <3>1, PartOf
    <3> HIDE DEF r
    <3>3. Len(r) = Len(t) /\ \A i \in 1..Len(t) : t[i] = r[i]
      <4>1. Len(r) = b - a + 1 /\ Len(t) = b - a + 1
        BY <1>3, <3>2
      <4> SUFFICES ASSUME NEW i \in 1..(b - a + 1) PROVE t[i] = r[i]
        BY <4>1
      <4>2. r[i] = left[a + i - 1] /\ a + i - 1 \in 1..(n - 1) /\ a + i - 1 < p
        BY <1>1, <2>4, <3>1, <3>2
      <4>3. r[i] = s[a + i - 1]
        BY <1>2, <4>2
      <4> QED BY <1>3, <4>3
    <3>4. t = r
      BY <1>3, <3>2, <3>3, SeqEqual
    <3> QED BY <2>2, <2>4, <3>1, <3>4 DEF r, t, d, left
  <2> QED BY <1>1, <1>5, <2>3, <2>4
<1> QED BY <1>4, <1>5

\* The whole of a seating is a part of it.
LEMMA WholePart ==
  ASSUME NEW s \in Seq(Devices), s # <<>>
  PROVE  SubSeq(s, 1, Len(s)) = s
<1>1. Len(s) \in Nat /\ Len(s) >= 1
  OBVIOUS
<1> DEFINE t == SubSeq(s, 1, Len(s))
<1>2. /\ t \in Seq(Devices) /\ Len(t) = Len(s) - 1 + 1
      /\ \A i \in 1..(Len(s) - 1 + 1) : t[i] = s[1 + i - 1]
  BY <1>1, PartOf
<1> HIDE DEF t
<1>3. Len(t) = Len(s) /\ \A i \in 1..Len(t) : t[i] = s[i]
  BY <1>1, <1>2
<1>4. t = s
  BY <1>2, <1>3, SeqEqual
<1> QED BY <1>4 DEF t

\* A part without its first element.
LEMMA TailPart ==
  ASSUME NEW s \in Seq(Devices), NEW a \in 1..Len(s), NEW b \in a..Len(s)
  PROVE  /\ SubSeq(s, a, b) # <<>> /\ Len(SubSeq(s, a, b)) = b - a + 1
         /\ Tail(SubSeq(s, a, b)) = SubSeq(s, a + 1, b)
<1> DEFINE t == SubSeq(s, a, b)
           u == SubSeq(s, a + 1, b)
<1>1. /\ t \in Seq(Devices) /\ Len(t) = b - a + 1
      /\ \A i \in 1..(b - a + 1) : t[i] = s[a + i - 1]
  BY PartOf
<1>2. /\ u \in Seq(Devices) /\ Len(u) = b - (a + 1) + 1
      /\ \A i \in 1..(b - (a + 1) + 1) : u[i] = s[(a + 1) + i - 1]
  BY PartOf
<1> HIDE DEF t, u
<1>3. t # <<>>
  BY <1>1
<1>4. /\ Tail(t) \in Seq(Devices) /\ Len(Tail(t)) = b - a
      /\ \A i \in 1..(b - a) : Tail(t)[i] = t[i + 1]
  BY <1>1, <1>3, HeadTailProperties
<1>5. Len(u) = Len(Tail(t)) /\ \A i \in 1..Len(u) : u[i] = Tail(t)[i]
  <2>1. Len(u) = b - a /\ Len(Tail(t)) = b - a
    BY <1>2, <1>4
  <2> SUFFICES ASSUME NEW i \in 1..(b - a) PROVE u[i] = Tail(t)[i]
    BY <2>1
  <2>2. u[i] = s[(a + 1) + i - 1]
    BY <1>2
  <2>3. Tail(t)[i] = s[a + (i + 1) - 1]
    BY <1>1, <1>4
  <2>4. (a + 1) + i - 1 = a + (i + 1) - 1
    OBVIOUS
  <2> QED BY <2>2, <2>3, <2>4
<1>6. u = Tail(t)
  BY <1>2, <1>4, <1>5, SeqEqual
<1> QED BY <1>1, <1>3, <1>6 DEF t, u

-------------------------------------------------------------------------------
(* The hands left.                                                         *)

\* The greatest of a set of integers.
LEMMA MaxIs ==
  ASSUME NEW T, T \subseteq Int, NEW m \in T, \A x \in T : x <= m
  PROVE  Max(T) = m
<1>1. \A x \in T : (\A y \in T : x >= y) <=> x = m
  OBVIOUS
<1> QED BY <1>1 DEF Max

\* While a round is played, the hands left are the cards of any player, those on the
\* table included.
HandsCounted ==
  phase \in {"bidding", "trick"} => \A d \in Seated : HandsToResolve = Holding(d)

\* The hands left can be read off any seat.
LEMMA HandsAreCounted == IInv /\ HandsInv => HandsCounted
<1> SUFFICES ASSUME IInv, HandsInv, phase \in {"bidding", "trick"}, NEW d \in Seated
             PROVE  HandsToResolve = Holding(d)
  BY DEF HandsCounted
<1> DEFINE sizes == {Cardinality(hands[e]) : e \in Seated}
<1>1. \A e \in Seated : Cardinality(hands[e]) \in Nat
  BY FS_CardinalityType DEF HandsInv, HandsFinite
<1>2. \A e \in Seated : Holding(e) = Holding(d)
  <2>1. CASE phase = "trick"
    BY <2>1 DEF HandsInv, HandsEven
  <2>2. CASE phase = "bidding"
    <3>1. \A e \in Seated : ~InPile(e) /\ Cardinality(hands[e]) = HandSize(round)
      BY <2>2 DEF IInv, TableSeated, InPile, HandsInv, HandsEven
    <3> QED BY <3>1 DEF Holding
  <2> QED BY <2>1, <2>2
<1>3. CASE IsTrickComplete
  <2>1. \A e \in Seated : Cardinality(hands[e]) = Cardinality(hands[d])
    BY <1>1, <1>2, <1>3, FullPile DEF Holding
  <2>2. Holding(d) = Cardinality(hands[d]) + 1
    BY <1>3, FullPile DEF Holding
  <2>3. Max(sizes) = Cardinality(hands[d])
    <3>1. /\ sizes \subseteq Int /\ Cardinality(hands[d]) \in sizes
          /\ \A x \in sizes : x <= Cardinality(hands[d])
      BY <1>1, <2>1
    <3> HIDE DEF sizes
    <3> QED BY <3>1, MaxIs
  <2> QED BY <1>3, <2>2, <2>3 DEF HandsToResolve, IsTrickComplete
<1>4. CASE ~IsTrickComplete
  <2>1. PICK f \in Seated : ~InPile(f)
    <3>1. CASE phase = "bidding"
      BY <3>1 DEF IInv, TableSeated, InPile
    <3>2. CASE phase = "trick"
      <4>1. turnSeat \in 0..(Len(seatOrder) - 1)
            /\ \A i \in 1..Len(currentTrick) : currentTrick[i].deviceId # seatOrder[turnSeat + 1]
        BY <1>4, <3>2, ActorNotInPile
      <4>2. seatOrder[turnSeat + 1] \in Seated
        BY <3>2, <4>1, BidOrderSeating DEF Seated, SeatsOf
      <4> QED BY <4>1, <4>2 DEF InPile
    <3> QED BY <3>1, <3>2
  <2>2. Holding(d) = Cardinality(hands[f])
    BY <1>1, <1>2, <2>1 DEF Holding
  <2>3. \A e \in Seated : Cardinality(hands[e]) <= Holding(d)
    <3> TAKE e \in Seated
    <3>1. Holding(e) = Holding(d) /\ Cardinality(hands[e]) <= Holding(e)
      BY <1>1, <1>2 DEF Holding
    <3> QED BY <3>1
  <2>4. Max(sizes) = Holding(d)
    <3>1. sizes \subseteq Int /\ Holding(d) \in sizes /\ \A x \in sizes : x <= Holding(d)
      BY <1>1, <2>1, <2>2, <2>3
    <3> HIDE DEF sizes
    <3> QED BY <3>1, MaxIs
  <2>5. Max(sizes) \in Nat
    BY <1>1, <2>2, <2>4
  <2> QED BY <1>4, <2>4, <2>5 DEF HandsToResolve
<1> QED BY <1>3, <1>4

\* What the steps may use of the states before and after them.
Sound == IInv /\ HandsInv /\ HandsCounted

-------------------------------------------------------------------------------
(* The steps of the engine as steps of Table.                              *)

\* buildRound deals at the table it is given.
LEMMA BuildRoundDeals ==
  ASSUME NEW order, IsSeating(order), NEW r \in 1..Rounds, NEW dealer \in 0..(Len(order) - 1),
         BuildRound(order, r, dealer), Sound'
  PROVE  OnTable!Deal(order, order[dealer + 1], r)
<1>1. order \in Seq(Devices) /\ Len(order) \in Nat /\ Len(order) >= 2 /\ dealer + 1 \in 0..Len(order)
  BY DEF IsSeating
<1>2. /\ phase' = "bidding" /\ seatOrder' = order /\ dealerSeat' = dealer /\ round' = r
      /\ bidOrder' = OrderFrom(order, dealer + 1) /\ bidTurnIndex' = 0 /\ currentTrick' = <<>>
  BY DEF BuildRound
<1>3. SubSeq(bidOrder', 1, Len(bidOrder')) = OnTable!Starting(order, OnTable!LeftOf(order, order[dealer + 1]))
  <2>1. bidOrder' \in Seq(Devices) /\ Len(bidOrder') = Len(order)
    BY <1>1, <1>2, RotationSeating DEF IsSeating
  <2>2. bidOrder' # <<>>
    BY <1>1, <2>1
  <2> QED BY <1>2, <2>1, <2>2, WholePart, LeftStarting
<1>4. HandsToResolve' = MaxHand + 1 - r
  <2>1. order[1] \in Seated'
    BY <1>2, FirstSeated DEF Seated
  <2>2. Cardinality(hands'[order[1]]) = HandSize(r) /\ HandsToResolve' = Holding(order[1])'
    BY <1>2, <2>1 DEF Sound, HandsInv, HandsEven, HandsCounted
  <2>3. HandSize(r) \in Nat
    BY HandSizeBounds
  <2>4. ~InPile(order[1])'
    BY <1>2 DEF InPile
  <2> QED BY <2>2, <2>3, <2>4 DEF Holding, HandSize
<1> QED BY <1>2, <1>3, <1>4 DEF OnTable!Deal

\* startGame is Start, at any stage.
LEMMA StartIsStart ==
  ASSUME NEW order \in SeatOrders, StartGame(order), Sound'
  PROVE  OnTable!Start
<1>1. IsSeating(order) /\ 1 \in 1..Rounds /\ 0 \in 0..(Len(order) - 1) /\ BuildRound(order, 1, 0)
  BY SeatsAssumption, RoundsAssumption DEF IsSeating, StartGame
<1>2. OnTable!Deal(order, order[0 + 1], 1)
  BY <1>1, BuildRoundDeals
<1> QED BY <1>2 DEF OnTable!Start

\* newGame and continueGame are Again.
LEMMA AgainIsAgain ==
  ASSUME Sound, Sound', NewGame \/ ContinueGame
  PROVE  OnTable!Again
<1> DEFINE n == Len(seatOrder)
           next == (dealerSeat + 1) % n
<1>1. phase = "game-end"
  BY DEF NewGame, ContinueGame
<1>2. IsSeating(seatOrder) /\ n \in Nat /\ n >= 2 /\ dealerSeat \in 0..(n - 1) /\ 1 \in 1..Rounds
  BY <1>1, BidOrderSeating, RoundsAssumption DEF Sound
<1>3. Dealer = seatOrder[dealerSeat + 1] /\ OnTable!LeftOf(seatOrder, Dealer) = seatOrder[next + 1]
  BY <1>1, <1>2, LeftStarting DEF Dealer
<1>4. CASE NewGame
  <2>1. BuildRound(seatOrder, 1, 0) /\ 0 \in 0..(n - 1)
    BY <1>2, <1>4 DEF NewGame
  <2>2. OnTable!Deal(seatOrder, seatOrder[0 + 1], 1)
    BY <1>2, <2>1, BuildRoundDeals
  <2> QED BY <1>1, <2>2 DEF OnTable!Again
<1>5. CASE ContinueGame
  <2>1. BuildRound(seatOrder, 1, next) /\ next \in 0..(n - 1)
    BY <1>2, <1>5, ModRange DEF ContinueGame
  <2> HIDE DEF next
  <2>2. OnTable!Deal(seatOrder, seatOrder[next + 1], 1)
    BY <1>2, <2>1, BuildRoundDeals
  <2> QED BY <1>1, <1>3, <2>2 DEF OnTable!Again, Dealer
<1> QED BY <1>4, <1>5

\* While a hand is played, the cards still due are those of the seats from the turn on;
\* a full pile is due nothing.
LEMMA StillToPlay ==
  ASSUME IInv, phase = "trick"
  PROVE  /\ Len(currentTrick) \in 0..Len(seatOrder)
         /\ Len(currentTrick) < Len(seatOrder) =>
              /\ turnSeat \in 0..(Len(seatOrder) - 1)
              /\ LeftToPlay = SubSeq(OrderFrom(seatOrder, turnSeat), 1, Len(seatOrder) - Len(currentTrick))
         /\ Len(currentTrick) = Len(seatOrder) => turnSeat = -1 /\ LeftToPlay = <<>>
<1> DEFINE n == Len(seatOrder)
           k == Len(currentTrick)
<1>1. IsSeating(seatOrder) /\ n \in Nat /\ n >= 2 /\ k \in Nat
  BY BidOrderSeating DEF IInv, TypeOK
<1>2. PICK leader \in 0..(n - 1) : k <= n /\ turnSeat = IF k < n THEN (leader + k) % n ELSE -1
  BY DEF IInv, PileFollowsSeats
<1>3. (leader + k) % n \in 0..(n - 1)
  BY <1>1, ModRange
<1> QED BY <1>1, <1>2, <1>3 DEF LeftToPlay

\* placeBid is BidNext.
LEMMA BidIsBidNext ==
  ASSUME Sound, Sound', NEW d \in Seated, NEW bid \in BidInput, PlaceBid(d, bid)
  PROVE  OnTable!BidNext
<1> DEFINE n == Len(seatOrder)
           b == bidTurnIndex
<1>1. /\ phase = "bidding" /\ b' = b + 1
      /\ UNCHANGED <<round, seatOrder, bidOrder, dealerSeat, hands, currentTrick>>
  BY DEF PlaceBid, seating
<1>2. /\ IsSeating(seatOrder) /\ IsSeating(bidOrder) /\ Len(bidOrder) = n /\ n \in Nat /\ n >= 2
      /\ dealerSeat \in 0..(n - 1) /\ bidOrder = OrderFrom(seatOrder, dealerSeat + 1)
      /\ bidOrder \in Seq(Devices)
  BY <1>1, BidOrderSeating DEF Sound, IsSeating
<1>3. b \in 0..(n - 1) /\ currentTrick = <<>>
  BY <1>1, <1>2 DEF Sound, IInv, TypeOK, TableSeated
<1>4. phase' = IF b + 1 >= n THEN "trick" ELSE "bidding"
  BY <1>1, <1>2 DEF PlaceBid
<1>5. LeftToBid = SubSeq(bidOrder, b + 1, n)
  BY <1>1, <1>2 DEF LeftToBid
<1>6. Len(LeftToBid) = n - b /\ Tail(LeftToBid) = SubSeq(bidOrder, b + 2, n)
  <2>1. b + 1 \in 1..Len(bidOrder) /\ n \in (b + 1)..Len(bidOrder) /\ (b + 1) + 1 = b + 2
    BY <1>2, <1>3
  <2>2. /\ Len(SubSeq(bidOrder, b + 1, n)) = n - (b + 1) + 1
        /\ Tail(SubSeq(bidOrder, b + 1, n)) = SubSeq(bidOrder, (b + 1) + 1, n)
    BY <1>2, <2>1, TailPart
  <2> QED BY <1>2, <1>3, <1>5, <2>1, <2>2
<1>7. LeftToBid' = Tail(LeftToBid)
  <2>1. CASE b + 1 < n
    <3>1. phase' = "bidding" /\ b' + 1 = b + 2
      BY <1>1, <1>2, <1>3, <1>4, <2>1
    <3> QED BY <1>1, <1>2, <1>6, <3>1 DEF LeftToBid
  <2>2. CASE b + 1 >= n
    <3>1. LeftToBid' = <<>>
      BY <1>4, <2>2 DEF LeftToBid
    <3>2. SubSeq(bidOrder, b + 2, n) = <<>>
      <4>1. b + 2 \in Int /\ n \in Int /\ n < b + 2
        BY <1>2, <1>3, <2>2
      <4> QED BY <4>1, SubSeqEmpty
    <3> QED BY <1>6, <3>1, <3>2
  <2> QED BY <1>2, <1>3, <2>1, <2>2
<1>8. ASSUME b + 1 >= n
      PROVE  LeftToPlay' = OnTable!Starting(seatOrder, OnTable!LeftOf(seatOrder, seatOrder[dealerSeat + 1]))
  <2> DEFINE next == (dealerSeat + 1) % n
  <2>1. next \in 0..(n - 1) /\ next + 1 \in 1..n
    BY <1>2, ModRange
  <2>2. bidOrder[1] = seatOrder[next + 1]
    <3>1. 1 \in 1..n /\ (dealerSeat + 1) + 1 - 1 = dealerSeat + 1
      BY <1>2
    <3> QED BY <1>2, <3>1 DEF OrderFrom
  <2>3. turnSeat' = SeatOf(seatOrder, bidOrder[1])
    BY <1>2, <1>8 DEF PlaceBid
  <2>4. turnSeat' = next
    <3> HIDE DEF next
    <3>1. SeatOf(seatOrder, seatOrder[next + 1]) = next + 1 - 1
      BY <1>2, <2>1, SeatOfPosition
    <3> QED BY <2>1, <2>2, <2>3, <3>1
  <2> HIDE DEF next
  <2>5. LeftToPlay' = SubSeq(OrderFrom(seatOrder, next), 1, n)
    <3>1. phase' = "trick" /\ turnSeat' >= 0 /\ Len(currentTrick') = 0 /\ n - 0 = n
      BY <1>1, <1>2, <1>3, <1>4, <1>8, <2>1, <2>4
    <3> QED BY <1>1, <2>4, <3>1 DEF LeftToPlay
  <2>6. SubSeq(OrderFrom(seatOrder, next), 1, n) = OrderFrom(seatOrder, next)
    <3>1. OrderFrom(seatOrder, next) \in Seq(Devices) /\ Len(OrderFrom(seatOrder, next)) = n
      BY <1>2, <2>1, RotationSeating DEF IsSeating
    <3>2. OrderFrom(seatOrder, next) # <<>>
      BY <1>2, <3>1
    <3> QED BY <3>1, <3>2, WholePart
  <2> QED BY <1>2, <2>5, <2>6, LeftStarting DEF next
<1>9. b + 1 < n => LeftToPlay' = LeftToPlay /\ phase' = phase
  BY <1>1, <1>2, <1>3, <1>4 DEF LeftToPlay
<1>10. HandsToResolve' = HandsToResolve
  <2>1. seatOrder[1] \in Seated /\ Seated' = Seated
    BY <1>1, <1>2, FirstSeated DEF Seated
  <2>2. Holding(seatOrder[1])' = Holding(seatOrder[1])
    BY <1>1 DEF Holding, InPile
  <2>3. /\ HandsToResolve = Holding(seatOrder[1])
        /\ HandsToResolve' = Holding(seatOrder[1])'
    BY <1>1, <1>4, <2>1 DEF Sound, HandsCounted
  <2> QED BY <2>2, <2>3
<1>11. Dealer = seatOrder[dealerSeat + 1] /\ Dealer' = Dealer /\ UNCHANGED <<seatOrder, round>>
  BY <1>1, <1>4 DEF Dealer
<1>12. Len(LeftToBid) = 1 <=> b + 1 >= n
  BY <1>2, <1>3, <1>6
<1> HIDE DEF b, n
<1> QED BY <1>1, <1>4, <1>7, <1>8, <1>9, <1>10, <1>11, <1>12
        DEF OnTable!BidNext, LeftToBid, LeftToPlay, Dealer

\* playCard is PlayNext.
LEMMA PlayIsPlayNext ==
  ASSUME Sound, Sound', NEW d \in Seated, NEW card \in hands[d], PlayCard(d, card)
  PROVE  OnTable!PlayNext
<1> DEFINE n == Len(seatOrder)
           k == Len(currentTrick)
<1>1. /\ phase = "trick" /\ phase' = "trick" /\ turnSeat >= 0
      /\ UNCHANGED <<round, seatOrder, bidOrder, dealerSeat, bidTurnIndex>>
  BY DEF PlayCard, seating, bidding
<1>2. IsSeating(seatOrder) /\ n \in Nat /\ n >= 2
  BY <1>1, BidOrderSeating DEF Sound
<1>3. /\ k \in 0..(n - 1) /\ turnSeat \in 0..(n - 1)
      /\ LeftToPlay = SubSeq(OrderFrom(seatOrder, turnSeat), 1, n - k)
  BY <1>1, <1>2, StillToPlay DEF Sound
<1>4. Len(currentTrick') = k + 1
  BY DEF PlayCard, Sound, IInv, TypeOK
<1> DEFINE T == OrderFrom(seatOrder, turnSeat)
           next == (turnSeat + 1) % n
<1>5. T \in Seq(Devices) /\ Len(T) = n
  <2>1. turnSeat \in 0..Len(seatOrder)
    BY <1>2, <1>3
  <2>2. IsSeating(T) /\ Len(T) = n
    BY <1>2, <2>1, RotationSeating
  <2> QED BY <2>2 DEF IsSeating
<1>6. LeftToPlay # <<>> /\ Tail(LeftToPlay) = SubSeq(T, 2, n - k)
  <2>1. 1 \in 1..Len(T) /\ n - k \in 1..Len(T)
    BY <1>2, <1>3, <1>5
  <2>2. SubSeq(T, 1, n - k) # <<>> /\ Tail(SubSeq(T, 1, n - k)) = SubSeq(T, 1 + 1, n - k)
    BY <1>5, <2>1, TailPart
  <2> QED BY <1>3, <2>2
<1>7. LeftToPlay' = Tail(LeftToPlay)
  <2>1. CASE k + 1 < n
    <3>1. turnSeat' = next /\ next \in 0..(n - 1)
      <4>1. turnSeat' = next
        BY <2>1 DEF PlayCard
      <4>2. turnSeat + 1 \in Int /\ n \in Int /\ n > 0
        BY <1>2, <1>3
      <4>3. next \in 0..(n - 1)
        <5> HIDE DEF n
        <5> QED BY <4>2, ModRange
      <4> QED BY <4>1, <4>3
    <3> DEFINE U == OrderFrom(seatOrder, next)
    <3>2. U \in Seq(Devices) /\ Len(U) = n
      BY <1>2, <3>1, RotationSeating DEF IsSeating
    <3>3. LeftToPlay' = SubSeq(U, 1, n - (k + 1))
      BY <1>1, <1>4, <3>1 DEF LeftToPlay
    <3>4. \A i \in 1..(n - 1) : U[i] = T[i + 1]
      <4> SUFFICES ASSUME NEW i \in 1..(n - 1) PROVE U[i] = T[i + 1]
        OBVIOUS
      <4>1. i \in 1..n /\ i + 1 \in 1..n
        BY <1>2
      <4>2. /\ U[i] = seatOrder[IF next + i <= n THEN next + i ELSE next + i - n]
            /\ T[i + 1] = seatOrder[IF turnSeat + (i + 1) <= n THEN turnSeat + (i + 1)
                                    ELSE turnSeat + (i + 1) - n]
        <5>1. seatOrder \in Seq(Devices) /\ next \in 0..n /\ turnSeat \in 0..n
          BY <1>2, <1>3, <3>1 DEF IsSeating
        <5> HIDE DEF next
        <5> QED BY <4>1, <5>1, RotationAt
      <4>3. next = IF turnSeat + 1 = n THEN 0 ELSE turnSeat + 1
        <5>1. CASE turnSeat + 1 = n
          BY <1>2, <5>1, ModOver
        <5>2. CASE turnSeat + 1 # n
          BY <1>2, <1>3, <5>2, ModSmall
        <5> QED BY <5>1, <5>2
      <4> HIDE DEF next, U, T
      <4> QED BY <1>2, <1>3, <4>1, <4>2, <4>3
    <3> HIDE DEF U, T, next
    <3> DEFINE u == SubSeq(U, 1, n - (k + 1))
               t == SubSeq(T, 2, n - k)
    <3>5. /\ u \in Seq(Devices) /\ Len(u) = n - (k + 1) - 1 + 1
          /\ \A i \in 1..(n - (k + 1) - 1 + 1) : u[i] = U[1 + i - 1]
      <4>1. 1 \in 1..(Len(U) + 1) /\ n - (k + 1) \in 0..Len(U) /\ 1 <= n - (k + 1) + 1
        BY <1>2, <1>3, <2>1, <3>2
      <4> QED BY <3>2, <4>1, PartOf
    <3>6. /\ t \in Seq(Devices) /\ Len(t) = n - k - 2 + 1
          /\ \A i \in 1..(n - k - 2 + 1) : t[i] = T[2 + i - 1]
      <4>1. 2 \in 1..(Len(T) + 1) /\ n - k \in 0..Len(T) /\ 2 <= n - k + 1
        BY <1>2, <1>3, <1>5, <2>1
      <4> QED BY <1>5, <4>1, PartOf
    <3> HIDE DEF u, t
    <3>7. Len(u) = Len(t) /\ \A i \in 1..Len(u) : u[i] = t[i]
      <4>1. Len(u) = n - k - 1 /\ Len(t) = n - k - 1
        BY <1>2, <1>3, <3>5, <3>6
      <4> SUFFICES ASSUME NEW i \in 1..(n - k - 1) PROVE u[i] = t[i]
        BY <4>1
      <4>2. /\ i \in 1..(n - (k + 1) - 1 + 1) /\ i \in 1..(n - k - 2 + 1) /\ i \in 1..(n - 1)
            /\ 1 + i - 1 = i /\ 2 + i - 1 = i + 1
        BY <1>2, <1>3
      <4> QED BY <3>4, <3>5, <3>6, <4>2
    <3>8. u = t
      BY <3>5, <3>6, <3>7, SeqEqual
    <3> QED BY <1>6, <3>3, <3>8 DEF u, t
  <2>2. CASE k + 1 = n
    <3>1. turnSeat' = -1
      BY <1>2, <1>3, <2>2 DEF PlayCard
    <3>2. LeftToPlay' = <<>>
      BY <3>1 DEF LeftToPlay
    <3>3. SubSeq(T, 2, n - k) = <<>>
      <4>1. 2 \in Int /\ n - k \in Int /\ n - k < 2
        BY <1>2, <1>3, <2>2
      <4> QED BY <4>1, SubSeqEmpty
    <3> QED BY <1>6, <3>2, <3>3
  <2>3. k + 1 < n \/ k + 1 = n
    BY <1>2, <1>3
  <2> QED BY <2>1, <2>2, <2>3
<1>8. HandsToResolve' = HandsToResolve
  <2>1. d \in Seated /\ Seated' = Seated /\ Holding(d)' = Holding(d)
    BY <1>1, PlayKeepsHands DEF Sound, Seated
  <2> QED BY <1>1, <2>1 DEF Sound, HandsCounted
<1>9. LeftToBid' = LeftToBid /\ Dealer' = Dealer /\ UNCHANGED <<phase, seatOrder, round>>
  BY <1>1 DEF LeftToBid, Dealer
<1> QED BY <1>1, <1>6, <1>7, <1>8, <1>9 DEF OnTable!PlayNext, LeftToBid, LeftToPlay, Dealer

\* resolvePendingTrick is Resolve: the hand after this one, the next round, or the end.
LEMMA ResolveIsResolve ==
  ASSUME Sound, Sound', ResolvePendingTrick
  PROVE  OnTable!Resolve
<1> DEFINE n == Len(seatOrder)
           tricks == [tricksWon EXCEPT ![Winner] = @ + 1]
           next == (dealerSeat + 1) % n
<1>1. phase = "trick" /\ IsTrickComplete /\ Len(currentTrick) = n
  BY DEF ResolvePendingTrick, IsTrickComplete
<1>2. IsSeating(seatOrder) /\ n \in Nat /\ n >= 2 /\ dealerSeat \in 0..(n - 1) /\ seatOrder \in Seq(Devices)
  BY <1>1, BidOrderSeating DEF Sound
<1>3. LeftToPlay = <<>> /\ LeftToBid = <<>> /\ Dealer = seatOrder[dealerSeat + 1]
  BY <1>1, StillToPlay DEF Sound, LeftToBid, Dealer
<1>4. \A d \in Seated : HandsToResolve = Cardinality(hands[d]) + 1 /\ Cardinality(hands[d]) \in Nat
  BY <1>1, FullPile, FS_CardinalityType DEF Sound, HandsCounted, Holding, HandsInv, HandsFinite
<1>5. DOMAIN hands = Seated /\ seatOrder[1] \in Seated
  BY <1>2, FirstSeated DEF Sound, IInv, TypeOK, Seated
<1>6. HandsToResolve > 1 <=> ~ \A d \in DOMAIN hands : hands[d] = {}
  <2>1. ASSUME \A d \in DOMAIN hands : hands[d] = {} PROVE ~(HandsToResolve > 1)
    <3>1. Cardinality(hands[seatOrder[1]]) = 0
      BY <1>5, <2>1, FS_EmptySet
    <3> QED BY <1>4, <1>5, <3>1
  <2>2. ASSUME NEW d \in Seated, hands[d] # {} PROVE HandsToResolve > 1
    <3>1. Cardinality(hands[d]) # 0
      BY <2>2, FS_EmptySet DEF Sound, HandsInv, HandsFinite
    <3> QED BY <1>4, <2>2, <3>1
  <2> QED BY <1>5, <2>1, <2>2
<1>7. CASE ~ \A d \in DOMAIN hands : hands[d] = {}
  <2>1. /\ currentTrick' = <<>> /\ turnSeat' = SeatOf(seatOrder, Winner)
        /\ UNCHANGED <<phase, round, seatOrder, bidOrder, dealerSeat, hands, bidTurnIndex>>
    BY <1>7 DEF ResolvePendingTrick, seating, bidding
  <2>2. PICK w \in 0..(n - 1) : w = SeatOf(seatOrder, Winner) /\ seatOrder[w + 1] = Winner
    BY <1>1, <1>2, WinnerSeated, SeatOfSeated DEF Sound, Seated
  <2>3. LeftToPlay' = OnTable!Starting(seatOrder, Winner)
    <3>1. OrderFrom(seatOrder, w) \in Seq(Devices) /\ Len(OrderFrom(seatOrder, w)) = n
      <4>1. w \in 0..Len(seatOrder)
        BY <1>2
      <4>2. IsSeating(OrderFrom(seatOrder, w)) /\ Len(OrderFrom(seatOrder, w)) = n
        BY <1>2, <4>1, RotationSeating
      <4> QED BY <4>2 DEF IsSeating
    <3>2. OrderFrom(seatOrder, w) # <<>>
      BY <1>2, <3>1
    <3>3. SubSeq(OrderFrom(seatOrder, w), 1, n) = OrderFrom(seatOrder, w)
      BY <3>1, <3>2, WholePart
    <3>4. LeftToPlay' = SubSeq(OrderFrom(seatOrder, w), 1, n)
      <4>1. phase' = "trick" /\ turnSeat' = w /\ w >= 0 /\ Len(currentTrick') = 0 /\ n - 0 = n
        BY <1>1, <1>2, <2>1, <2>2
      <4> QED BY <2>1, <4>1 DEF LeftToPlay
    <3> QED BY <1>2, <2>2, <3>3, <3>4, StartingIs
  <2>4. HandsToResolve' = HandsToResolve - 1
    <3>1. ~InPile(seatOrder[1])' /\ Seated' = Seated
      BY <2>1 DEF InPile, Seated
    <3>2. HandsToResolve' = Holding(seatOrder[1])'
      BY <1>1, <1>5, <2>1, <3>1 DEF Sound, HandsCounted
    <3>3. Holding(seatOrder[1])' = Cardinality(hands[seatOrder[1]]) + 0
      BY <2>1, <3>1 DEF Holding
    <3> QED BY <1>4, <1>5, <3>2, <3>3
  <2>5. Winner \in OnTable!MembersOf(seatOrder)
    BY <1>1, WinnerSeated DEF Sound, OnTable!MembersOf, Seated, SeatsOf
  <2>6. LeftToBid' = LeftToBid /\ Dealer' = Dealer
    BY <2>1 DEF LeftToBid, Dealer
  <2> QED BY <1>1, <1>3, <1>6, <1>7, <2>1, <2>3, <2>4, <2>5, <2>6
          DEF OnTable!Resolve, LeftToBid, LeftToPlay, Dealer
<1>8. CASE \A d \in DOMAIN hands : hands[d] = {}
  <2>1. FinishRound(tricks)
    BY <1>8 DEF ResolvePendingTrick
  <2>2. CASE round >= Rounds
    <3>1. /\ phase' = "game-end" /\ UNCHANGED <<round, seatOrder, bidOrder, dealerSeat>>
      BY <2>1, <2>2 DEF FinishRound, seating
    <3>2. HandsToResolve' = 0 /\ LeftToBid' = <<>> /\ LeftToPlay' = <<>> /\ Dealer' = Dealer
      BY <1>1, <3>1 DEF HandsToResolve, LeftToBid, LeftToPlay, Dealer
    <3>3. ~(round < Rounds)
      BY <2>2, RoundsAssumption DEF Sound, IInv, TypeOK
    <3> QED BY <1>1, <1>3, <1>6, <1>8, <3>1, <3>2, <3>3 DEF OnTable!Resolve, LeftToBid, LeftToPlay, Dealer
  <2>3. CASE ~(round >= Rounds)
    <3>1. BuildRound(seatOrder, round + 1, next) /\ round + 1 \in 1..Rounds /\ next \in 0..(n - 1)
          /\ round < Rounds
      <4>1. BuildRound(seatOrder, round + 1, next)
        BY <2>1, <2>3 DEF FinishRound
      <4>2. round \in 1..Rounds /\ Rounds \in Nat /\ dealerSeat + 1 \in Int
        BY RoundsAssumption DEF Sound, IInv, TypeOK
      <4>3. round + 1 \in 1..Rounds /\ round < Rounds
        BY <2>3, <4>2
      <4>4. next \in 0..(n - 1)
        <5> HIDE DEF n
        <5> QED BY <1>2, <4>2, ModRange
      <4> QED BY <4>1, <4>3, <4>4
    <3>2. OnTable!LeftOf(seatOrder, Dealer) = seatOrder[next + 1]
      BY <1>2, <1>3, LeftStarting
    <3> HIDE DEF next
    <3>3. OnTable!Deal(seatOrder, seatOrder[next + 1], round + 1)
      BY <1>2, <3>1, BuildRoundDeals
    <3> QED BY <1>1, <1>3, <1>6, <1>8, <3>1, <3>2, <3>3 DEF OnTable!Resolve, LeftToPlay, Dealer
  <2> QED BY <2>2, <2>3
<1> QED BY <1>7, <1>8

\* Renaming a part of a sequence is taking the part of the renamed one.
LEMMA RenamedPart ==
  ASSUME NEW s \in Seq(Devices), NEW from, NEW to \in Devices,
         NEW a \in 1..(Len(s) + 1), NEW b \in 0..Len(s), a <= b + 1,
         NEW r \in Seq(Devices), Len(r) = Len(s), \A i \in 1..Len(s) : r[i] = Rename(s[i], from, to)
  PROVE  OnTable!Renaming(Part(s, a, b), from, to) = Part(r, a, b)
<1> SUFFICES OnTable!Renaming(SubSeq(s, a, b), from, to) = SubSeq(r, a, b)
  BY DEF Part
<1> DEFINE m == b - a + 1
           t == SubSeq(s, a, b)
           u == SubSeq(r, a, b)
<1>1. m \in Nat /\ t \in Seq(Devices) /\ Len(t) = m /\ \A i \in 1..m : t[i] = s[a + i - 1]
  BY PartOf
<1>3. u \in Seq(Devices) /\ Len(u) = m /\ \A i \in 1..m : u[i] = r[a + i - 1]
  BY PartOf
<1> HIDE DEF t, u
<1>4. OnTable!Renaming(t, from, to) = [i \in 1..m |-> Rename(t[i], from, to)]
  BY <1>1 DEF OnTable!Renaming, Rename
<1>5. \A i \in 1..m : Rename(t[i], from, to) = u[i]
  <2> TAKE i \in 1..m
  <2>1. a + i - 1 \in 1..Len(s)
    OBVIOUS
  <2> QED BY <1>1, <1>3, <2>1
<1>6. u = [i \in 1..m |-> u[i]]
  BY <1>3
<1> HIDE DEF m
<1>7. OnTable!Renaming(t, from, to) = u
  BY <1>4, <1>5, <1>6
<1> QED BY <1>7 DEF t, u

\* replacePlayer changes nothing about the hands left: the newcomer holds what its
\* predecessor held.
LEMMA ReplaceKeepsCount ==
  ASSUME Sound, Sound', NEW from, NEW to \in Devices, ReplacePlayer(from, to)
  PROVE  HandsToResolve' = HandsToResolve
<1> DEFINE k == Len(currentTrick)
<1>1. /\ from \in Seated /\ to \notin Seated /\ Seated' = (Seated \ {from}) \cup {to}
      /\ Len(currentTrick') = k
      /\ \A i \in 1..k : currentTrick'[i].deviceId = Rename(currentTrick[i].deviceId, from, to)
  BY ReplacedEntries DEF Sound
<1>2. hands'[to] = hands[from] /\ phase' = phase
  BY ReplacedHands DEF Sound, ReplacePlayer
<1>3. \A i \in 1..k : currentTrick[i].deviceId # to
  BY <1>1, PileSeated DEF Sound
<1>4. InPile(to)' <=> InPile(from)
  BY <1>1, <1>3 DEF InPile, Rename
<1>5. Holding(to)' = Holding(from)
  BY <1>2, <1>4 DEF Holding
<1>6. CASE phase \in {"bidding", "trick"}
  BY <1>1, <1>2, <1>5, <1>6 DEF Sound, HandsCounted
<1>7. CASE phase \notin {"bidding", "trick"}
  <2>1. phase \in {"none", "game-end"} /\ phase' \in {"none", "game-end"}
    BY <1>2, <1>7 DEF Sound, IInv, TypeOK
  <2> QED BY <2>1 DEF HandsToResolve
<1> QED BY <1>6, <1>7

\* replacePlayer is Replaced.
LEMMA ReplaceIsReplaced ==
  ASSUME Sound, Sound', NEW from, NEW to \in Devices, ReplacePlayer(from, to)
  PROVE  OnTable!Replaced(from, to)
<1> DEFINE n == Len(seatOrder)
           k == Len(currentTrick)
           b == bidTurnIndex
           renamed == [i \in 1..n |-> Rename(seatOrder[i], from, to)]
<1>1. /\ from \in Seated /\ to \notin Seated /\ Len(currentTrick') = k
      /\ seatOrder' = renamed
      /\ bidOrder' = [i \in 1..Len(bidOrder) |-> Rename(bidOrder[i], from, to)]
      /\ UNCHANGED <<phase, round, dealerSeat, bidTurnIndex, turnSeat>>
  BY ReplacedEntries DEF ReplacePlayer, Sound
<1>2. phase # "none"
  <2>1. seatOrder # <<>>
    BY <1>1 DEF Seated, SeatsOf
  <2> QED BY <2>1 DEF Sound, IInv, TableSeated
<1>3. /\ IsSeating(seatOrder) /\ IsSeating(bidOrder) /\ Len(bidOrder) = n /\ n \in Nat /\ n >= 2
      /\ dealerSeat \in 0..(n - 1) /\ bidOrder \in Seq(Devices) /\ seatOrder \in Seq(Devices)
  BY <1>2, BidOrderSeating DEF Sound, IsSeating
<1>4. Len(seatOrder') = n /\ Len(bidOrder') = n
  BY <1>1, <1>3
<1>12. IsSeating(seatOrder') /\ bidOrder' \in Seq(Devices)
  BY <1>1, <1>2 DEF Sound, IInv, TableSeated, TypeOK
<1>5. seatOrder' = OnTable!Renaming(seatOrder, from, to)
  BY <1>1 DEF OnTable!Renaming, Rename
<1>6. Dealer' = IF Dealer = from THEN to ELSE Dealer
  <2>1. dealerSeat + 1 \in 1..n
    BY <1>3
  <2>2. seatOrder'[dealerSeat + 1] = Rename(seatOrder[dealerSeat + 1], from, to)
    BY <1>1, <2>1
  <2> QED BY <1>1, <1>2, <2>2 DEF Dealer, Rename
<1>7. OnTable!Renaming(<<>>, from, to) = <<>>
  BY DEF OnTable!Renaming
<1>8. LeftToBid' = OnTable!Renaming(LeftToBid, from, to)
  <2>1. CASE phase = "bidding"
    <3>1. b \in Nat /\ b < n
      BY <1>3, <2>1 DEF Sound, IInv, TypeOK, TableSeated
    <3> DEFINE a == b + 1
               r == bidOrder'
    <3>3. OnTable!Renaming(Part(bidOrder, a, n), from, to) = Part(r, a, n)
      <4>1. a \in 1..(Len(bidOrder) + 1) /\ n \in 0..Len(bidOrder) /\ a <= n + 1
        BY <1>3, <3>1
      <4>2. Len(r) = Len(bidOrder) /\ \A i \in 1..Len(bidOrder) : r[i] = Rename(bidOrder[i], from, to)
        BY <1>1, <1>3
      <4> HIDE DEF a, n
      <4>3. r \in Seq(Devices)
        BY <1>12
      <4> HIDE DEF r
      <4> QED BY <1>3, <4>1, <4>2, <4>3, RenamedPart
    <3>4. LeftToBid = Part(bidOrder, a, n) /\ LeftToBid' = Part(r, a, n)
      BY <1>1, <1>3, <1>4, <2>1 DEF LeftToBid, Part
    <3> QED BY <3>3, <3>4
  <2>2. CASE phase # "bidding"
    <3>1. LeftToBid = <<>> /\ LeftToBid' = <<>>
      BY <1>1, <2>2 DEF LeftToBid
    <3> QED BY <1>7, <3>1
  <2> QED BY <2>1, <2>2
<1>9. LeftToPlay' = OnTable!Renaming(LeftToPlay, from, to)
  <2>1. CASE phase = "trick" /\ turnSeat >= 0
    <3>1. /\ k \in 0..(n - 1)
          /\ turnSeat \in 0..(n - 1)
          /\ LeftToPlay = SubSeq(OrderFrom(seatOrder, turnSeat), 1, n - k)
      <4>1. k \in 0..n /\ (k < n => turnSeat \in 0..(n - 1)
                                     /\ LeftToPlay = SubSeq(OrderFrom(seatOrder, turnSeat), 1, n - k))
            /\ (k = n => turnSeat = -1)
        BY <2>1, StillToPlay DEF Sound
      <4> QED BY <1>3, <2>1, <4>1
    <3> DEFINE T == OrderFrom(seatOrder, turnSeat)
               T2 == OrderFrom(renamed, turnSeat)
    <3>2. T \in Seq(Devices) /\ Len(T) = n
      <4>1. turnSeat \in 0..n
        BY <1>3, <3>1
      <4> QED BY <1>3, <4>1, RotationSeating DEF IsSeating
    <3>3. \A i \in 1..n : T2[i] = Rename(T[i], from, to)
      <4>1. turnSeat \in Nat /\ Len(seatOrder) > 0
        BY <1>3, <3>1
      <4>2. Len(renamed) = n
        BY <1>3
      <4>3. \A i \in 1..n : ((turnSeat + i - 1) % n) + 1 \in 1..n
        BY <1>3, <4>1, ModRange
      <4> SUFFICES ASSUME NEW i \in 1..n PROVE T2[i] = Rename(T[i], from, to)
        OBVIOUS
      <4> DEFINE at == ((turnSeat + i - 1) % n) + 1
      <4>4. at \in 1..n
        BY <4>3
      <4>5. T[i] = seatOrder[at]
        BY DEF OrderFrom
      <4>6. T2[i] = renamed[at]
        <5> HIDE DEF renamed
        <5> QED BY <4>2 DEF OrderFrom
      <4> HIDE DEF at, T, T2
      <4>7. renamed[at] = Rename(seatOrder[at], from, to)
        BY <4>4
      <4> QED BY <4>5, <4>6, <4>7
    <3>5. T2 \in Seq(Devices) /\ Len(T2) = n
      <4>1. turnSeat \in 0..Len(seatOrder') /\ IsSeating(seatOrder')
        BY <1>3, <1>4, <1>12, <3>1
      <4>2. IsSeating(OrderFrom(seatOrder', turnSeat)) /\ Len(OrderFrom(seatOrder', turnSeat)) = n
        BY <1>4, <4>1, RotationSeating
      <4>3. T2 = OrderFrom(seatOrder', turnSeat)
        BY <1>1
      <4> HIDE DEF T2
      <4> QED BY <4>2, <4>3 DEF IsSeating
    <3> HIDE DEF T, T2
    <3>4. 1 \in 1..(Len(T) + 1) /\ n - k \in 0..Len(T) /\ 1 <= n - k + 1
      BY <1>3, <3>1, <3>2
    <3> DEFINE m == n - k
    <3>6. OnTable!Renaming(Part(T, 1, m), from, to) = Part(T2, 1, m)
      <4>1. 1 \in 1..(Len(T) + 1) /\ m \in 0..Len(T) /\ 1 <= m + 1
        BY <3>4
      <4> HIDE DEF m
      <4> QED BY <3>2, <3>3, <3>5, <4>1, RenamedPart
    <3>7. LeftToPlay' = Part(T2, 1, m)
      <4>1. LeftToPlay' = SubSeq(OrderFrom(seatOrder', turnSeat), 1, Len(seatOrder') - Len(currentTrick'))
        BY <1>1, <2>1 DEF LeftToPlay
      <4> QED BY <1>1, <1>4, <4>1 DEF T2, Part
    <3>8. LeftToPlay = Part(T, 1, m)
      BY <3>1 DEF T, Part
    <3> QED BY <3>6, <3>7, <3>8
  <2>2. CASE ~(phase = "trick" /\ turnSeat >= 0)
    <3>1. LeftToPlay = <<>> /\ LeftToPlay' = <<>>
      BY <1>1, <2>2 DEF LeftToPlay
    <3> QED BY <1>7, <3>1
  <2> QED BY <2>1, <2>2
<1>10. HandsToResolve' = HandsToResolve
  BY ReplaceKeepsCount
<1>11. from \in OnTable!MembersOf(seatOrder) /\ to \notin OnTable!MembersOf(seatOrder)
  BY <1>1 DEF OnTable!MembersOf, Seated, SeatsOf
<1> HIDE DEF n, k, b, renamed
<1> QED BY <1>1, <1>5, <1>6, <1>8, <1>9, <1>10, <1>11
        DEF OnTable!Replaced, LeftToBid, LeftToPlay, Dealer

-------------------------------------------------------------------------------
(* removePlayer.                                                           *)

\* filter() on a seating is Table's Keep, and nothing is kept of nothing.
LEMMA LeaveIsKeep ==
  ASSUME NEW s, IsSeating(s), NEW p \in 1..Len(s)
  PROVE  OnTable!Keep(s, s[p]) = Leave(s, s[p]) /\ OnTable!Keep(<<>>, s[p]) = <<>>
<1>1. OnTable!IndexIn(s, s[p]) = p /\ s[p] \in OnTable!MembersOf(s)
  BY SeatIndex DEF OnTable!MembersOf
<1>2. Leave(s, s[p]) = Without(s, p)
  BY LeaveAt
<1>3. OnTable!Keep(s, s[p]) = Without(s, p)
  BY <1>1 DEF OnTable!Keep, Without
<1>4. OnTable!Keep(<<>>, s[p]) = <<>>
  BY DEF OnTable!Keep, OnTable!MembersOf
<1> QED BY <1>2, <1>3, <1>4

\* The hands left stay the same: whoever stays holds what it held.
LEMMA RemoveKeepsCount ==
  ASSUME Sound, Sound', NEW d, RemovePlayer(d)
  PROVE  HandsToResolve' = HandsToResolve
<1>1. /\ Seated' = Seated \ {d} /\ IsSeating(seatOrder') /\ phase # "none"
      /\ hands' = RemoveKey(hands, d)
  BY RemovedTable DEF RemovePlayer, Sound
<1>2. PICK e \in Seated' : e \in Seated /\ e # d
  <2>1. seatOrder'[1] \in Seated'
    BY <1>1, FirstSeated DEF Seated
  <2> QED BY <1>1, <2>1
<1>3. hands'[e] = hands[e]
  BY <1>1, <1>2 DEF RemoveKey, Sound, IInv, TypeOK
<1>4. InPile(e)' <=> InPile(e)
  <2>1. \A i \in 1..Len(currentTrick') : \E j \in 1..Len(currentTrick) : currentTrick'[i] = currentTrick[j]
    BY RemovedPileIsPart DEF Sound
  <2>2. \A j \in 1..Len(currentTrick) : currentTrick[j].deviceId # d =>
          \E i \in 1..Len(currentTrick') : currentTrick'[i] = currentTrick[j]
    BY RemovedPileKeeps DEF Sound
  <2> QED BY <1>2, <2>1, <2>2 DEF InPile
<1>5. Holding(e)' = Holding(e)
  BY <1>3, <1>4 DEF Holding
<1>6. CASE phase \in {"bidding", "trick"}
  <2>1. phase' \in {"bidding", "trick"}
    BY <1>6 DEF RemovePlayer, RemoveWhileBidding, RemoveWhilePlaying, RemoveAtGameEnd
  <2> QED BY <1>2, <1>5, <1>6, <2>1 DEF Sound, HandsCounted
<1>7. CASE phase \notin {"bidding", "trick"}
  <2>1. phase = "game-end" /\ phase' = "game-end"
    BY <1>7 DEF RemovePlayer, RemoveWhileBidding, RemoveWhilePlaying, RemoveAtGameEnd
  <2> QED BY <2>1 DEF HandsToResolve
<1> QED BY <1>6, <1>7

\* A dealer who leaves hands the deal to the seat on the right; another dealer stays.
LEMMA RemovedDealer ==
  ASSUME Sound, Sound', NEW d, RemovePlayer(d)
  PROVE  Dealer' = IF Dealer = d THEN OnTable!RightOf(seatOrder, d) ELSE Dealer
<1> DEFINE n == Len(seatOrder)
           gone == SeatOf(seatOrder, d)
<1>1. /\ d \in Seated /\ phase # "none" /\ n > 2 /\ gone \in 0..(n - 1)
      /\ seatOrder' = Leave(seatOrder, d) /\ Len(seatOrder') = n - 1
      /\ dealerSeat' \in 0..(n - 2)
  BY RemovedTable DEF Sound
<1>2. IsSeating(seatOrder) /\ n \in Nat /\ dealerSeat \in 0..(n - 1) /\ seatOrder[gone + 1] = d
  BY <1>1, BidOrderSeating, SeatOfSeated DEF Sound, IsSeating, Seated
<1>3. phase' # "none"
  BY <1>1 DEF RemovePlayer, RemoveWhileBidding, RemoveWhilePlaying, RemoveAtGameEnd
<1>4. dealerSeat' = IF gone < dealerSeat THEN dealerSeat - 1
                    ELSE IF gone = dealerSeat THEN (gone - 1 + (n - 1)) % (n - 1)
                    ELSE dealerSeat
  BY <1>1 DEF RemovePlayer, DealerSeatWithout
<1>5. \A i \in 1..(n - 1) : seatOrder'[i] = seatOrder[IF i < gone + 1 THEN i ELSE i + 1]
  <2>1. gone + 1 \in 1..Len(seatOrder)
    BY <1>1, <1>2
  <2> HIDE DEF gone
  <2> QED BY <1>1, <1>2, <2>1, LeaveAt
<1>6. Dealer = seatOrder[dealerSeat + 1] /\ Dealer' = seatOrder'[dealerSeat' + 1]
  BY <1>1, <1>3 DEF Dealer
<1>7. Dealer = d <=> dealerSeat = gone
  <2>1. dealerSeat + 1 \in 1..n /\ gone + 1 \in 1..n
    BY <1>1, <1>2
  <2>2. seatOrder[dealerSeat + 1] = seatOrder[gone + 1] => dealerSeat + 1 = gone + 1
    BY <1>2, <2>1 DEF IsSeating
  <2> QED BY <1>1, <1>2, <1>6, <2>2
<1>8. CASE gone # dealerSeat
  <2>1. dealerSeat' + 1 \in 1..(n - 1)
        /\ (IF dealerSeat' + 1 < gone + 1 THEN dealerSeat' + 1 ELSE dealerSeat' + 2) = dealerSeat + 1
    <3> HIDE DEF n, gone
    <3> QED BY <1>1, <1>2, <1>4, <1>8
  <2> HIDE DEF n, gone
  <2>2. seatOrder'[dealerSeat' + 1] = seatOrder[dealerSeat + 1]
    BY <1>1, <1>5, <2>1
  <2> QED BY <1>6, <1>7, <1>8, <2>2
<1>9. CASE gone = dealerSeat
  <2>1. OnTable!RightOf(seatOrder, d) = seatOrder[((gone + 1 + n - 2) % n) + 1]
    <3>1. OnTable!IndexIn(seatOrder, d) = gone + 1
      <4>1. gone + 1 \in 1..Len(seatOrder)
        BY <1>1, <1>2
      <4> HIDE DEF gone
      <4> QED BY <1>2, <4>1, SeatIndex
    <3> QED BY <3>1 DEF OnTable!RightOf
  <2> HIDE DEF n, gone
  <2>2. CASE gone = 0
    <3>1. dealerSeat' = n - 2 /\ (gone + 1 + n - 2) % n = n - 1
      BY <1>1, <1>2, <1>4, <1>9, <2>2, ModSmall
    <3>2. n - 1 \in 1..(n - 1) /\ ~(n - 1 < gone + 1) /\ dealerSeat' + 1 = n - 1 /\ n - 1 + 1 = n
      BY <1>1, <1>2, <2>2, <3>1
    <3>3. seatOrder'[n - 1] = seatOrder[n]
      BY <1>5, <3>2
    <3> QED BY <1>6, <1>7, <1>9, <2>1, <3>1, <3>2, <3>3
  <2>3. CASE gone # 0
    <3>1. (gone - 1 + (n - 1)) % (n - 1) = gone - 1 /\ (gone + 1 + n - 2) % n = gone - 1
      <4>1. gone - 1 + (n - 1) \in Nat /\ n - 1 \in Nat /\ n - 1 > 0 /\ n - 1 <= gone - 1 + (n - 1)
            /\ gone - 1 + (n - 1) < 2 * (n - 1)
        BY <1>1, <1>2, <2>3
      <4>2. gone + 1 + n - 2 \in Nat /\ n > 0 /\ n <= gone + 1 + n - 2 /\ gone + 1 + n - 2 < 2 * n
        BY <1>1, <1>2, <2>3
      <4>3. (gone - 1 + (n - 1)) % (n - 1) = gone - 1 + (n - 1) - (n - 1)
        <5> DEFINE a == gone - 1 + (n - 1)
                   m == n - 1
        <5>1. a \in Nat /\ m \in Nat /\ m > 0 /\ m <= a /\ a < 2 * m
          BY <4>1
        <5> HIDE DEF a, m
        <5>2. a % m = a - m
          BY <5>1, ModOver
        <5> QED BY <1>1, <1>2, <5>2 DEF a, m
      <4>4. (gone + 1 + n - 2) % n = gone + 1 + n - 2 - n
        <5> DEFINE a == gone + 1 + n - 2
        <5>1. a \in Nat /\ n \in Nat /\ n > 0 /\ n <= a /\ a < 2 * n
          BY <1>2, <4>2
        <5> HIDE DEF a
        <5>2. a % n = a - n
          BY <5>1, ModOver
        <5> QED BY <1>1, <1>2, <5>2 DEF a
      <4> QED BY <1>1, <1>2, <4>3, <4>4
    <3>2. dealerSeat' = gone - 1 /\ gone \in 1..(n - 1) /\ gone < gone + 1 /\ gone - 1 + 1 = gone
      BY <1>1, <1>2, <1>4, <1>9, <2>3, <3>1
    <3>3. seatOrder'[gone] = seatOrder[gone]
      BY <1>5, <3>2
    <3> QED BY <1>6, <1>7, <1>9, <2>1, <3>1, <3>2, <3>3
  <2> QED BY <2>2, <2>3
<1> QED BY <1>8, <1>9

\* Where play begins when a removal ends the auction.
LEMMA PlayBegins ==
  ASSUME Sound', phase' = "trick", currentTrick' = <<>>, turnSeat' = SeatOf(seatOrder', bidOrder'[1])
  PROVE  LeftToPlay' = OnTable!Starting(seatOrder', OnTable!LeftOf(seatOrder', Dealer'))
<1> DEFINE n == Len(seatOrder')
           next == (dealerSeat' + 1) % n
<1>1. /\ IsSeating(seatOrder') /\ dealerSeat' \in 0..(n - 1)
      /\ bidOrder' = OrderFrom(seatOrder', dealerSeat' + 1)
  BY DEF Sound, IInv, TableSeated, DealerBidsLast
<1>2. n \in Nat /\ n >= 2
  BY <1>1 DEF IsSeating
<1>3. next \in 0..(n - 1) /\ next + 1 \in 1..n
  BY <1>1, <1>2, ModRange
<1>4. bidOrder'[1] = seatOrder'[next + 1]
  <2>1. 1 \in 1..n /\ (dealerSeat' + 1) + 1 - 1 = dealerSeat' + 1
    BY <1>1, <1>2
  <2> QED BY <1>1, <2>1 DEF OrderFrom
<1>5. turnSeat' = next
  <2> HIDE DEF next
  <2>1. SeatOf(seatOrder', seatOrder'[next + 1]) = next + 1 - 1
    BY <1>1, <1>3, SeatOfPosition
  <2> QED BY <1>3, <1>4, <2>1
<1> HIDE DEF next
<1>6. LeftToPlay' = SubSeq(OrderFrom(seatOrder', next), 1, n)
  <2>1. turnSeat' >= 0 /\ Len(currentTrick') = 0 /\ n - 0 = n
    BY <1>2, <1>3, <1>5
  <2> QED BY <1>5, <2>1 DEF LeftToPlay
<1>7. SubSeq(OrderFrom(seatOrder', next), 1, n) = OrderFrom(seatOrder', next)
  <2>1. next \in 0..Len(seatOrder')
    BY <1>2, <1>3
  <2>2. OrderFrom(seatOrder', next) \in Seq(Devices) /\ Len(OrderFrom(seatOrder', next)) = n
    BY <1>1, <2>1, RotationSeating DEF IsSeating
  <2>3. OrderFrom(seatOrder', next) # <<>>
    BY <1>2, <2>2
  <2> QED BY <2>2, <2>3, WholePart
<1>8. Dealer' = seatOrder'[dealerSeat' + 1]
  BY DEF Dealer
<1> QED BY <1>1, <1>6, <1>7, <1>8, LeftStarting DEF next

\* During the auction the seat that left owes no bid any more, and those after it owe
\* theirs; the auction ends when nobody owes one.
LEMMA RemovedBidding ==
  ASSUME Sound, Sound', NEW d, RemovePlayer(d), phase = "bidding"
  PROVE  /\ (phase' = "trick") <=> (OnTable!Keep(LeftToBid, d) = <<>>)
         /\ phase' \in {"bidding", "trick"}
         /\ LeftToBid' = OnTable!Keep(LeftToBid, d)
<1> DEFINE n == Len(seatOrder)
           b == bidTurnIndex
           now == bidTurnIndex'
<1>1. /\ d \in Seated /\ n > 2 /\ Len(seatOrder') = n - 1
  BY RemovedTable DEF Sound
<1>2. /\ IsSeating(bidOrder) /\ Len(bidOrder) = n /\ SeatsOf(bidOrder) = Seated /\ n \in Nat
      /\ bidOrder \in Seq(Devices)
  BY BidOrderSeating DEF Sound, IsSeating
<1>3. PICK p \in 1..n : bidOrder[p] = d
  BY <1>1, <1>2 DEF SeatsOf
<1>4. bidOrder' = Leave(bidOrder, d) /\ bids' = RemoveKey(bids, d)
  BY DEF RemovePlayer
<1>5. /\ Len(bidOrder') = n - 1 /\ bidOrder' \in Seq(Devices)
      /\ \A i \in 1..(n - 1) : bidOrder'[i] = bidOrder[IF i < p THEN i ELSE i + 1]
  <2>1. \A i \in 1..(Len(bidOrder) - 1) : Leave(bidOrder, bidOrder[p])[i] = bidOrder[IF i < p THEN i ELSE i + 1]
    BY <1>2, <1>3, LeaveAt
  <2>2. Len(bidOrder') = Len(seatOrder') /\ IsSeating(bidOrder')
    BY RemovedBids DEF Sound
  <2> QED BY <1>1, <1>2, <1>3, <1>4, <2>1, <2>2 DEF IsSeating
<1>6. b \in 0..(n - 1) /\ now \in Nat
  BY <1>1, <1>2, RemovedBids DEF Sound, IInv, TypeOK, TableSeated
<1>7. /\ phase' \in {"bidding", "trick"}
      /\ phase' = "bidding" => now < n - 1
      /\ phase' = "trick" => now = n - 1
  <2>1. RemoveWhileBidding(d, SeatOf(seatOrder, d))
    BY DEF RemovePlayer, RemoveWhilePlaying, RemoveAtGameEnd
  <2>2. phase' \in {"bidding", "trick"} /\ (phase' = "trick" => now = Len(bidOrder'))
    BY <2>1 DEF RemoveWhileBidding
  <2>3. phase' = "bidding" => now < Len(bidOrder')
    BY RemovedBids DEF Sound
  <2> QED BY <1>5, <2>2, <2>3
<1> DEFINE last == IF p <= b THEN b - 1 ELSE b
<1>8. now = last
  <2>1. last \in 0..(n - 1) /\ now \in 0..(n - 1)
    BY <1>2, <1>3, <1>6, <1>7
  <2>2. \A i \in 1..(n - 1) : i <= now <=> i <= last
    <3> SUFFICES ASSUME NEW i \in 1..(n - 1) PROVE i <= now <=> i <= last
      OBVIOUS
    <3> DEFINE was == IF i < p THEN i ELSE i + 1
    <3>1. was \in 1..n /\ was # p /\ bidOrder'[i] = bidOrder[was]
      BY <1>2, <1>3, <1>5
    <3>2. was <= b <=> i <= last
      BY <1>2, <1>3, <1>6
    <3>3. i <= now <=> bids'[bidOrder'[i]] # Null
      <4>1. i \in 1..Len(bidOrder') /\ phase' # "none"
        BY <1>5, <1>7
      <4> QED BY <4>1 DEF Sound, IInv, DealerBidsLast
    <3> HIDE DEF was
    <3>4. was <= b <=> bids[bidOrder[was]] # Null
      <4>1. was \in 1..Len(bidOrder)
        BY <1>2, <3>1
      <4> QED BY <4>1 DEF Sound, IInv, DealerBidsLast
    <3>5. bids'[bidOrder[was]] = bids[bidOrder[was]]
      <4>1. bidOrder[was] \in Seated \ {d}
        BY <1>2, <1>3, <3>1 DEF IsSeating, SeatsOf
      <4>2. DOMAIN bids = Seated
        BY DEF Sound, IInv, TypeOK
      <4> QED BY <1>4, <4>1, <4>2 DEF RemoveKey
    <3> QED BY <3>1, <3>2, <3>3, <3>4, <3>5
  <2> HIDE DEF last, now
  <2>3. ~(now < last)
    <3>1. now < last => now + 1 \in 1..(n - 1) /\ now + 1 <= last /\ ~(now + 1 <= now)
      BY <1>2, <2>1
    <3> QED BY <2>2, <3>1
  <2>4. ~(last < now)
    <3>1. last < now => last + 1 \in 1..(n - 1) /\ last + 1 <= now /\ ~(last + 1 <= last)
      BY <1>2, <2>1
    <3> QED BY <2>2, <3>1
  <2> QED BY <2>1, <2>3, <2>4
<1> DEFINE a == b + 1
           owed == Part(bidOrder', now + 1, n - 1)
<1>9. OnTable!Keep(LeftToBid, d) = owed
  <2>1. LeftToBid = Part(bidOrder, a, n)
    BY <1>2 DEF LeftToBid, Part
  <2>2. a \in 1..(Len(bidOrder) + 1) /\ n \in 0..Len(bidOrder) /\ a <= n + 1 /\ Len(bidOrder) > 2
    BY <1>1, <1>2, <1>6
  <2>3. (IF p < a THEN a - 1 ELSE a) = now + 1 /\ (IF p <= n THEN n - 1 ELSE n) = n - 1
    BY <1>2, <1>3, <1>6, <1>8
  <2> HIDE DEF a, n, now
  <2>4. OnTable!Keep(Part(bidOrder, a, n), bidOrder[p])
          = Part(Leave(bidOrder, bidOrder[p]), IF p < a THEN a - 1 ELSE a, IF p <= n THEN n - 1 ELSE n)
    BY <1>2, <2>2, KeepPart
  <2> QED BY <1>3, <1>4, <2>1, <2>3, <2>4
<1>10. Len(owed) = n - 1 - now
  <2>1. now + 1 \in 1..(Len(bidOrder') + 1) /\ n - 1 \in 0..Len(bidOrder') /\ now + 1 <= (n - 1) + 1
    <3>1. now <= n - 1
      BY <1>2, <1>6, <1>7
    <3>2. Len(bidOrder') = n - 1
      BY <1>5
    <3> HIDE DEF n, now
    <3> QED BY <1>1, <1>2, <1>6, <3>1, <3>2
  <2> DEFINE m == n - 1
             f == now + 1
  <2>2. Len(SubSeq(bidOrder', f, m)) = m - f + 1
    <3>1. f \in 1..(Len(bidOrder') + 1) /\ m \in 0..Len(bidOrder') /\ f <= m + 1
      BY <2>1
    <3> HIDE DEF f, m
    <3> QED BY <1>5, <3>1, PartOf
  <2>3. m - f + 1 = n - 1 - now
    BY <1>2, <1>6
  <2> QED BY <2>2, <2>3 DEF Part
<1>11. owed = <<>> <=> phase' = "trick"
  <2>1. phase' = "trick" => owed = <<>>
    <3> SUFFICES ASSUME phase' = "trick" PROVE owed = <<>>
      OBVIOUS
    <3>1. n - 1 \in Int /\ now + 1 \in Int /\ n - 1 < now + 1
      BY <1>2, <1>6, <1>7
    <3> QED BY <3>1, SubSeqEmpty DEF Part
  <2>2. phase' = "bidding" => Len(owed) # 0
    BY <1>2, <1>6, <1>7, <1>10
  <2>3. owed = <<>> => Len(owed) = 0
    <3> HIDE DEF owed
    <3> QED OBVIOUS
  <2> QED BY <1>7, <2>1, <2>2, <2>3
<1>12. LeftToBid' = owed
  <2>1. CASE phase' = "bidding"
    BY <1>5, <2>1 DEF LeftToBid, Part
  <2>2. CASE phase' = "trick"
    <3>1. LeftToBid' = <<>>
      BY <2>2 DEF LeftToBid
    <3> QED BY <1>11, <2>2, <3>1
  <2> QED BY <1>7, <2>1, <2>2
<1> HIDE DEF owed
<1> QED BY <1>7, <1>9, <1>11, <1>12

\* The turn after a removal, while a card is still due: the first seat of those left
\* that follows the seats who have played.
LEMMA RemovedTurn ==
  ASSUME Sound, Sound', NEW d, RemovePlayer(d), phase = "trick", turnSeat \in 0..(Len(seatOrder) - 1),
         Len(currentTrick') < Len(seatOrder')
  PROVE  /\ turnSeat' \in 0..(Len(seatOrder') - 1)
         /\ OrderFrom(seatOrder', turnSeat') = Leave(OrderFrom(seatOrder, turnSeat), d)
<1> DEFINE n == Len(seatOrder)
           gone == SeatOf(seatOrder, d)
           T == OrderFrom(seatOrder, turnSeat)
           q == PlaceOf(n, turnSeat, gone)
           first == FirstWithout(turnSeat, gone)
           rest == OrderFrom(seatOrder', first)
           next == ((gone + 1) % n) + 1
<1>1. /\ d \in Seated /\ n > 2 /\ gone \in 0..(n - 1) /\ IsSeating(seatOrder')
      /\ seatOrder' = Leave(seatOrder, d) /\ Len(seatOrder') = n - 1
  BY RemovedTable DEF Sound
<1>2. /\ IsSeating(seatOrder) /\ n \in Nat /\ seatOrder[gone + 1] = d /\ turnSeat \in 0..n
      /\ d \in SeatsOf(seatOrder) /\ seatOrder \in Seq(Devices)
  <2>1. IsSeating(seatOrder)
    BY <1>1, BidOrderSeating DEF Sound
  <2>2. n \in Nat /\ turnSeat \in 0..n /\ seatOrder \in Seq(Devices)
    BY <2>1 DEF IsSeating
  <2>3. d \in SeatsOf(seatOrder) /\ seatOrder[gone + 1] = d
    BY <1>1, <2>2, SeatOfSeated DEF Seated
  <2> QED BY <2>1, <2>2, <2>3
<1>3. first \in 0..(n - 1) /\ T[q] = d /\ q \in 1..n /\ Leave(T, d) = rest
  BY <1>1, <1>2, LeaveRotation
<1>4. IsSeating(T) /\ Len(T) = n /\ \A i \in 1..n : T[i] = seatOrder[((turnSeat + i - 1) % n) + 1]
  BY <1>2, RotationSeating DEF OrderFrom
<1> HIDE DEF T, q, first, rest, gone
<1>5. rest[1] = T[IF 1 < q THEN 1 ELSE 2]
  <2>1. 1 \in 1..(Len(T) - 1) /\ q \in 1..Len(T)
    BY <1>1, <1>2, <1>3, <1>4
  <2>2. Leave(T, T[q])[1] = T[IF 1 < q THEN 1 ELSE 1 + 1]
    BY <1>4, <2>1, LeaveAt
  <2> QED BY <1>3, <2>2
<1>6. T[1] = seatOrder[turnSeat + 1]
  <2>1. 1 \in 1..n /\ turnSeat + 1 - 1 = turnSeat
    BY <1>1, <1>2
  <2>2. turnSeat % n = turnSeat
    BY <1>2, ModSmall
  <2> QED BY <1>4, <2>1, <2>2
<1>7. q = 1 <=> seatOrder[turnSeat + 1] = d
  <2>1. T[1] = T[q] => 1 = q
    BY <1>1, <1>2, <1>3, <1>4 DEF IsSeating
  <2> QED BY <1>3, <1>6, <2>1
<1>8. q = 1 => seatOrder[next] = T[2]
  <2> SUFFICES ASSUME q = 1 PROVE seatOrder[next] = T[2]
    OBVIOUS
  <2>1. turnSeat + 1 = gone + 1
    <3>1. turnSeat + 1 \in 1..n /\ gone + 1 \in 1..n
      BY <1>1, <1>2
    <3> QED BY <1>2, <1>7, <3>1 DEF IsSeating
  <2>2. 2 \in 1..n /\ turnSeat + 2 - 1 = gone + 1
    BY <1>1, <1>2, <2>1
  <2> QED BY <1>4, <2>2
<1>9. turnSeat' = SeatOf(seatOrder', rest[1])
  <2>1. RemoveWhilePlaying(d, SeatOf(seatOrder, d))
    BY DEF RemovePlayer, RemoveWhileBidding, RemoveAtGameEnd
  <2>2. Len(currentTrick') # Len(seatOrder')
    <3>1. currentTrick' \in Seq(PlayedCard)
      BY RemovedPileCards DEF Sound
    <3>2. Len(currentTrick') \in Nat /\ Len(seatOrder') \in Nat
      BY <1>1, <1>2, <3>1
    <3> QED BY <3>2
  <2>3. turnSeat' = TurnPassesTo(d, gone)
    BY <2>1, <2>2 DEF RemoveWhilePlaying, gone
  <2>4. TurnPassesTo(d, gone)
          = SeatOf(seatOrder', IF seatOrder[turnSeat + 1] # d THEN seatOrder[turnSeat + 1] ELSE seatOrder[next])
    BY DEF TurnPassesTo
  <2>5. CASE q = 1
    BY <1>5, <1>7, <1>8, <2>3, <2>4, <2>5
  <2>6. CASE q # 1
    <3>1. 1 < q
      BY <1>2, <1>3, <2>6
    <3> QED BY <1>5, <1>6, <1>7, <2>3, <2>4, <3>1
  <2> QED BY <2>5, <2>6
<1> DEFINE at == first % (n - 1)
<1>10. at = (IF first = n - 1 THEN 0 ELSE first) /\ at \in 0..(n - 2)
  <2>1. CASE first = n - 1
    <3>1. (n - 1) % (n - 1) = 0
      <4> DEFINE m == n - 1
      <4>1. m \in Nat /\ m > 0 /\ m <= m /\ m < 2 * m /\ m - m = 0
        BY <1>1, <1>2
      <4> HIDE DEF m
      <4>2. m % m = m - m
        BY <4>1, ModOver
      <4> QED BY <4>1, <4>2 DEF m
    <3> QED BY <1>1, <1>2, <2>1, <3>1
  <2>2. CASE first # n - 1
    <3> DEFINE m == n - 1
    <3>1. first \in Nat /\ m \in Nat /\ first < m
      BY <1>1, <1>2, <1>3, <2>2
    <3> HIDE DEF m
    <3>2. first % m = first
      BY <3>1, ModSmall
    <3> QED BY <1>1, <1>2, <1>3, <2>2, <3>1, <3>2 DEF m
  <2> QED BY <2>1, <2>2
<1>11. rest[1] = seatOrder'[at + 1]
  <2>1. 1 \in 1..Len(seatOrder') /\ first + 1 - 1 = first
    BY <1>1, <1>2, <1>3
  <2> QED BY <1>1, <2>1 DEF rest, OrderFrom
<1>12. turnSeat' = at
  <2> HIDE DEF at
  <2>1. at + 1 \in 1..Len(seatOrder')
    BY <1>1, <1>2, <1>10
  <2>2. PICK j \in 1..Len(seatOrder') : j = at + 1
    BY <2>1
  <2>3. SeatOf(seatOrder', seatOrder'[j]) = j - 1
    BY <1>1, SeatOfPosition
  <2> QED BY <1>9, <1>10, <1>11, <2>2, <2>3
<1>13. OrderFrom(seatOrder', at) = rest
  <2>1. CASE first = n - 1
    BY <1>1, <1>10, <2>1, RotationFull DEF rest
  <2>2. CASE first # n - 1
    BY <1>10, <2>2 DEF rest
  <2> QED BY <2>1, <2>2
<1> HIDE DEF at
<1> QED BY <1>1, <1>2, <1>3, <1>10, <1>12, <1>13 DEF T

\* While a hand is played the seat that left owes no card any more, and a card of it that
\* lay on the table is gone with it.
LEMMA RemovedPlaying ==
  ASSUME Sound, Sound', NEW d, RemovePlayer(d), phase = "trick"
  PROVE  LeftToPlay' = OnTable!Keep(LeftToPlay, d)
<1> DEFINE n == Len(seatOrder)
           k == Len(currentTrick)
           k2 == Len(currentTrick')
<1>1. /\ d \in Seated /\ n > 2 /\ Len(seatOrder') = n - 1
  BY RemovedTable DEF Sound
<1>2. IsSeating(seatOrder) /\ n \in Nat /\ seatOrder \in Seq(Devices) /\ phase' = "trick"
  BY BidOrderSeating DEF Sound, IsSeating, RemovePlayer, RemoveWhileBidding, RemoveWhilePlaying, RemoveAtGameEnd
<1>3. PICK seat \in 1..n : seatOrder[seat] = d
  BY <1>1 DEF Seated, SeatsOf
<1>4. OnTable!Keep(<<>>, d) = <<>>
  BY <1>2, <1>3, LeaveIsKeep
<1>5. k \in 0..n /\ (k = n => LeftToPlay = <<>>)
      /\ (k < n => turnSeat \in 0..(n - 1) /\ LeftToPlay = SubSeq(OrderFrom(seatOrder, turnSeat), 1, n - k))
  BY StillToPlay DEF Sound
<1>6. k2 \in 0..(n - 1) /\ (k2 = n - 1 => LeftToPlay' = <<>>)
  <2>1. RemoveWhilePlaying(d, SeatOf(seatOrder, d))
    BY DEF RemovePlayer, RemoveWhileBidding, RemoveAtGameEnd
  <2>2. k2 = n - 1 => turnSeat' = -1
    BY <1>1, <2>1 DEF RemoveWhilePlaying
  <2>3. turnSeat' = -1 => LeftToPlay' = <<>>
    <3>1. ~(-1 >= 0)
      OBVIOUS
    <3> QED BY <3>1 DEF LeftToPlay
  <2>4. k2 \in Nat /\ k2 <= n - 1
    BY <1>1, <1>2 DEF Sound, IInv, PileFollowsSeats, TypeOK
  <2> QED BY <1>2, <2>2, <2>3, <2>4
<1>7. PICK leader \in 0..(n - 1) :
        /\ \A i \in 1..k : currentTrick[i].deviceId = OrderFrom(seatOrder, leader)[i]
        /\ turnSeat = IF k < n THEN (leader + k) % n ELSE -1
  BY DEF Sound, IInv, PileFollowsSeats
<1> DEFINE R == OrderFrom(seatOrder, leader)
<1>8. IsSeating(R) /\ Len(R) = n /\ \E i \in 1..n : R[i] = d
  <2>1. leader \in 0..Len(seatOrder)
    BY <1>2
  <2>2. IsSeating(R) /\ Len(R) = n /\ SeatsOf(R) = SeatsOf(seatOrder)
    BY <1>2, <2>1, RotationSeating
  <2> HIDE DEF R
  <2> QED BY <1>1, <2>2 DEF Seated, SeatsOf
<1>9. PICK place \in 1..n : R[place] = d
  BY <1>8
<1>10. k2 = IF place <= k THEN k - 1 ELSE k
  <2>1. CASE place <= k
    <3>1. place \in 1..k /\ currentTrick[place].deviceId = d
      BY <1>5, <1>7, <1>9, <2>1
    <3> QED BY <2>1, <3>1, RemovedPileCards DEF Sound
  <2>2. CASE ~(place <= k)
    <3>1. \A i \in 1..k : currentTrick[i].deviceId # d
      <4> SUFFICES ASSUME NEW i \in 1..k, R[i] = d PROVE FALSE
        BY <1>7
      <4>1. i \in 1..n /\ i # place
        BY <1>5, <1>2, <2>2
      <4> HIDE DEF R
      <4> QED BY <1>8, <1>9, <4>1 DEF IsSeating
    <3>2. currentTrick' = currentTrick
      BY <3>1, RemovedPileCards DEF Sound
    <3> QED BY <2>2, <3>2
  <2> QED BY <2>1, <2>2
<1>11. CASE k = n
  <2>1. k2 = n - 1
    BY <1>2, <1>9, <1>10, <1>11
  <2> QED BY <1>4, <1>5, <1>6, <1>11, <2>1
<1>12. CASE k # n
  <2> DEFINE T == OrderFrom(seatOrder, turnSeat)
             m == n - k
  <2>1. turnSeat \in 0..(n - 1) /\ turnSeat \in 0..Len(seatOrder) /\ m \in 1..n
        /\ turnSeat = (leader + k) % n /\ LeftToPlay = Part(T, 1, m)
    BY <1>2, <1>5, <1>7, <1>12 DEF Part
  <2>2. IsSeating(T) /\ Len(T) = n /\ SeatsOf(T) = SeatsOf(seatOrder)
    BY <1>2, <2>1, RotationSeating
  <2>3. PICK q \in 1..n : T[q] = d
    <3> HIDE DEF T
    <3> QED BY <1>1, <2>2 DEF Seated, SeatsOf
  <2>4. \A i \in 1..m : T[i] = R[k + i]
    <3> SUFFICES ASSUME NEW i \in 1..m PROVE T[i] = R[k + i]
      OBVIOUS
    <3>1. i \in 1..n /\ k + i \in 1..n
      BY <1>2, <1>5
    <3>2. /\ T[i] = seatOrder[((turnSeat + i - 1) % n) + 1]
          /\ R[k + i] = seatOrder[((leader + (k + i) - 1) % n) + 1]
      BY <3>1 DEF OrderFrom
    <3>3. (turnSeat + i - 1) % n = (leader + (k + i) - 1) % n
      <4> DEFINE a == leader + k
                 j == i - 1
      <4>1. /\ a \in Nat /\ j \in Nat /\ n > 0
            /\ turnSeat + j = turnSeat + i - 1
            /\ a + j = leader + (k + i) - 1
        BY <1>1, <1>2, <1>5, <2>1
      <4>2. turnSeat = a % n
        BY <2>1
      <4> HIDE DEF a, j
      <4>3. ((a % n) + j) % n = (a + j) % n
        <5> HIDE DEF n
        <5> QED BY <1>2, <4>1
      <4> QED BY <4>1, <4>2, <4>3
    <3> QED BY <3>2, <3>3
  <2>5. q <= m <=> ~(place <= k)
    <3> HIDE DEF T, R
    <3>1. q <= m => place = k + q
      <4> SUFFICES ASSUME q <= m PROVE place = k + q
        OBVIOUS
      <4>1. q \in 1..m /\ k + q \in 1..n
        BY <1>2, <1>5, <2>1
      <4>2. R[k + q] = R[place]
        BY <1>9, <2>3, <2>4, <4>1
      <4> QED BY <1>8, <4>1, <4>2 DEF IsSeating
    <3>2. ~(place <= k) => q = place - k
      <4> SUFFICES ASSUME ~(place <= k) PROVE q = place - k
        OBVIOUS
      <4>1. place - k \in 1..m /\ place - k \in 1..n /\ k + (place - k) = place
        BY <1>2, <1>5
      <4>2. T[place - k] = R[k + (place - k)]
        BY <2>4, <4>1
      <4>3. T[place - k] = T[q]
        BY <1>9, <2>3, <4>1, <4>2
      <4> QED BY <2>2, <4>1, <4>3 DEF IsSeating
    <3> QED BY <1>2, <1>5, <3>1, <3>2
  <2> DEFINE left == Leave(T, d)
             m2 == IF q <= m THEN m - 1 ELSE m
  <2>6. OnTable!Keep(LeftToPlay, d) = Part(left, 1, m2)
    <3>1. 1 \in 1..(Len(T) + 1) /\ m \in 0..Len(T) /\ 1 <= m + 1 /\ q \in 1..Len(T) /\ Len(T) > 2 /\ ~(q < 1)
      BY <1>1, <1>2, <2>1, <2>2
    <3> HIDE DEF T, m
    <3>2. OnTable!Keep(Part(T, 1, m), T[q])
            = Part(Leave(T, T[q]), IF q < 1 THEN 1 - 1 ELSE 1, IF q <= m THEN m - 1 ELSE m)
      BY <2>2, <3>1, KeepPart
    <3> QED BY <2>1, <2>3, <3>1, <3>2
  <2>7. m2 = (n - 1) - k2
    <3> HIDE DEF n, k, k2
    <3>1. CASE place <= k
      BY <1>2, <1>5, <1>10, <2>5, <3>1
    <3>2. CASE ~(place <= k)
      BY <1>2, <1>5, <1>10, <2>5, <3>2
    <3> QED BY <3>1, <3>2
  <2>8. CASE k2 < n - 1
    <3>1. turnSeat' \in 0..(n - 2) /\ OrderFrom(seatOrder', turnSeat') = left
      BY <1>1, <2>1, <2>8, RemovedTurn
    <3>2. turnSeat' >= 0
      BY <1>2, <3>1
    <3>3. LeftToPlay' = SubSeq(OrderFrom(seatOrder', turnSeat'), 1, (n - 1) - k2)
      BY <1>1, <1>2, <3>2 DEF LeftToPlay
    <3> HIDE DEF left, m2
    <3> QED BY <2>6, <2>7, <3>1, <3>3 DEF Part
  <2>9. CASE k2 = n - 1
    <3>1. m2 = 0
      BY <1>2, <2>7, <2>9
    <3> HIDE DEF left, m2
    <3>2. Part(left, 1, m2) = <<>>
      BY <3>1, SubSeqEmpty DEF Part
    <3> QED BY <1>6, <2>6, <2>9, <3>2
  <2> QED BY <1>2, <1>6, <2>8, <2>9
<1> QED BY <1>11, <1>12

\* removePlayer is Removed.
LEMMA RemoveIsRemoved ==
  ASSUME Sound, Sound', NEW d, RemovePlayer(d)
  PROVE  OnTable!Removed(d)
<1> DEFINE n == Len(seatOrder)
<1>1. /\ d \in Seated /\ n > 2 /\ phase # "none" /\ seatOrder' = Leave(seatOrder, d)
  BY RemovedTable DEF Sound
<1>2. IsSeating(seatOrder)
  BY <1>1, BidOrderSeating DEF Sound
<1>3. PICK seat \in 1..n : seatOrder[seat] = d
  BY <1>1 DEF Seated, SeatsOf
<1>4. OnTable!Keep(<<>>, d) = <<>> /\ seatOrder' = OnTable!Keep(seatOrder, d)
  BY <1>1, <1>2, <1>3, LeaveIsKeep
<1>5. d \in OnTable!MembersOf(seatOrder)
  BY <1>3 DEF OnTable!MembersOf
<1>6. round' = round /\ HandsToResolve' = HandsToResolve
  BY RemoveKeepsCount DEF RemovePlayer
<1>7. Dealer' = IF Dealer = d THEN OnTable!RightOf(seatOrder, d) ELSE Dealer
  BY RemovedDealer
<1>8. CASE phase = "bidding"
  <2>1. /\ (phase' = "trick") <=> (OnTable!Keep(LeftToBid, d) = <<>>)
        /\ phase' \in {"bidding", "trick"}
        /\ LeftToBid' = OnTable!Keep(LeftToBid, d)
    BY <1>8, RemovedBidding
  <2>2. RemoveWhileBidding(d, SeatOf(seatOrder, d))
    BY <1>8 DEF RemovePlayer, RemoveWhilePlaying, RemoveAtGameEnd
  <2>3. phase' = "trick" => LeftToPlay' = OnTable!Starting(seatOrder', OnTable!LeftOf(seatOrder', Dealer'))
    <3> SUFFICES ASSUME phase' = "trick"
                 PROVE  LeftToPlay' = OnTable!Starting(seatOrder', OnTable!LeftOf(seatOrder', Dealer'))
      OBVIOUS
    <3>1. turnSeat' = SeatOf(seatOrder', bidOrder'[1])
      BY <1>8, <2>2 DEF RemoveWhileBidding
    <3>2. currentTrick' = <<>>
      BY <2>2, RemovedBidder DEF Sound
    <3> QED BY <3>1, <3>2, PlayBegins
  <2>4. phase' # "trick" => LeftToPlay' = OnTable!Keep(LeftToPlay, d)
    <3>1. LeftToPlay = <<>> /\ (phase' # "trick" => LeftToPlay' = <<>>)
      BY <1>8 DEF LeftToPlay
    <3> QED BY <1>4, <3>1
  <2> QED BY <1>1, <1>4, <1>5, <1>6, <1>7, <1>8, <2>1, <2>3, <2>4 DEF OnTable!Removed, LeftToBid, LeftToPlay, Dealer
<1>9. CASE phase # "bidding"
  <2>1. phase' = phase
    BY <1>9 DEF RemovePlayer, RemoveWhileBidding, RemoveWhilePlaying, RemoveAtGameEnd
  <2>2. LeftToBid' = OnTable!Keep(LeftToBid, d)
    <3>1. LeftToBid = <<>> /\ LeftToBid' = <<>>
      BY <1>9, <2>1 DEF LeftToBid
    <3> QED BY <1>4, <3>1
  <2>3. LeftToPlay' = OnTable!Keep(LeftToPlay, d)
    <3>1. CASE phase = "trick"
      BY <3>1, RemovedPlaying
    <3>2. CASE phase # "trick"
      <4>1. LeftToPlay = <<>> /\ LeftToPlay' = <<>>
        BY <2>1, <3>2 DEF LeftToPlay
      <4> QED BY <1>4, <4>1
    <3> QED BY <3>1, <3>2
  <2> QED BY <1>1, <1>4, <1>5, <1>6, <1>7, <1>9, <2>1, <2>2, <2>3 DEF OnTable!Removed, LeftToBid, LeftToPlay, Dealer
<1> QED BY <1>8, <1>9

-------------------------------------------------------------------------------
(* The refinement.                                                         *)

\* A room without a game owes nothing.
LEMMA InitIsInit == Init => OnTable!TInit
<1> SUFFICES ASSUME Init PROVE OnTable!TInit
  OBVIOUS
<1>1. HandsToResolve = 0
  BY DEF Init, HandsToResolve
<1> QED BY <1>1 DEF OnTable!TInit, Init

\* What the engine leaves alone Table leaves alone.
LEMMA StutterIsStutter ==
  ASSUME UNCHANGED vars
  PROVE  UNCHANGED OnTable!tvars
<1>1. UNCHANGED <<phase, round, seatOrder, bidOrder, hands, dealerSeat, bidTurnIndex, turnSeat,
                  currentTrick>>
  BY DEF vars, seating, bidding
<1>2. HandsToResolve' = HandsToResolve
  BY <1>1 DEF HandsToResolve, Seated, IsTrickComplete
<1> QED BY <1>1, <1>2 DEF OnTable!tvars

\* Every step of the engine is the step of Table of the same name, or none.
LEMMA StepIsStep ==
  ASSUME Sound, Sound', [Next]_vars
  PROVE  [OnTable!TNext]_(OnTable!tvars)
<1>1. ASSUME NEW d \in Seated, NEW bid \in BidInput, PlaceBid(d, bid) PROVE OnTable!TNext
  BY <1>1, BidIsBidNext DEF OnTable!TNext
<1>2. ASSUME NEW d \in Seated, NEW card \in hands[d], PlayCard(d, card) PROVE OnTable!TNext
  BY <1>2, PlayIsPlayNext DEF OnTable!TNext
<1>3. CASE ResolvePendingTrick
  BY <1>3, ResolveIsResolve DEF OnTable!TNext
<1>4. ASSUME NEW from \in Leavers, NEW to \in Devices \ departed, ReplacePlayer(from, to)
      PROVE  OnTable!TNext
  <2>1. from \in Devices
    <3>1. from \in Seated /\ seatOrder \in Seq(Devices)
      BY <1>4 DEF ReplacePlayer, Sound, IInv, TypeOK
    <3> QED BY <3>1 DEF Seated, SeatsOf
  <2> QED BY <1>4, <2>1, ReplaceIsReplaced DEF OnTable!TNext
<1>5. ASSUME NEW d \in Leavers, RemovePlayer(d) PROVE OnTable!TNext
  <2>1. d \in Devices
    <3>1. d \in Seated /\ seatOrder \in Seq(Devices)
      BY <1>5 DEF RemovePlayer, Sound, IInv, TypeOK
    <3> QED BY <3>1 DEF Seated, SeatsOf
  <2> QED BY <1>5, <2>1, RemoveIsRemoved DEF OnTable!TNext
<1>6. ASSUME NEW order \in SeatOrders, StartGame(order) PROVE OnTable!TNext
  BY <1>6, StartIsStart DEF OnTable!TNext
<1>7. CASE NewGame \/ ContinueGame
  BY <1>7, AgainIsAgain DEF OnTable!TNext
<1>8. CASE UNCHANGED vars
  BY <1>8, StutterIsStutter
<1> QED BY <1>1, <1>2, <1>3, <1>4, <1>5, <1>6, <1>7, <1>8 DEF Next, Play, SeatChange, Session

\* The engine keeps the promises of Table for every table, deck, number of rounds and
\* sequence of calls: every seat bids once with the dealer last, every seat plays once
\* per hand in table order after the winner of the last hand, as many hands are played
\* as cards were dealt, and players who leave or are replaced change nothing else
\* (engine.ts, placeBid 132-156 to removePlayer 330-403).
THEOREM EngineKeepsTable == Spec => ImplementsTable
<1>1. Spec => []Sound
  BY HandsInvariant, HandsAreCounted, PTL DEF Sound
<1>2. Init => OnTable!TInit
  BY InitIsInit
<1>3. Sound /\ Sound' /\ [Next]_vars => [OnTable!TNext]_(OnTable!tvars)
  BY StepIsStep
<1> QED BY <1>1, <1>2, <1>3, PTL DEF Spec, ImplementsTable, OnTable!TSpec
===============================================================================
