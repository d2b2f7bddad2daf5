----------------------------- MODULE RestoreProofs -----------------------------
(***************************************************************************)
(* What a server restart does to a game, for every value of the constants: *)
(* a restored game is the game that was saved, and what the rules engine   *)
(* promises it promises also to games that were restored, at any time and  *)
(* any number of times, from snapshots with and without a ledger.          *)
(***************************************************************************)
EXTENDS RoomRestore, EngineProofs

-------------------------------------------------------------------------------
(* Folding the entries of a snapshot into a ledger (normalizePlayHistory). *)

\* The equation of FoldLeft for AddUnseen and the first m entries of s.
LedgerOver(f, s, m) ==
  f = [T \in SUBSET (1..m) |-> IF T = {} THEN <<>> ELSE AddUnseen(f[T \ {Max(T)}], s[Max(T)])]

\* A set of positions has a last one.
LEMMA LastPosition ==
  ASSUME NEW m \in Nat, NEW T, T \subseteq 1..m, T # {}
  PROVE  Max(T) \in T /\ \A x \in T : x <= Max(T)
<1> DEFINE back == {m - i : i \in T}
<1>0. \A i \in T : i \in Int /\ m - i \in Nat
  OBVIOUS
<1>1. T \subseteq Int /\ back \subseteq Nat /\ back # {}
  BY <1>0
<1>2. PICK x \in back : \A y \in back : x <= y
  BY <1>1, LeastExists
<1>3. PICK last \in T : x = m - last
  OBVIOUS
<1>4. \A i \in T : i <= last
  <2> TAKE i \in T
  <2>1. m - last <= m - i
    BY <1>2, <1>3
  <2> QED BY <1>0, <2>1
<1> HIDE DEF back
<1>5. Max(T) = last
  BY <1>1, <1>4, MaxIs
<1> QED BY <1>4, <1>5

\* The equation has a solution for any number of entries.
LEMMA LedgerOverExists ==
  ASSUME NEW n \in Nat, NEW s
  PROVE  \E f : LedgerOver(f, s, n)
<1> DEFINE Bad == {m \in 0..n : ~(\E f : LedgerOver(f, s, m))}
<1> SUFFICES ASSUME Bad # {} PROVE FALSE
  OBVIOUS
<1>1. 0 \notin Bad
  <2>1. SUBSET (1..0) = {{}}
    OBVIOUS
  <2>2. LedgerOver([T \in SUBSET (1..0) |-> <<>>], s, 0)
    BY <2>1 DEF LedgerOver
  <2> QED BY <2>2
<1>2. Bad \subseteq 0..n
  OBVIOUS
<1> HIDE DEF Bad
<1>3. PICK m \in 1..n : m \in Bad /\ m - 1 \in 0..n /\ m - 1 \notin Bad
  BY <1>1, <1>2, FirstOf
<1> USE DEF Bad
<1>4. PICK f : LedgerOver(f, s, m - 1)
  BY <1>3
<1> HIDE DEF Bad
<1> DEFINE g == [T \in SUBSET (1..m) |-> IF m \in T THEN AddUnseen(f[T \ {m}], s[m]) ELSE f[T]]
<1>5. \A T \in SUBSET (1..m) :
        g[T] = IF T = {} THEN <<>> ELSE AddUnseen(g[T \ {Max(T)}], s[Max(T)])
  <2> TAKE T \in SUBSET (1..m)
  <2>1. m \in Nat /\ m - 1 \in Nat
    BY <1>3
  <2>2. CASE T = {}
    <3>1. g[T] = f[{}] /\ {} \in SUBSET (1..(m - 1))
      BY <2>1, <2>2
    <3> QED BY <1>4, <2>2, <3>1 DEF LedgerOver
  <2>3. CASE m \in T
    <3>1. Max(T) = m
      <4>1. T \subseteq Int /\ \A x \in T : x <= m
        BY <2>1
      <4> QED BY <2>3, <4>1, MaxIs
    <3>2. T \ {m} \in SUBSET (1..m) /\ g[T \ {m}] = f[T \ {m}] /\ g[T] = AddUnseen(f[T \ {m}], s[m])
      BY <2>3
    <3> HIDE DEF g
    <3> QED BY <2>3, <3>1, <3>2
  <2>4. CASE T # {} /\ m \notin T
    <3>1. T \in SUBSET (1..(m - 1))
      BY <2>1, <2>4
    <3>2. Max(T) \in T
      BY <2>1, <2>4, LastPosition
    <3>3. T \ {Max(T)} \in SUBSET (1..m) /\ g[T \ {Max(T)}] = f[T \ {Max(T)}] /\ g[T] = f[T]
      BY <2>4
    <3>4. f[T] = AddUnseen(f[T \ {Max(T)}], s[Max(T)])
      BY <1>4, <2>4, <3>1 DEF LedgerOver
    <3> HIDE DEF g
    <3> QED BY <2>4, <3>3, <3>4
  <2> QED BY <2>2, <2>3, <2>4
<1>6. LedgerOver(g, s, m)
  <2>1. g = [T \in SUBSET (1..m) |-> g[T]]
    OBVIOUS
  <2> HIDE DEF g
  <2> QED BY <1>5, <2>1 DEF LedgerOver
<1>7. m \notin Bad
  BY <1>6 DEF Bad
<1> QED BY <1>3, <1>7

\* It has one solution.
LEMMA LedgerOverUnique ==
  ASSUME NEW n \in Nat, NEW s, NEW f, LedgerOver(f, s, n), NEW g, LedgerOver(g, s, n)
  PROVE  f = g
<1> DEFINE Bad == {m \in 0..n : \E T \in SUBSET (1..m) : f[T] # g[T]}
<1>1. Bad = {}
  <2> SUFFICES ASSUME Bad # {} PROVE FALSE
    OBVIOUS
  <2>1. 0 \notin Bad
    <3>1. SUBSET (1..0) = {{}} /\ {} \in SUBSET (1..n)
      OBVIOUS
    <3>2. f[{}] = <<>> /\ g[{}] = <<>>
      BY <3>1 DEF LedgerOver
    <3> QED BY <3>1, <3>2
  <2>2. Bad \subseteq 0..n
    OBVIOUS
  <2> HIDE DEF Bad
  <2>3. PICK m \in 1..n : m \in Bad /\ m - 1 \in 0..n /\ m - 1 \notin Bad
    BY <2>1, <2>2, FirstOf
  <2>4. PICK T \in SUBSET (1..m) : f[T] # g[T]
    BY <2>3 DEF Bad
  <2>5. \A U \in SUBSET (1..(m - 1)) : f[U] = g[U]
    BY <2>3 DEF Bad
  <2>6. m \in Nat /\ T \in SUBSET (1..n)
    BY <2>3, <2>4
  <2>7. T # {}
    BY <2>4, <2>6 DEF LedgerOver
  <2>8. Max(T) \in T /\ \A x \in T : x <= Max(T)
    BY <2>4, <2>6, <2>7, LastPosition
  <2>9. T \ {Max(T)} \in SUBSET (1..(m - 1))
    <3>1. \A x \in T \ {Max(T)} : x \in 1..(m - 1)
      <4> DEFINE last == Max(T)
      <4>1. last \in 1..m /\ \A x \in T : x \in 1..m /\ x <= last
        BY <2>4, <2>8
      <4> HIDE DEF last
      <4>2. \A x \in T \ {last} : x \in 1..(m - 1)
        BY <2>6, <4>1
      <4> QED BY <4>2 DEF last
    <3> QED BY <3>1
  <2>10. f[T] = AddUnseen(f[T \ {Max(T)}], s[Max(T)]) /\ g[T] = AddUnseen(g[T \ {Max(T)}], s[Max(T)])
    BY <2>6, <2>7 DEF LedgerOver
  <2>11. f[T \ {Max(T)}] = g[T \ {Max(T)}]
    BY <2>5, <2>9
  <2> QED BY <2>4, <2>10, <2>11
<1>2. \A T \in SUBSET (1..n) : f[T] = g[T]
  BY <1>1
<1> HIDE DEF Bad
<1> QED BY <1>2 DEF LedgerOver

\* kept[i] is the ledger after the first i entries of s.
KeptAlong(kept, s, n) ==
  kept[0] = <<>> /\ \A i \in 1..n : kept[i] = AddUnseen(kept[i - 1], s[i])

\* Folding is adding the entries one after the other.
LEMMA FoldIsLast ==
  ASSUME NEW n \in Nat, NEW s, DOMAIN s = 1..n, NEW kept, KeptAlong(kept, s, n)
  PROVE  FoldLeft(AddUnseen, <<>>, s) = kept[n]
<1> DEFINE Eq(f) ==
      f = [T \in SUBSET (1..n) |-> IF T = {} THEN <<>> ELSE AddUnseen(f[T \ {Max(T)}], s[Max(T)])]
<1>1. FoldLeft(AddUnseen, <<>>, s) = (CHOOSE f : Eq(f))[1..n]
  BY DEF FoldLeft, MapThenFoldSet
<1>2. PICK f : LedgerOver(f, s, n)
  BY LedgerOverExists
<1>3. \A g : Eq(g) <=> LedgerOver(g, s, n)
  BY DEF LedgerOver
<1> HIDE DEF Eq
<1>4. Eq(f) /\ \A g : Eq(g) => g = f
  BY <1>2, <1>3, LedgerOverUnique
<1>5. FoldLeft(AddUnseen, <<>>, s) = f[1..n]
  BY <1>1, <1>4
<1> DEFINE Bad == {m \in 0..n : f[1..m] # kept[m]}
<1>6. Bad = {}
  <2> SUFFICES ASSUME Bad # {} PROVE FALSE
    OBVIOUS
  <2>1. 0 \notin Bad
    <3>1. 1..0 = {} /\ {} \in SUBSET (1..n)
      OBVIOUS
    <3>2. f[{}] = <<>>
      BY <1>2, <3>1 DEF LedgerOver
    <3> QED BY <3>1, <3>2 DEF KeptAlong
  <2>2. Bad \subseteq 0..n
    OBVIOUS
  <2> HIDE DEF Bad
  <2>3. PICK m \in 1..n : m \in Bad /\ m - 1 \in 0..n /\ m - 1 \notin Bad
    BY <2>1, <2>2, FirstOf
  <2>4. f[1..(m - 1)] = kept[m - 1]
    BY <2>3 DEF Bad
  <2>5. 1..m \in SUBSET (1..n) /\ 1..m # {} /\ (1..m) \ {m} = 1..(m - 1) /\ m \in 1..m
        /\ 1..m \subseteq Int /\ \A x \in 1..m : x <= m
    BY <2>3
  <2>6. Max(1..m) = m
    <3> DEFINE first == 1..m
    <3> HIDE DEF first
    <3>1. first \subseteq Int /\ m \in first /\ \A x \in first : x <= m
      BY <2>5 DEF first
    <3>2. Max(first) = m
      BY <3>1, MaxIs
    <3> QED BY <3>2 DEF first
  <2>7. f[1..m] = AddUnseen(f[(1..m) \ {Max(1..m)}], s[Max(1..m)])
    BY <1>2, <2>5 DEF LedgerOver
  <2>8. f[1..m] = kept[m]
    BY <2>3, <2>4, <2>5, <2>6, <2>7 DEF KeptAlong
  <2> QED BY <2>3, <2>8 DEF Bad
<1> QED BY <1>5, <1>6

-------------------------------------------------------------------------------
(* Sums over the players of a table.                                       *)

\* The equation of MapThenSumSet for a table f of S.
TotalsOf(t, f, S) ==
  t = [T \in SUBSET S |->
         IF T = {} THEN 0 ELSE f[CHOOSE x \in T : TRUE] + t[T \ {CHOOSE x \in T : TRUE}]]

\* It has one solution.
LEMMA TotalsUnique ==
  ASSUME NEW S, IsFiniteSet(S), NEW f, NEW t, TotalsOf(t, f, S), NEW u, TotalsOf(u, f, S)
  PROVE  t = u
<1> DEFINE sizes == {Cardinality(T) : T \in {U \in SUBSET S : t[U] # u[U]}}
<1>1. \A T \in SUBSET S : IsFiniteSet(T) /\ Cardinality(T) \in Nat
  BY FS_Subset, FS_CardinalityType
<1>2. sizes = {}
  <2> SUFFICES ASSUME sizes # {} PROVE FALSE
    OBVIOUS
  <2>1. sizes \subseteq Nat
    BY <1>1
  <2>2. PICK m \in sizes : \A y \in sizes : m <= y
    <3> HIDE DEF sizes
    <3> QED BY <2>1, LeastExists
  <2>3. PICK T \in SUBSET S : t[T] # u[T] /\ Cardinality(T) = m
    OBVIOUS
  <2>4. T # {}
    BY <2>3 DEF TotalsOf
  <2> DEFINE x == CHOOSE y \in T : TRUE
  <2>5. x \in T
    BY <2>4
  <2>6. t[T] = f[x] + t[T \ {x}] /\ u[T] = f[x] + u[T \ {x}]
    BY <2>4 DEF TotalsOf
  <2> HIDE DEF x
  <2>7. T \ {x} \in SUBSET S /\ t[T \ {x}] # u[T \ {x}]
    BY <2>3, <2>6
  <2>8. Cardinality(T \ {x}) = Cardinality(T) - 1
    BY <1>1, <2>5, FS_RemoveElement
  <2>9. Cardinality(T \ {x}) \in sizes
    BY <2>7
  <2>10. m <= Cardinality(T \ {x}) /\ m \in Nat
    BY <2>1, <2>2, <2>9
  <2> QED BY <2>3, <2>8, <2>10
<1>3. \A T \in SUBSET S : t[T] = u[T]
  BY <1>2
<1> HIDE DEF sizes
<1> QED BY <1>3 DEF TotalsOf

\* The values of f at the seats whose players are in T, and at every seat.
AtSeats(order, f, T) == [i \in 1..Len(order) |-> IF order[i] \in T THEN f[order[i]] ELSE 0]
SumOverSeats(order, f) == SumOf([i \in 1..Len(order) |-> f[order[i]]])

\* Sums along the seats solve it.
LEMMA TotalsAlongSeats ==
  ASSUME NEW order, IsSeating(order), NEW f \in [SeatsOf(order) -> Int]
  PROVE  /\ IsFiniteSet(SeatsOf(order))
         /\ TotalsOf([T \in SUBSET SeatsOf(order) |-> SumOf(AtSeats(order, f, T))], f, SeatsOf(order))
<1> DEFINE n == Len(order)
           S == SeatsOf(order)
           t == [T \in SUBSET S |-> SumOf(AtSeats(order, f, T))]
<1>1. n \in Nat /\ order \in Seq(Devices) /\ \A i, j \in 1..n : order[i] = order[j] => i = j
  BY DEF IsSeating
<1>2. \A i \in 1..n : order[i] \in S
  BY DEF SeatsOf
<1>3. IsFiniteSet(S)
  <2>1. IsFiniteSet(1..n)
    BY <1>1, FS_Interval
  <2>2. S = {order[i] : i \in 1..n}
    BY DEF SeatsOf
  <2> QED BY <1>1, <2>1, <2>2, SliceCounts
<1>4. \A T \in SUBSET S :
        t[T] = IF T = {} THEN 0 ELSE f[CHOOSE x \in T : TRUE] + t[T \ {CHOOSE x \in T : TRUE}]
  <2> TAKE T \in SUBSET S
  <2>1. CASE T = {}
    <3>1. Len(AtSeats(order, f, T)) = n /\ \A i \in 1..n : AtSeats(order, f, T)[i] = 0
      BY <1>1, <2>1 DEF AtSeats
    <3>2. SumOf(AtSeats(order, f, T)) = 0
      BY <1>1, <3>1, SumOfZeros
    <3> QED BY <2>1, <3>2
  <2>2. CASE T # {}
    <3> DEFINE x == CHOOSE y \in T : TRUE
               s == AtSeats(order, f, T \ {x})
               r == AtSeats(order, f, T)
    <3>1. x \in T
      BY <2>2
    <3> HIDE DEF x
    <3>2. f[x] \in Int /\ x \in S
      BY <3>1
    <3>3. PICK p \in 1..n : order[p] = x
      BY <3>2 DEF SeatsOf
    <3>4. Len(s) = n /\ Len(r) = n
      BY <1>1 DEF AtSeats
    <3>5. \A i \in 1..n : s[i] \in Int /\ r[i] = IF i = p THEN s[i] + f[x] ELSE s[i]
      <4> TAKE i \in 1..n
      <4>1. f[order[i]] \in Int /\ (order[i] = x <=> i = p)
        BY <1>1, <1>2, <3>3
      <4> QED BY <3>1, <3>3, <4>1 DEF AtSeats
    <3> HIDE DEF s, r
    <3>6. SumOf(r) = SumOf(s) + f[x]
      <4>1. Bumped(s, r, n, p, f[x])
        BY <1>1, <3>2, <3>3, <3>4, <3>5 DEF Bumped
      <4> QED BY <4>1, SumBumped
    <3>7. SumOf(s) \in Int
      BY <1>1, <3>4, <3>5, SumIsInt
    <3>8. t[T] = SumOf(r) /\ t[T \ {x}] = SumOf(s)
      BY DEF s, r
    <3> HIDE DEF t
    <3>9. t[T] = f[x] + t[T \ {x}]
      BY <3>2, <3>6, <3>7, <3>8
    <3> QED BY <2>2, <3>9 DEF x
  <2> QED BY <2>1, <2>2
<1>5. TotalsOf(t, f, S)
  <2>1. t = [T \in SUBSET S |-> t[T]]
    OBVIOUS
  <2> HIDE DEF t
  <2> QED BY <1>4, <2>1 DEF TotalsOf
<1> QED BY <1>3, <1>5

\* Whoever solves it finds the sum along the seats, an integer.
LEMMA TotalIsSum ==
  ASSUME NEW order, IsSeating(order), NEW f \in [SeatsOf(order) -> Int],
         NEW t, TotalsOf(t, f, SeatsOf(order))
  PROVE  t[SeatsOf(order)] = SumOverSeats(order, f) /\ SumOverSeats(order, f) \in Int
<1> DEFINE S == SeatsOf(order)
           u == [T \in SUBSET S |-> SumOf(AtSeats(order, f, T))]
<1>1. t = u
  BY TotalsAlongSeats, TotalsUnique
<1>2. u[S] = SumOf(AtSeats(order, f, S))
  OBVIOUS
<1>3. Len(order) \in Nat /\ \A i \in 1..Len(order) : order[i] \in S
  BY DEF IsSeating, SeatsOf
<1>4. AtSeats(order, f, S) = [i \in 1..Len(order) |-> f[order[i]]]
  BY <1>3 DEF AtSeats
<1>5. SumOverSeats(order, f) \in Int
  <2> DEFINE s == [i \in 1..Len(order) |-> f[order[i]]]
  <2>1. Len(s) = Len(order) /\ \A i \in 1..Len(order) : s[i] \in Int
    BY <1>3
  <2> HIDE DEF s
  <2>2. SumOf(s) \in Int
    BY <1>3, <2>1, SumIsInt
  <2> QED BY <2>2 DEF s, SumOverSeats
<1> QED BY <1>1, <1>2, <1>4, <1>5 DEF SumOverSeats

\* A sum of natural numbers is one.
LEMMA SumIsNat ==
  ASSUME NEW s, Len(s) \in Nat, \A i \in 1..Len(s) : s[i] \in Nat
  PROVE  SumOf(s) \in Nat
<1> DEFINE n == Len(s)
<1>1. PICK t : RunningTotal(t, s, n)
  BY RunningTotalExists
<1>2. t \in [0..n -> Int] /\ t[0] = 0 /\ \A i \in 1..n : t[i] = t[i - 1] + s[i]
  BY <1>1 DEF RunningTotal
<1> DEFINE Bad == {m \in 0..n : t[m] \notin Nat}
<1>3. Bad = {}
  <2> SUFFICES ASSUME Bad # {} PROVE FALSE
    OBVIOUS
  <2>1. Bad \subseteq 0..n /\ 0 \notin Bad
    BY <1>2
  <2> HIDE DEF Bad
  <2>2. PICK m \in 1..n : m \in Bad /\ m - 1 \in 0..n /\ m - 1 \notin Bad
    BY <2>1, FirstOf
  <2>3. t[m - 1] \in Nat /\ s[m] \in Nat /\ t[m] = t[m - 1] + s[m]
    BY <1>2, <2>2 DEF Bad
  <2> QED BY <2>2, <2>3 DEF Bad
<1>4. t[n] \in Nat
  BY <1>3
<1> QED BY <1>1, <1>4, SumIsTotal

-------------------------------------------------------------------------------
(* A snapshot that has its ledger.                                         *)

\* The hands won in this round by who is seated, seat by seat.
LEMMA CompletedIsSum ==
  ASSUME IInv, phase # "none"
  PROVE  CompletedHands = SumOf(TricksAt) /\ CompletedHands \in Nat
<1>1. IsSeating(seatOrder) /\ tricksWon \in [SeatsOf(seatOrder) -> Nat] /\ Len(seatOrder) \in Nat
  BY BidOrderSeating DEF IInv, TypeOK, Seated
<1> DEFINE S == SeatsOf(seatOrder)
           Eq(t) == t = [T \in SUBSET S |->
                           IF T = {} THEN 0
                           ELSE tricksWon[CHOOSE x \in T : TRUE] + t[T \ {CHOOSE x \in T : TRUE}]]
<1>2. CompletedHands = (CHOOSE t : Eq(t))[S]
  BY <1>1 DEF CompletedHands, MapThenSumSet, MapThenFoldSet
<1>3. \A t : Eq(t) <=> TotalsOf(t, tricksWon, S)
  BY DEF TotalsOf
<1> HIDE DEF Eq
<1>4. tricksWon \in [S -> Int]
  BY <1>1
<1>5. \E t : TotalsOf(t, tricksWon, S)
  BY <1>1, <1>4, TotalsAlongSeats
<1>6. CompletedHands = SumOverSeats(seatOrder, tricksWon)
  BY <1>1, <1>2, <1>3, <1>4, <1>5, TotalIsSum
<1>7. SumOverSeats(seatOrder, tricksWon) = SumOf(TricksAt)
  BY DEF SumOverSeats, TricksAt
<1>8. Len(TricksAt) = Len(seatOrder) /\ \A i \in 1..Len(seatOrder) : TricksAt[i] \in Nat
  BY <1>1 DEF TricksAt, SeatsOf
<1> QED BY <1>1, <1>6, <1>7, <1>8, SumIsNat

\* The first i entries of a ledger.
First(s, i) == [j \in 1..i |-> s[j]]

\* They are entries of it.
LEMMA FirstEntries ==
  ASSUME NEW s \in Seq(LedgerEntry), NEW i \in 0..Len(s)
  PROVE  /\ First(s, i) \in Seq(LedgerEntry) /\ Len(First(s, i)) = i
         /\ \A j \in 1..i : First(s, i)[j] = s[j]
<1>1. i \in Nat /\ \A j \in 1..i : s[j] \in LedgerEntry
  OBVIOUS
<1> QED BY <1>1 DEF First

\* One more entry.
LEMMA OneMoreEntry ==
  ASSUME NEW s \in Seq(LedgerEntry), NEW i \in 1..Len(s)
  PROVE  Append(First(s, i - 1), s[i]) = First(s, i)
<1> DEFINE before == First(s, i - 1)
           after == First(s, i)
<1>1. i - 1 \in 0..Len(s) /\ i \in 0..Len(s) /\ i \in Nat /\ s[i] \in LedgerEntry
  OBVIOUS
<1>2. before \in Seq(LedgerEntry) /\ Len(before) = i - 1 /\ \A j \in 1..(i - 1) : before[j] = s[j]
  BY <1>1, FirstEntries
<1>3. after \in Seq(LedgerEntry) /\ Len(after) = i /\ \A j \in 1..i : after[j] = s[j]
  BY <1>1, FirstEntries
<1> HIDE DEF before, after
<1>4. /\ Append(before, s[i]) \in Seq(LedgerEntry) /\ Len(Append(before, s[i])) = (i - 1) + 1
      /\ \A j \in 1..(i - 1) : Append(before, s[i])[j] = before[j]
      /\ Append(before, s[i])[(i - 1) + 1] = s[i]
  BY <1>1, <1>2, AppendProperties
<1> DEFINE more == Append(before, s[i])
<1>5. more \in Seq(LedgerEntry) /\ Len(more) = i /\ \A j \in 1..i : more[j] = s[j]
  <2>1. (i - 1) + 1 = i /\ \A j \in 1..i : j \in 1..(i - 1) \/ j = i
    BY <1>1
  <2> QED BY <1>2, <1>4, <2>1
<1> HIDE DEF more
<1>6. more = after
  BY <1>3, <1>5, SeqEqual
<1> QED BY <1>6 DEF before, after, more

\* Entries with different cards are all kept, and entries whose cards are known add
\* nothing to them.
LEMMA FoldKeepsNew ==
  ASSUME NEW s \in Seq(LedgerEntry), NEW t \in Seq(LedgerEntry),
         \A i, j \in 1..Len(s) : s[i].card = s[j].card => i = j,
         \A i \in 1..Len(t) : \E j \in 1..Len(s) : s[j].card = t[i].card
  PROVE  FoldLeft(AddUnseen, <<>>, s \o t) = s
<1> DEFINE m == Len(s)
           n == m + Len(t)
           all == s \o t
           kept == [i \in 0..n |-> IF i <= m THEN First(s, i) ELSE s]
<1>1. m \in Nat /\ Len(t) \in Nat /\ n \in Nat
  OBVIOUS
<1>2. /\ DOMAIN all = 1..n
      /\ \A i \in 1..n : all[i] = IF i <= m THEN s[i] ELSE t[i - m]
  OBVIOUS
<1> HIDE DEF all
<1>3. First(s, 0) = <<>>
  BY DEF First
<1>4. First(s, m) = s
  BY DEF First
<1>5. \A i \in 1..m : AddUnseen(First(s, i - 1), s[i]) = First(s, i)
  <2> TAKE i \in 1..m
  <2>1. i - 1 \in 0..m /\ \A j \in 1..(i - 1) : j \in 1..m /\ j # i
    BY <1>1
  <2>2. Len(First(s, i - 1)) = i - 1 /\ \A j \in 1..(i - 1) : First(s, i - 1)[j] = s[j]
    BY <2>1, FirstEntries
  <2>3. \A j \in 1..(i - 1) : First(s, i - 1)[j].card # s[i].card
    BY <2>1, <2>2
  <2>4. AddUnseen(First(s, i - 1), s[i]) = Append(First(s, i - 1), s[i])
    BY <2>2, <2>3 DEF AddUnseen
  <2> QED BY <2>4, OneMoreEntry
<1>6. \A i \in 1..n : kept[i] = AddUnseen(kept[i - 1], all[i])
  <2> TAKE i \in 1..n
  <2>1. i - 1 \in 0..n /\ i \in 0..n /\ i - 1 < i
    BY <1>1
  <2>2. CASE i <= m
    <3>1. kept[i] = First(s, i) /\ kept[i - 1] = First(s, i - 1) /\ all[i] = s[i] /\ i \in 1..m
      BY <1>1, <1>2, <2>1, <2>2
    <3> HIDE DEF kept
    <3> QED BY <1>5, <3>1
  <2>3. CASE ~(i <= m)
    <3>1. kept[i] = s
      BY <2>1, <2>3
    <3>2. kept[i - 1] = s
      BY <1>1, <1>4, <2>1, <2>3
    <3>3. all[i] = t[i - m] /\ i - m \in 1..Len(t)
      BY <1>1, <1>2, <2>1, <2>3
    <3>4. AddUnseen(s, t[i - m]) = s
      BY <3>3 DEF AddUnseen
    <3> HIDE DEF kept
    <3> QED BY <3>1, <3>2, <3>3, <3>4
  <2> QED BY <2>2, <2>3
<1>7. kept[n] = s /\ kept[0] = <<>>
  <2>1. n \in 0..n /\ 0 \in 0..n /\ 0 <= m /\ (n <= m => n = m)
    BY <1>1
  <2> QED BY <1>3, <1>4, <2>1
<1>8. KeptAlong(kept, all, n)
  BY <1>6, <1>7 DEF KeptAlong
<1>9. FoldLeft(AddUnseen, <<>>, all) = kept[n]
  <2> HIDE DEF kept, n
  <2> QED BY <1>1, <1>2, <1>8, FoldIsLast
<1> QED BY <1>7, <1>9 DEF all

\* The pile as ledger entries.
LEMMA PileEntriesAre ==
  ASSUME IInv, phase # "none"
  PROVE  /\ PileEntries \in Seq(LedgerEntry) /\ Len(PileEntries) = Len(currentTrick)
         /\ \A i \in 1..Len(currentTrick) :
              /\ PileEntries[i].handNumber = CompletedHands + 1 /\ PileEntries[i].leadSuit = LeadSuit
              /\ PileEntries[i].deviceId = currentTrick[i].deviceId
              /\ PileEntries[i].card = currentTrick[i].card
<1> DEFINE k == Len(currentTrick)
<1>1. k \in Nat /\ \A i \in 1..k : currentTrick[i] \in PlayedCard
  BY DEF IInv, TypeOK
<1>2. CompletedHands + 1 \in Nat
  BY CompletedIsSum
<1>3. \A i \in 1..k : LeadSuit \in Suits
  <2> TAKE i \in 1..k
  <2>1. 1 \in 1..k
    OBVIOUS
  <2>2. currentTrick[1] \in PlayedCard
    BY <1>1, <2>1
  <2> QED BY <2>2 DEF LeadSuit, PlayedCard, Card
<1> HIDE DEF k
<1> DEFINE number == CompletedHands + 1
           lead == LeadSuit
<1>4. PileEntries = [i \in 1..k |-> [handNumber |-> number, deviceId |-> currentTrick[i].deviceId,
                                     card |-> currentTrick[i].card, leadSuit |-> lead]]
  BY DEF PileEntries, k
<1>5. number \in Nat /\ \A i \in 1..k : lead \in Suits
  BY <1>2, <1>3
<1> HIDE DEF number, lead
<1>6. \A i \in 1..k : [handNumber |-> number, deviceId |-> currentTrick[i].deviceId,
                       card |-> currentTrick[i].card, leadSuit |-> lead] \in LedgerEntry
  BY <1>1, <1>5 DEF PlayedCard, LedgerEntry
<1>7. PileEntries \in Seq(LedgerEntry) /\ Len(PileEntries) = k
  BY <1>1, <1>4, <1>6
<1>8. \A i \in 1..k : /\ PileEntries[i].handNumber = number /\ PileEntries[i].leadSuit = lead
                      /\ PileEntries[i].deviceId = currentTrick[i].deviceId
                      /\ PileEntries[i].card = currentTrick[i].card
  BY <1>4
<1> QED BY <1>7, <1>8 DEF number, lead, k

\* The pile is in the ledger, so restoring adds nothing to it.
LEMMA LedgerRestored ==
  ASSUME IInv, CardsConserved, phase # "none"
  PROVE  NormalizedPlays(plays) = plays
<1>1. plays \in Seq(LedgerEntry)
  BY DEF IInv, TypeOK
<1>2. \A i, j \in 1..Len(plays) : plays[i].card = plays[j].card => i = j
  BY DEF CardsConserved
<1>3. PileEntries \in Seq(LedgerEntry)
  BY PileEntriesAre
<1>4. \A i \in 1..Len(PileEntries) : \E j \in 1..Len(plays) : plays[j].card = PileEntries[i].card
  BY PileEntriesAre DEF CardsConserved
<1> QED BY <1>1, <1>2, <1>3, <1>4, FoldKeepsNew DEF NormalizedPlays

-------------------------------------------------------------------------------
(* The voids are what the ledger shows.                                    *)

\* The suits that d failed to follow in the plays ps.
VoidsIn(ps, d) ==
  {ps[i].leadSuit : i \in {j \in 1..Len(ps) : ps[j].deviceId = d /\ ps[j].card.suit # ps[j].leadSuit}}
VoidsRecorded == \A d \in Seated : voidSuits[d] = VoidsIn(plays, d)

\* One more play.
LEMMA VoidsWithPlay ==
  ASSUME NEW m \in Nat, NEW s, Len(s) = m, NEW r, Len(r) = m + 1, \A i \in 1..m : r[i] = s[i], NEW d
  PROVE  VoidsIn(r, d) = VoidsIn(s, d) \cup
           (IF r[m + 1].deviceId = d /\ r[m + 1].card.suit # r[m + 1].leadSuit
            THEN {r[m + 1].leadSuit} ELSE {})
<1>1. 1..(m + 1) = (1..m) \cup {m + 1}
  OBVIOUS
<1> QED BY <1>1 DEF VoidsIn

\* playCard records a player that does not follow.
LEMMA PlayRecordsVoids ==
  ASSUME IInv, VoidsRecorded, NEW d \in Seated, NEW card \in hands[d], PlayCard(d, card)
  PROVE  VoidsRecorded'
<1> DEFINE lead == IF currentTrick = <<>> THEN card.suit ELSE LeadSuit
           entry == [handNumber |-> HandNumber, deviceId |-> d, card |-> card, leadSuit |-> lead]
           m == Len(plays)
<1>1. /\ plays' = Append(plays, entry) /\ Seated' = Seated
      /\ voidSuits' = IF card.suit = lead THEN voidSuits
                      ELSE [voidSuits EXCEPT ![d] = @ \cup {lead}]
  BY DEF PlayCard, seating, Seated
<1>2. m \in Nat /\ plays \in Seq(LedgerEntry) /\ voidSuits \in [Seated -> SUBSET Suits]
  BY DEF IInv, TypeOK
<1> HIDE DEF entry
<1>3. Len(plays') = m + 1 /\ (\A i \in 1..m : plays'[i] = plays[i]) /\ plays'[m + 1] = entry
  BY <1>1, <1>2
<1>4. entry.deviceId = d /\ entry.card = card /\ entry.leadSuit = lead
  BY DEF entry
<1> HIDE DEF lead, m
<1> SUFFICES ASSUME NEW e \in Seated PROVE voidSuits'[e] = VoidsIn(plays', e)
  BY <1>1 DEF VoidsRecorded
<1>5. VoidsIn(plays', e) = VoidsIn(plays, e) \cup
        (IF d = e /\ card.suit # lead THEN {lead} ELSE {})
  BY <1>2, <1>3, <1>4, VoidsWithPlay DEF m
<1>6. voidSuits[e] = VoidsIn(plays, e)
  BY DEF VoidsRecorded
<1> QED BY <1>1, <1>2, <1>5, <1>6

\* replacePlayer passes the voids on with the plays.
LEMMA ReplaceKeepsVoids ==
  ASSUME IInv, LedgerInv, VoidsRecorded, NEW from, NEW to \in Devices \ departed, ReplacePlayer(from, to)
  PROVE  VoidsRecorded'
<1> DEFINE m == Len(plays)
<1>1. /\ from \in Seated /\ to \notin Seated /\ Seated' = (Seated \ {from}) \cup {to}
      /\ Len(plays') = m /\ m \in Nat
      /\ \A i \in 1..m : /\ plays'[i].card = plays[i].card
                         /\ plays'[i].deviceId = Rename(plays[i].deviceId, from, to)
  BY ReplacedEntries
<1>2. plays' = RenamePlays(plays, from, to) /\ voidSuits' = RenameKey(voidSuits, from, to)
  BY DEF ReplacePlayer
<1>3. \A i \in 1..m : plays[i] \in LedgerEntry
  BY DEF IInv, TypeOK
<1>4. \A i \in 1..m : plays'[i].leadSuit = plays[i].leadSuit
  BY <1>2, <1>3 DEF RenamePlays, LedgerEntry
<1>5. \A i \in 1..m : plays[i].deviceId # to
  BY <1>1 DEF LedgerInv, PlayersKnown
<1>6. voidSuits \in [Seated -> SUBSET Suits]
  BY DEF IInv, TypeOK
<1> SUFFICES ASSUME NEW d \in Seated' PROVE voidSuits'[d] = VoidsIn(plays', d)
  BY DEF VoidsRecorded
<1> DEFINE e == IF d = to THEN from ELSE d
<1>7. e \in Seated /\ voidSuits'[d] = voidSuits[e]
  BY <1>1, <1>2, <1>6 DEF RenameKey
<1>8. \A i \in 1..m : plays'[i].deviceId = d <=> plays[i].deviceId = e
  BY <1>1, <1>5 DEF Rename
<1> HIDE DEF e
<1>9. VoidsIn(plays', d) = VoidsIn(plays, e)
  BY <1>1, <1>4, <1>8 DEF VoidsIn
<1> QED BY <1>7, <1>9 DEF VoidsRecorded

\* Every step of the rules engine keeps voids and ledger in agreement.
LEMMA VoidsRecordedStep ==
  ASSUME IInv, LedgerInv, VoidsRecorded, [Next]_vars
  PROVE  VoidsRecorded'
<1>1. CASE \/ \E order \in SeatOrders : StartGame(order)
           \/ NewGame
           \/ ContinueGame
           \/ ResolvePendingTrick /\ phase' = "bidding"
  <2>1. plays' = <<>> /\ voidSuits' = [d \in Seated' |-> {}]
    BY <1>1, DealSteps DEF JustDealt
  <2> QED BY <2>1 DEF VoidsRecorded, VoidsIn
<1>2. CASE \/ \E d \in Seated, bid \in BidInput : PlaceBid(d, bid)
           \/ ResolvePendingTrick /\ phase' # "bidding"
           \/ UNCHANGED vars
  <2>1. UNCHANGED <<plays, voidSuits>> /\ Seated' = Seated
    BY <1>2, QuietSteps
  <2> QED BY <2>1 DEF VoidsRecorded
<1>3. CASE \E d \in Seated : \E card \in hands[d] : PlayCard(d, card)
  BY <1>3, PlayRecordsVoids
<1>4. CASE \E from \in Leavers, to \in Devices \ departed : ReplacePlayer(from, to)
  BY <1>4, ReplaceKeepsVoids
<1>5. ASSUME NEW d \in Leavers, RemovePlayer(d) PROVE VoidsRecorded'
  <2>1. plays' = plays /\ voidSuits' = RemoveKey(voidSuits, d)
    BY <1>5 DEF RemovePlayer
  <2>2. Seated' = Seated \ {d}
    BY <1>5, RemovedTable
  <2> QED BY <2>1, <2>2 DEF VoidsRecorded, RemoveKey, IInv, TypeOK
<1> QED BY <1>1, <1>2, <1>3, <1>4, <1>5 DEF Next, Play, SeatChange, Session

\* Voids that agree with the ledger are the ones a restored game gets.
LEMMA VoidsRestored ==
  ASSUME IInv, VoidsRecorded
  PROVE  DerivedVoids(plays) = voidSuits
<1>1. voidSuits \in [Seated -> SUBSET Suits]
  BY DEF IInv, TypeOK
<1>2. DerivedVoids(plays) = [d \in Seated |-> VoidsIn(plays, d)]
  BY DEF DerivedVoids, VoidsIn
<1> QED BY <1>1, <1>2 DEF VoidsRecorded

-------------------------------------------------------------------------------
(* A snapshot that lacks its ledger.                                       *)

\* What every player was dealt, it holds or has on the table, or somebody won with a hand
\* of it: as long as no seat that won one is gone.
HandsWonOrHeld == \A d \in Seated : SumOf(TricksAt) + Holding(d) = HandSize(round)
HandsAccounted == ~upgraded /\ ~winnerLeft /\ phase # "none" => HandsWonOrHeld

\* The pile was played to the suit it is led with: as long as its leader is not gone.
PileLedRight ==
  \A k \in 1..Len(currentTrick) : \E j \in 1..Len(plays) :
    /\ plays[j].deviceId = currentTrick[k].deviceId /\ plays[j].card = currentTrick[k].card
    /\ plays[j].leadSuit = LeadSuit
PileKeepsLead == ~upgraded /\ ~leaderLeft => PileLedRight

\* Nothing is lost before the first card of a round is played.
NoLossYet == phase = "bidding" => ~winnerLeft /\ ~leaderLeft

\* Only a restored snapshot makes a ledger incomplete.
CompleteUntilUpgraded == ~upgraded => historyComplete = TRUE

\* Before a game is started there is nothing to save.
NothingYet == phase = "none" => plays = <<>>

RInv ==
  /\ IInv /\ CardsConserved /\ LedgerInv /\ HandsInv /\ ScoresheetAddsUp /\ FullTable
  /\ VoidsRecorded /\ CompleteUntilUpgraded /\ NothingYet
  /\ LedgerCompleteUnlessWinnerLeft /\ VoidSuitsSoundUnlessLeaderLeft
  /\ HandsAccounted /\ PileKeepsLead /\ NoLossYet

\* No card lies in the pile twice.
LEMMA PileCardsDiffer ==
  ASSUME IInv, CardsConserved, LedgerInv
  PROVE  \A i, j \in 1..Len(currentTrick) : currentTrick[i].card = currentTrick[j].card => i = j
<1> SUFFICES ASSUME NEW i \in 1..Len(currentTrick), NEW j \in 1..Len(currentTrick),
                    currentTrick[i].card = currentTrick[j].card
             PROVE  i = j
  OBVIOUS
<1>1. PICK a \in 1..Len(plays) : /\ plays[a].deviceId = currentTrick[i].deviceId
                                 /\ plays[a].card = currentTrick[i].card
  BY DEF CardsConserved
<1>2. PICK b \in 1..Len(plays) : /\ plays[b].deviceId = currentTrick[j].deviceId
                                 /\ plays[b].card = currentTrick[j].card
  BY DEF CardsConserved
<1>3. a = b
  BY <1>1, <1>2 DEF CardsConserved
<1> QED BY <1>1, <1>2, <1>3, PileSeated

\* The ledger is rebuilt from the pile.
LEMMA LedgerRebuilt ==
  ASSUME IInv, CardsConserved, LedgerInv, phase # "none"
  PROVE  NormalizedPlays(<<>>) = PileEntries
<1>1. PileEntries \in Seq(LedgerEntry) /\ Len(PileEntries) = Len(currentTrick)
      /\ \A i \in 1..Len(currentTrick) : PileEntries[i].card = currentTrick[i].card
  BY PileEntriesAre
<1>2. \A i, j \in 1..Len(PileEntries) : PileEntries[i].card = PileEntries[j].card => i = j
  BY <1>1, PileCardsDiffer
<1> DEFINE q == PileEntries
           none == <<>>
<1>3. none \in Seq(LedgerEntry) /\ \A i \in 1..Len(none) : \E j \in 1..Len(q) : q[j].card = none[i].card
  OBVIOUS
<1>4. q \o none = q /\ none \o q = q
  BY <1>1, ConcatEmptySeq
<1> HIDE DEF q, none
<1>5. FoldLeft(AddUnseen, <<>>, q \o none) = q
  BY <1>1, <1>2, <1>3, FoldKeepsNew DEF q
<1> QED BY <1>4, <1>5 DEF NormalizedPlays, q, none

\* What the rebuilt ledger and its voids are.
LEMMA LegacyEffect ==
  ASSUME RInv, RestoreLegacyRoom
  PROVE  /\ UNCHANGED <<phase, round, seatOrder, bidOrder, dealerSeat, hands, bids, bidTurnIndex,
                        tricksWon, currentTrick, turnSeat, scores, roundHistory, donkeys, carried, departed,
                        winnerLeft, leaderLeft>>
         /\ Seated' = Seated /\ phase # "none" /\ ~upgraded /\ upgraded'
         /\ plays' \in Seq(LedgerEntry) /\ Len(plays') = Len(currentTrick)
         /\ \A i \in 1..Len(currentTrick) :
              /\ plays'[i].handNumber = CompletedHands + 1 /\ plays'[i].leadSuit = LeadSuit
              /\ plays'[i].deviceId = currentTrick[i].deviceId
              /\ plays'[i].card = currentTrick[i].card
         /\ voidSuits' \in [Seated -> SUBSET Suits]
         /\ VoidsRecorded'
         /\ historyComplete' = (CompletedHands = 0)
<1>1. /\ UNCHANGED <<phase, round, seatOrder, bidOrder, dealerSeat, hands, bids, bidTurnIndex,
                     tricksWon, currentTrick, turnSeat, scores, roundHistory, donkeys, carried, departed,
                     winnerLeft, leaderLeft>>
      /\ phase # "none" /\ ~upgraded /\ upgraded'
      /\ plays' = NormalizedPlays(<<>>) /\ voidSuits' = DerivedVoids(plays')
      /\ historyComplete' = (CompletedHands = 0)
  BY DEF RestoreLegacyRoom, LegacyHistoryComplete, seating, bidding, sheet, losses
<1>2. plays' = PileEntries
  BY <1>1, LedgerRebuilt DEF RInv
<1>3. /\ plays' \in Seq(LedgerEntry) /\ Len(plays') = Len(currentTrick)
      /\ \A i \in 1..Len(currentTrick) :
           /\ plays'[i].handNumber = CompletedHands + 1 /\ plays'[i].leadSuit = LeadSuit
           /\ plays'[i].deviceId = currentTrick[i].deviceId
           /\ plays'[i].card = currentTrick[i].card
  BY <1>1, <1>2, PileEntriesAre DEF RInv
<1>4. Seated' = Seated
  BY <1>1 DEF Seated
<1>5. voidSuits' = [d \in Seated |-> VoidsIn(plays', d)]
  BY <1>1 DEF DerivedVoids, VoidsIn
<1>6. \A d \in Seated : VoidsIn(plays', d) \in SUBSET Suits
  <2> DEFINE q == plays'
  <2>1. q \in Seq(LedgerEntry)
    BY <1>3
  <2> HIDE DEF q
  <2>2. \A i \in 1..Len(q) : q[i] \in LedgerEntry
    BY <2>1
  <2>3. \A i \in 1..Len(q) : q[i].leadSuit \in Suits
    BY <2>2 DEF LedgerEntry
  <2>4. \A i \in 1..Len(plays') : plays'[i].leadSuit \in Suits
    BY <2>3 DEF q
  <2> QED BY <2>4 DEF VoidsIn
<1>7. voidSuits' \in [Seated -> SUBSET Suits]
  BY <1>5, <1>6
<1>8. VoidsRecorded'
  BY <1>4, <1>5 DEF VoidsRecorded
<1> QED BY <1>1, <1>3, <1>4, <1>7, <1>8

\* Seats, orders and types.
LEMMA LegacyKeepsTable ==
  ASSUME RInv, RestoreLegacyRoom
  PROVE  IInv'
<1>1. /\ UNCHANGED <<phase, round, seatOrder, bidOrder, dealerSeat, hands, bids, bidTurnIndex,
                     tricksWon, currentTrick, turnSeat, scores, roundHistory, donkeys, carried, departed>>
      /\ Seated' = Seated /\ phase # "none"
      /\ plays' \in Seq(LedgerEntry) /\ Len(plays') = Len(currentTrick)
      /\ \A i \in 1..Len(currentTrick) : plays'[i].handNumber = CompletedHands + 1
      /\ voidSuits' \in [Seated -> SUBSET Suits] /\ historyComplete' \in BOOLEAN
  BY LegacyEffect
<1>2. IInv /\ CompletedHands + 1 \in Nat
  BY <1>1, CompletedIsSum DEF RInv
<1>3. TypeOK'
  BY <1>1, <1>2 DEF IInv, TypeOK
<1>4. TableSeated' /\ DealerBidsLast' /\ PileFollowsSeats'
  BY <1>1, <1>2 DEF IInv, TableSeated, DealerBidsLast, PileFollowsSeats
<1>5. NumbersOrdered'
  <2>1. \A i \in 1..Len(plays') : plays'[i].handNumber = CompletedHands + 1
    BY <1>1
  <2> QED BY <1>2, <2>1 DEF NumbersOrdered
<1> QED BY <1>3, <1>4, <1>5 DEF IInv

\* Cards, voids and hand numbers.
LEMMA LegacyKeepsCards ==
  ASSUME RInv, RestoreLegacyRoom
  PROVE  VoidSuitsSoundUnlessLeaderLeft' /\ CardsConserved' /\ LedgerInv' /\ PileKeepsLead'
<1> DEFINE k == Len(currentTrick)
<1>1. /\ UNCHANGED <<seatOrder, hands, currentTrick, departed, leaderLeft>>
      /\ Seated' = Seated /\ ~upgraded /\ upgraded'
      /\ Len(plays') = k /\ VoidsRecorded'
      /\ \A i \in 1..k :
           /\ plays'[i].handNumber = CompletedHands + 1 /\ plays'[i].leadSuit = LeadSuit
           /\ plays'[i].deviceId = currentTrick[i].deviceId
           /\ plays'[i].card = currentTrick[i].card
  BY LegacyEffect
<1>2. IInv /\ CardsConserved /\ LedgerInv /\ VoidsRecorded /\ k \in Nat
  BY DEF RInv, IInv, TypeOK
<1> HIDE DEF k
<1>3. VoidSuitsSoundUnlessLeaderLeft'
  <2> SUFFICES ASSUME ~leaderLeft, NEW d \in Seated, NEW c \in hands[d], c.suit \in voidSuits'[d]
               PROVE FALSE
    BY <1>1 DEF VoidSuitsSoundUnlessLeaderLeft, VoidSuitsSound
  <2>0. VoidSuitsSound /\ PileLedRight
    BY <1>1 DEF RInv, VoidSuitsSoundUnlessLeaderLeft, PileKeepsLead
  <2>1. c.suit \in VoidsIn(plays', d)
    BY <1>1 DEF VoidsRecorded
  <2>2. PICK i \in 1..k : /\ plays'[i].deviceId = d /\ plays'[i].card.suit # plays'[i].leadSuit
                          /\ c.suit = plays'[i].leadSuit
    BY <1>1, <2>1 DEF VoidsIn
  <2>3. PICK j \in 1..Len(plays) : /\ plays[j].deviceId = currentTrick[i].deviceId
                                   /\ plays[j].card = currentTrick[i].card
                                   /\ plays[j].leadSuit = LeadSuit
    BY <1>1, <2>0, <2>2 DEF PileLedRight, k
  <2>4. plays[j].deviceId = d /\ plays[j].card.suit # plays[j].leadSuit /\ c.suit = plays[j].leadSuit
    BY <1>1, <2>2, <2>3
  <2>5. c.suit \in VoidsIn(plays, d)
    BY <2>4 DEF VoidsIn
  <2> QED BY <1>2, <2>0, <2>5 DEF VoidsRecorded, VoidSuitsSound
<1>4. CardsConserved'
  <2>1. \A d, e \in Seated : d # e => hands[d] \cap hands[e] = {}
    BY <1>2 DEF CardsConserved
  <2>2. \A i \in 1..k : \A d \in Seated : currentTrick[i].card \notin hands[d]
    BY <1>2 DEF CardsConserved, k
  <2>3. \A i, j \in 1..k : currentTrick[i].card = currentTrick[j].card => i = j
    BY <1>2, PileCardsDiffer DEF k
  <2> QED BY <1>1, <2>1, <2>2, <2>3 DEF CardsConserved, k
<1>5. LedgerInv'
  <2>1. \A i \in 1..k : currentTrick[i].deviceId \in Seated
    BY <1>2, PileSeated DEF k
  <2>2. \A i, j \in 1..k : currentTrick[i].deviceId = currentTrick[j].deviceId => i = j
    BY <1>2, PileSeated DEF k
  <2>3. PlayersKnown'
    BY <1>1, <2>1 DEF PlayersKnown
  <2>4. OncePerNumber'
    <3>1. \A i, j \in 1..k : i < j => i # j
      BY <1>2
    <3> QED BY <1>1, <2>2, <3>1 DEF OncePerNumber
  <2>5. LastNumberIsPile'
    BY <1>1 DEF LastNumberIsPile, k
  <2>6. PileHasLastNumber'
    <3>1. \A i \in 1..k : k \in 1..k
      BY <1>2
    <3> QED BY <1>1, <3>1 DEF PileHasLastNumber, k
  <2> QED BY <2>3, <2>4, <2>5, <2>6 DEF LedgerInv
<1>6. PileKeepsLead'
  BY <1>1 DEF PileKeepsLead
<1> QED BY <1>3, <1>4, <1>5, <1>6

\* The ledger is complete when no hand was resolved yet and the hands won tell so.
LEMMA LegacyKeepsAccounts ==
  ASSUME RInv, RestoreLegacyRoom
  PROVE  LedgerCompleteUnlessWinnerLeft'
<1> DEFINE k == Len(currentTrick)
<1>1. /\ UNCHANGED <<round, hands, winnerLeft>> /\ Seated' = Seated
      /\ phase # "none" /\ ~upgraded /\ upgraded' /\ Len(plays') = k
      /\ \A i \in 1..k : plays'[i].deviceId = currentTrick[i].deviceId
      /\ historyComplete' = (CompletedHands = 0)
  BY LegacyEffect
<1>2. IInv /\ HandsInv /\ HandsAccounted /\ k \in Nat
  BY DEF RInv, IInv, TypeOK
<1> HIDE DEF k
<1> SUFFICES ASSUME ~winnerLeft, CompletedHands = 0, NEW d \in Seated
             PROVE  Cardinality(hands[d]) + Cardinality({i \in 1..k : plays'[i].deviceId = d}) = HandSize(round)
  <2>1. HandSize(round)' = HandSize(round)
    BY <1>1 DEF HandSize
  <2> QED BY <1>1, <2>1 DEF LedgerCompleteUnlessWinnerLeft, LedgerComplete
<1>3. SumOf(TricksAt) = 0
  BY <1>1, <1>2, CompletedIsSum
<1>4. Cardinality(hands[d]) \in Nat
  BY <1>2, FS_CardinalityType DEF HandsInv, HandsFinite
<1>5. Cardinality({i \in 1..k : plays'[i].deviceId = d}) = IF InPile(d) THEN 1 ELSE 0
  <2>1. CASE InPile(d)
    <3>1. PICK p \in 1..k : currentTrick[p].deviceId = d
      BY <2>1 DEF InPile, k
    <3>2. \A i \in 1..k : plays'[i].deviceId = d <=> i = p
      BY <1>1, <1>2, <3>1, PileSeated DEF k
    <3>3. {i \in 1..k : plays'[i].deviceId = d} = {p}
      BY <3>1, <3>2
    <3> QED BY <2>1, <3>3, FS_Singleton
  <2>2. CASE ~InPile(d)
    <3>1. {i \in 1..k : plays'[i].deviceId = d} = {}
      BY <1>1, <2>2 DEF InPile, k
    <3> QED BY <2>2, <3>1, FS_EmptySet
  <2> QED BY <2>1, <2>2
<1>6. SumOf(TricksAt) + Holding(d) = HandSize(round)
  BY <1>1, <1>2 DEF HandsAccounted, HandsWonOrHeld
<1> QED BY <1>3, <1>4, <1>5, <1>6 DEF Holding

\* Everything else is as it was.
LEMMA LegacyKeepsRest ==
  ASSUME RInv, RestoreLegacyRoom
  PROVE  /\ HandsInv' /\ FullTable' /\ ScoresheetAddsUp' /\ HandsAccounted'
         /\ VoidsRecorded' /\ CompleteUntilUpgraded' /\ NothingYet' /\ NoLossYet'
<1>1. /\ UNCHANGED <<phase, round, seatOrder, bidOrder, dealerSeat, hands, bids, bidTurnIndex,
                     tricksWon, currentTrick, turnSeat, scores, roundHistory, donkeys, carried, departed,
                     winnerLeft, leaderLeft>>
      /\ Seated' = Seated /\ phase # "none" /\ VoidsRecorded' /\ upgraded'
  BY LegacyEffect
<1>2. BidsAt' = BidsAt /\ TricksAt' = TricksAt
  BY <1>1 DEF BidsAt, TricksAt, Bid
<1>3. \A d : Holding(d)' = Holding(d)
  BY <1>1 DEF Holding, InPile
<1>4. HandSize(round)' = HandSize(round)
  BY <1>1 DEF HandSize
<1>5. HandsInv'
  BY <1>1, <1>3, <1>4 DEF RInv, HandsInv, HandsFinite, HandsEven
<1>6. FullTable'
  BY <1>1, <1>2, <1>3, <1>4 DEF RInv, FullTable
<1>7. ScoresheetAddsUp'
  BY <1>1 DEF RInv, ScoresheetAddsUp
<1>8. HandsAccounted' /\ CompleteUntilUpgraded' /\ NothingYet' /\ NoLossYet'
  BY <1>1 DEF RInv, HandsAccounted, CompleteUntilUpgraded, NothingYet, NoLossYet
<1> QED BY <1>1, <1>5, <1>6, <1>7, <1>8

-------------------------------------------------------------------------------
(* Games that are saved and restored.                                      *)

\* The operations that deal.
CardsDealt ==
  \/ \E order \in SeatOrders : StartGame(order)
  \/ NewGame
  \/ ContinueGame
  \/ ResolvePendingTrick /\ phase' = "bidding"

\* An auction begins with a deal.
LEMMA AuctionsAreDealt ==
  ASSUME IInv, [Next]_vars, phase' = "bidding", ~CardsDealt
  PROVE  phase = "bidding"
<1>1. CASE \/ \E d \in Seated, bid \in BidInput : PlaceBid(d, bid)
           \/ \E d \in Seated : \E card \in hands[d] : PlayCard(d, card)
           \/ UNCHANGED vars
  BY <1>1 DEF PlaceBid, PlayCard, vars
<1>2. CASE \/ \E from \in Leavers, to \in Devices \ departed : ReplacePlayer(from, to)
           \/ \E d \in Leavers : RemovePlayer(d)
  BY <1>2 DEF ReplacePlayer, RemovePlayer, RemoveWhileBidding, RemoveWhilePlaying, RemoveAtGameEnd
<1> QED BY <1>1, <1>2 DEF Next, Play, SeatChange, Session, CardsDealt

\* What was just dealt is complete, and nobody is void.
LEMMA DealIsComplete ==
  ASSUME IInv, CardsDealt
  PROVE  LedgerComplete' /\ VoidSuitsSound'
<1>1. JustDealt'
  BY DealSteps DEF CardsDealt
<1>2. /\ \A d \in Seated' : IsFiniteSet(hands'[d]) /\ Cardinality(hands'[d]) = HandSize(round')
      /\ Len(plays') = 0 /\ voidSuits' = [d \in Seated' |-> {}]
  BY <1>1 DEF JustDealt, HandSize
<1>3. \A d \in Seated' : Cardinality(hands'[d]) \in Nat
  BY <1>2, FS_CardinalityType
<1>4. \A d : {i \in 1..Len(plays') : plays'[i].deviceId = d} = {}
  BY <1>2
<1>5. \A d \in Seated' :
        Cardinality(hands'[d]) + Cardinality({i \in 1..Len(plays') : plays'[i].deviceId = d})
          = HandSize(round')
  BY <1>2, <1>3, <1>4, FS_EmptySet
<1>6. LedgerComplete'
  BY <1>5 DEF LedgerComplete, HandSize
<1> QED BY <1>2, <1>6 DEF VoidSuitsSound

\* An element that is 0 can be left out of a sum.
LEMMA SumWithoutZero ==
  ASSUME NEW n \in Nat, NEW p \in 1..n, NEW s, NEW r, Len(s) = n, Len(r) = n - 1,
         \A i \in 1..n : s[i] \in Int, s[p] = 0, \A i \in 1..(n - 1) : r[i] = s[Past(p, i)]
  PROVE  SumOf(r) = SumOf(s)
<1>1. PICK t : RunningTotal(t, s, n)
  BY RunningTotalExists
<1>2. t[0] = 0 /\ (\A i \in 0..n : t[i] \in Int) /\ \A i \in 1..n : t[i] = t[i - 1] + s[i]
  BY <1>1 DEF RunningTotal
<1>3. t[p] = t[p - 1]
  <2>1. p - 1 \in 0..n /\ t[p] = t[p - 1] + s[p]
    BY <1>2
  <2>2. t[p - 1] \in Int
    BY <1>2, <2>1
  <2> QED BY <2>1, <2>2
<1> DEFINE u == [i \in 0..(n - 1) |-> IF i < p THEN t[i] ELSE t[i + 1]]
<1>4. u \in [0..(n - 1) -> Int] /\ u[0] = 0
  BY <1>2
<1>5. ASSUME NEW i \in 1..(n - 1) PROVE u[i] = u[i - 1] + r[i]
  <2>1. i \in 1..n /\ i + 1 \in 1..n /\ i - 1 \in 0..(n - 1) /\ i \in 0..(n - 1) /\ (i + 1) - 1 = i
    OBVIOUS
  <2>2. t[i] = t[i - 1] + s[i] /\ t[i + 1] = t[i] + s[i + 1]
    BY <1>2, <2>1
  <2>3. CASE i < p
    <3>1. u[i] = t[i] /\ u[i - 1] = t[i - 1] /\ r[i] = s[i]
      BY <2>1, <2>3 DEF Past
    <3> QED BY <2>2, <3>1
  <2>4. CASE i = p
    <3>1. u[i] = t[i + 1] /\ u[i - 1] = t[i - 1] /\ r[i] = s[i + 1]
      BY <2>1, <2>4 DEF Past
    <3> QED BY <1>3, <2>2, <2>4, <3>1
  <2>5. CASE i > p
    <3>1. u[i] = t[i + 1] /\ u[i - 1] = t[i] /\ r[i] = s[i + 1]
      BY <2>1, <2>5 DEF Past
    <3> QED BY <2>2, <3>1
  <2> QED BY <2>3, <2>4, <2>5
<1>6. u[n - 1] = t[n]
  BY <1>3
<1> HIDE DEF u
<1>7. RunningTotal(u, r, n - 1) /\ n - 1 \in Nat
  BY <1>4, <1>5 DEF RunningTotal
<1>8. SumOf(s) = t[n] /\ SumOf(r) = u[n - 1]
  BY <1>1, <1>7, SumIsTotal
<1> QED BY <1>6, <1>8

\* Everyone has all its cards after a deal.
LEMMA DealAccounts ==
  ASSUME IInv, CardsDealt
  PROVE  HandsWonOrHeld'
<1>1. JustDealt'
  BY DealSteps DEF CardsDealt
<1>2. IInv'
  BY NextInv DEF CardsDealt, Next, Play, Session
<1>3. /\ tricksWon' = [d \in Seated' |-> 0] /\ currentTrick' = <<>>
      /\ \A d \in Seated' : IsFiniteSet(hands'[d]) /\ Cardinality(hands'[d]) = HandSize(round)'
  BY <1>1 DEF JustDealt
<1>4. Len(seatOrder') \in Nat
  BY <1>2 DEF IInv, TypeOK
<1>5. Len(TricksAt') \in Nat /\ \A i \in 1..Len(TricksAt') : TricksAt'[i] = 0
  BY <1>3, <1>4 DEF TricksAt, Seated, SeatsOf
<1>6. SumOf(TricksAt') = 0
  BY <1>5, SumOfZeros
<1>7. \A d \in Seated' : Cardinality(hands'[d]) \in Nat
  BY <1>3, FS_CardinalityType
<1>8. \A d \in Seated' : Holding(d)' = HandSize(round)'
  BY <1>3, <1>7 DEF Holding, InPile
<1>9. HandsWonOrHeld' = (\A d \in Seated' : SumOf(TricksAt') + Holding(d)' = HandSize(round)')
  BY DEF HandsWonOrHeld
<1>10. \A d \in Seated' : Holding(d)' \in Nat
  BY <1>3, <1>7, <1>8
<1> QED BY <1>6, <1>8, <1>9, <1>10

\* Hands won pass on with the seat.
LEMMA ReplaceKeepsAccounts ==
  ASSUME IInv, HandsInv, HandsWonOrHeld, NEW from, NEW to \in Devices, ReplacePlayer(from, to)
  PROVE  HandsWonOrHeld'
<1> DEFINE Back(d) == IF d = to THEN from ELSE d
           k == Len(currentTrick)
<1>1. /\ from \in Seated /\ to \notin Seated /\ Seated' = (Seated \ {from}) \cup {to}
      /\ Len(currentTrick') = k
      /\ \A i \in 1..k : currentTrick'[i].deviceId = Rename(currentTrick[i].deviceId, from, to)
  BY ReplacedEntries
<1>2. \A d \in Seated' : Back(d) \in Seated /\ hands'[d] = hands[Back(d)]
  BY <1>1, ReplacedHands
<1>3. \A i \in 1..k : currentTrick[i].deviceId # to
  BY <1>1, PileSeated
<1>4. \A d \in Seated' : InPile(d)' <=> InPile(Back(d))
  BY <1>1, <1>3 DEF InPile, Rename
<1>5. /\ round' = round /\ tricksWon' = RenameKey(tricksWon, from, to)
      /\ seatOrder' = [i \in 1..Len(seatOrder) |-> Rename(seatOrder[i], from, to)]
  BY DEF ReplacePlayer
<1>6. tricksWon \in [Seated -> Nat] /\ Len(seatOrder) \in Nat
  BY DEF IInv, TypeOK
<1>7. \A i \in 1..Len(seatOrder) : seatOrder[i] \in Seated
  BY DEF Seated, SeatsOf
<1> HIDE DEF Back
<1>8. \A d \in Seated' : Holding(d)' = Holding(Back(d))
  BY <1>2, <1>4 DEF Holding
<1>9. TricksAt' = TricksAt
  <2>1. Len(seatOrder') = Len(seatOrder)
    BY <1>5, <1>6
  <2>2. \A i \in 1..Len(seatOrder) : tricksWon'[seatOrder'[i]] = tricksWon[seatOrder[i]]
    BY <1>1, <1>5, <1>6, <1>7 DEF RenameKey, Rename
  <2> QED BY <2>1, <2>2 DEF TricksAt
<1>10. HandSize(round)' = HandSize(round)
  BY <1>5 DEF HandSize
<1> QED BY <1>2, <1>8, <1>9, <1>10 DEF HandsWonOrHeld

\* A seat without a hand takes none with it.
LEMMA RemoveKeepsAccounts ==
  ASSUME IInv, HandsInv, HandsWonOrHeld, NEW d, RemovePlayer(d), tricksWon[d] = 0
  PROVE  HandsWonOrHeld'
<1> DEFINE n == Len(seatOrder)
<1>1. /\ Seated' = Seated \ {d} /\ d \in Seated /\ phase # "none"
      /\ seatOrder' = Leave(seatOrder, d) /\ Len(seatOrder') = n - 1
      /\ hands' = RemoveKey(hands, d) /\ tricksWon' = RemoveKey(tricksWon, d) /\ round' = round
  BY RemovedTable DEF RemovePlayer
<1>2. \A e \in Seated' : e \in Seated /\ hands'[e] = hands[e] /\ tricksWon'[e] = tricksWon[e]
  BY <1>1 DEF RemoveKey, IInv, TypeOK
<1>0. \A e \in Seated' : e # d
  BY <1>1
<1>3. \A e \in Seated' : InPile(e)' <=> InPile(e)
  <2>1. \A i \in 1..Len(currentTrick') : \E j \in 1..Len(currentTrick) : currentTrick'[i] = currentTrick[j]
    BY RemovedPileIsPart
  <2>2. \A j \in 1..Len(currentTrick) : currentTrick[j].deviceId # d =>
          \E i \in 1..Len(currentTrick') : currentTrick'[i] = currentTrick[j]
    BY RemovedPileKeeps
  <2> QED BY <1>0, <2>1, <2>2 DEF InPile
<1>4. \A e \in Seated' : Holding(e)' = Holding(e)
  BY <1>2, <1>3 DEF Holding
<1>5. IsSeating(seatOrder) /\ n \in Nat /\ tricksWon \in [Seated -> Nat]
  BY <1>1, BidOrderSeating DEF IInv, TypeOK
<1>6. PICK p \in 1..n : seatOrder[p] = d
  BY <1>1 DEF Seated, SeatsOf
<1>7. \A i \in 1..(n - 1) : seatOrder'[i] = seatOrder[Past(p, i)] /\ seatOrder'[i] \in Seated'
  <2>1. \A i \in 1..(n - 1) : seatOrder'[i] = seatOrder[Past(p, i)]
    BY <1>1, <1>5, <1>6, LeaveAt DEF Past
  <2>2. \A i \in 1..(n - 1) : seatOrder'[i] \in Seated'
    BY <1>1 DEF Seated, SeatsOf
  <2> QED BY <2>1, <2>2
<1>8. \A i \in 1..n : seatOrder[i] \in Seated
  BY DEF Seated, SeatsOf
<1> DEFINE s == TricksAt
           r == TricksAt'
<1>9. Len(s) = n /\ (\A i \in 1..n : s[i] = tricksWon[seatOrder[i]])
  BY <1>5 DEF TricksAt
<1>10. Len(r) = n - 1 /\ \A i \in 1..(n - 1) : r[i] = tricksWon'[seatOrder'[i]]
  BY <1>1, <1>5 DEF TricksAt
<1>11. (\A i \in 1..n : s[i] \in Int) /\ s[p] = 0
  BY <1>5, <1>6, <1>8, <1>9
<1>12. \A i \in 1..(n - 1) : r[i] = s[Past(p, i)]
  <2> TAKE i \in 1..(n - 1)
  <2>1. Past(p, i) \in 1..n
    BY <1>5 DEF Past
  <2> HIDE DEF s, r, n
  <2>2. r[i] = tricksWon'[seatOrder'[i]] /\ seatOrder'[i] \in Seated' /\ seatOrder'[i] = seatOrder[Past(p, i)]
    BY <1>7, <1>10
  <2>3. r[i] = tricksWon[seatOrder[Past(p, i)]]
    BY <1>2, <2>2
  <2> QED BY <1>9, <2>1, <2>3
<1> HIDE DEF s, r, n
<1>13. SumOf(r) = SumOf(s)
  BY <1>5, <1>6, <1>9, <1>10, <1>11, <1>12, SumWithoutZero
<1>14. HandSize(round)' = HandSize(round)
  BY <1>1 DEF HandSize
<1> QED BY <1>2, <1>4, <1>13, <1>14 DEF HandsWonOrHeld, s, r

\* A hand that is resolved is held no longer, and counted.
LEMMA ResolveKeepsAccounts ==
  ASSUME IInv, HandsInv, HandsWonOrHeld, ResolvePendingTrick, phase' # "bidding"
  PROVE  HandsWonOrHeld'
<1>1. /\ phase = "trick" /\ IsTrickComplete /\ currentTrick' = <<>>
      /\ tricksWon' = TricksWith(Winner)
      /\ UNCHANGED <<hands, round, seatOrder>> /\ Seated' = Seated
  BY DEF ResolvePendingTrick, FinishRound, BuildRound, TricksWith, IsTrickComplete,
         seating, Seated
<1>2. TricksAt' = [i \in 1..Len(seatOrder) |-> TricksWith(Winner)[seatOrder[i]]]
  BY <1>1 DEF TricksAt
<1>3. SumOf(TricksAt') = SumOf(TricksAt) + 1 /\ SumOf(TricksAt) \in Int
  BY <1>1, <1>2, WinnerCounted
<1>4. \A e \in Seated : Cardinality(hands[e]) \in Nat
  BY FS_CardinalityType DEF HandsInv, HandsFinite
<1>5. \A e \in Seated : Holding(e) = Cardinality(hands[e]) + 1 /\ Holding(e)' = Cardinality(hands[e])
  BY <1>1, <1>4, FullPile DEF Holding, InPile
<1>6. HandSize(round)' = HandSize(round)
  BY <1>1 DEF HandSize
<1> QED BY <1>1, <1>3, <1>4, <1>5, <1>6 DEF HandsWonOrHeld

\* The account is kept by every step that removes no winner.
LEMMA AccountsStep ==
  ASSUME IInv, HandsInv, HandsWonOrHeld, [Next]_vars, ~CardsDealt,
         \A d \in Seated : SeatRemoved(d) => tricksWon[d] = 0
  PROVE  HandsWonOrHeld'
<1>1. CASE \/ \E d \in Seated, bid \in BidInput : PlaceBid(d, bid)
           \/ UNCHANGED vars
  <2>1. UNCHANGED <<round, seatOrder, hands, tricksWon, currentTrick>> /\ Seated' = Seated
    BY <1>1 DEF PlaceBid, vars, seating, Seated
  <2>2. TricksAt' = TricksAt /\ (\A d : Holding(d)' = Holding(d)) /\ HandSize(round)' = HandSize(round)
    BY <2>1 DEF TricksAt, Holding, InPile, HandSize
  <2> QED BY <2>1, <2>2 DEF HandsWonOrHeld
<1>2. CASE \E d \in Seated : \E card \in hands[d] : PlayCard(d, card)
  <2>1. UNCHANGED <<round, seatOrder, tricksWon>> /\ Seated' = Seated
    BY <1>2 DEF PlayCard, seating, Seated
  <2>2. TricksAt' = TricksAt /\ HandSize(round)' = HandSize(round)
    BY <2>1 DEF TricksAt, HandSize
  <2>3. \A e \in Seated : Holding(e)' = Holding(e)
    BY <1>2, PlayKeepsHands
  <2> QED BY <2>1, <2>2, <2>3 DEF HandsWonOrHeld
<1>3. CASE ResolvePendingTrick
  BY <1>3, ResolveKeepsAccounts DEF CardsDealt
<1>4. CASE \E from \in Leavers, to \in Devices \ departed : ReplacePlayer(from, to)
  BY <1>4, ReplaceKeepsAccounts
<1>5. ASSUME NEW d \in Leavers, RemovePlayer(d)
      PROVE  HandsWonOrHeld'
  <2>1. /\ d \in Seated /\ Seated' = Seated \ {d} /\ Len(seatOrder') = Len(seatOrder) - 1
        /\ Len(seatOrder) > 2
    BY <1>5, RemovedTable
  <2>2. Len(seatOrder) \in Nat
    BY DEF IInv, TypeOK
  <2>3. SeatRemoved(d)
    BY <2>1, <2>2 DEF SeatRemoved
  <2> QED BY <1>5, <2>1, <2>3, RemoveKeepsAccounts
<1> QED BY <1>1, <1>2, <1>3, <1>4, <1>5 DEF Next, Play, SeatChange, Session, CardsDealt

\* A step of a game, or of nothing.
GameStep ==
  /\ [Next]_vars /\ UNCHANGED upgraded
  /\ NoteLosses \/ UNCHANGED <<vars, losses>>

\* What is not lost after a step outside an auction was not lost before it.
LEMMA KeptBefore ==
  ASSUME RInv, GameStep
  PROVE  /\ ~winnerLeft' => \/ CardsDealt
                            \/ ~winnerLeft /\ \A d \in Seated : SeatRemoved(d) /\ ~upgraded => tricksWon[d] = 0
         /\ ~leaderLeft' => \/ CardsDealt
                            \/ ~upgraded /\ currentTrick' = <<>>
                            \/ ~leaderLeft /\ (SeatRemoved(currentTrick[1].deviceId) /\ ~upgraded
                                                => currentTrick = <<>>)
         /\ NoLossYet'
<1>0. IInv /\ FullTable /\ NoLossYet /\ tricksWon \in [Seated -> Nat]
  BY DEF RInv, IInv, TypeOK
<1>1. CASE UNCHANGED <<vars, losses>>
  <2>1. UNCHANGED <<phase, seatOrder, winnerLeft, leaderLeft>>
    BY <1>1 DEF vars, seating, losses
  <2>2. Len(seatOrder) \in Nat
    BY <1>0 DEF IInv, TypeOK
  <2>3. \A d : ~SeatRemoved(d)
    BY <2>1, <2>2 DEF SeatRemoved
  <2> QED BY <1>0, <2>1, <2>3 DEF NoLossYet
<1>2. CASE NoteLosses
  <2>1. NoLossYet'
    BY <1>2 DEF NoLossYet, NoteLosses
  <2>2. CASE phase' # "bidding"
    <3>1. /\ ~winnerLeft' => ~winnerLeft /\ \A d \in Seated : SeatRemoved(d) /\ ~upgraded => ~(tricksWon[d] > 0)
          /\ ~leaderLeft' => \/ ~upgraded /\ currentTrick' = <<>>
                             \/ ~leaderLeft /\ (SeatRemoved(currentTrick[1].deviceId) /\ ~upgraded
                                                 => currentTrick = <<>>)
      BY <1>2, <2>2 DEF NoteLosses
    <3>2. \A d \in Seated : ~(tricksWon[d] > 0) => tricksWon[d] = 0
      BY <1>0
    <3> QED BY <2>1, <3>1, <3>2
  <2>3. CASE phase' = "bidding" /\ ~CardsDealt
    <3>1. phase = "bidding"
      BY <1>0, <2>3, AuctionsAreDealt DEF GameStep
    <3>2. /\ ~winnerLeft /\ ~leaderLeft /\ currentTrick = <<>> /\ \A d \in Seated : tricksWon[d] = 0
      BY <1>0, <3>1 DEF NoLossYet, FullTable, IInv, TableSeated
    <3> QED BY <2>1, <3>2
  <2> QED BY <2>1, <2>2, <2>3
<1> QED BY <1>1, <1>2 DEF GameStep

\* The account of the hands through every step.
LEMMA HandsAccountedStep ==
  ASSUME RInv, GameStep
  PROVE  HandsAccounted'
<1>1. IInv /\ HandsInv /\ HandsAccounted /\ NothingYet
  BY DEF RInv
<1> SUFFICES ASSUME ~upgraded', ~winnerLeft', phase' # "none" PROVE HandsWonOrHeld'
  BY DEF HandsAccounted
<1>2. ~upgraded /\ [Next]_vars
  BY DEF GameStep
<1>3. CASE CardsDealt
  BY <1>1, <1>3, DealAccounts
<1>4. CASE ~CardsDealt
  <2>1. ~winnerLeft /\ \A d \in Seated : SeatRemoved(d) => tricksWon[d] = 0
    BY <1>2, <1>4, KeptBefore
  <2>2. phase # "none"
    <3> SUFFICES ASSUME phase = "none" PROVE FALSE
      OBVIOUS
    <3>1. Seated = {}
      BY <1>1 DEF IInv, TableSeated, Seated, SeatsOf
    <3>2. ~ResolvePendingTrick /\ (\A d : ~RemovePlayer(d)) /\ (\A from, to : ~ReplacePlayer(from, to))
      BY <3>1 DEF ResolvePendingTrick, IsTrickComplete, RemovePlayer, ReplacePlayer
    <3>3. UNCHANGED vars
      BY <1>2, <1>4, <3>1, <3>2 DEF Next, Play, SeatChange, Session, CardsDealt
    <3> QED BY <3>3 DEF vars
  <2>3. HandsWonOrHeld
    BY <1>1, <1>2, <2>1, <2>2 DEF HandsAccounted
  <2> QED BY <1>1, <1>2, <1>4, <2>1, <2>3, AccountsStep
<1> QED BY <1>3, <1>4

\* playCard records the suit that the pile is led with.
LEMMA PlayKeepsLead ==
  ASSUME IInv, PileLedRight, NEW d \in Seated, NEW card \in hands[d], PlayCard(d, card)
  PROVE  PileLedRight'
<1> DEFINE lead == IF currentTrick = <<>> THEN card.suit ELSE LeadSuit
           entry == [handNumber |-> HandNumber, deviceId |-> d, card |-> card, leadSuit |-> lead]
           played == [deviceId |-> d, card |-> card]
           m == Len(plays)
           k == Len(currentTrick)
<1>1. plays' = Append(plays, entry) /\ currentTrick' = Append(currentTrick, played)
  BY DEF PlayCard
<1>2. m \in Nat /\ plays \in Seq(LedgerEntry) /\ k \in Nat /\ currentTrick \in Seq(PlayedCard)
  BY DEF IInv, TypeOK
<1>3. /\ entry.deviceId = d /\ entry.card = card /\ entry.leadSuit = lead
      /\ played.deviceId = d /\ played.card = card
  OBVIOUS
<1> HIDE DEF entry, played
<1>4. /\ Len(plays') = m + 1 /\ (\A i \in 1..m : plays'[i] = plays[i]) /\ plays'[m + 1] = entry
      /\ Len(currentTrick') = k + 1
      /\ (\A i \in 1..k : currentTrick'[i] = currentTrick[i]) /\ currentTrick'[k + 1] = played
  BY <1>1, <1>2
<1>5. LeadSuit' = lead
  <2>1. CASE currentTrick = <<>>
    BY <1>3, <1>4, <2>1 DEF LeadSuit
  <2>2. CASE currentTrick # <<>>
    <3>1. 1 \in 1..k
      BY <1>2, <2>2
    <3> QED BY <1>4, <2>2, <3>1 DEF LeadSuit
  <2> QED BY <2>1, <2>2
<1> SUFFICES ASSUME NEW i \in 1..(k + 1)
             PROVE  \E j \in 1..(m + 1) :
                      /\ plays'[j].deviceId = currentTrick'[i].deviceId
                      /\ plays'[j].card = currentTrick'[i].card
                      /\ plays'[j].leadSuit = lead
  BY <1>1, <1>4, <1>5 DEF PileLedRight
<1>6. CASE i = k + 1
  <2>1. m + 1 \in 1..(m + 1)
    BY <1>2
  <2> QED BY <1>3, <1>4, <1>6, <2>1
<1>7. CASE i # k + 1
  <2>1. i \in 1..k /\ currentTrick # <<>>
    BY <1>2, <1>7
  <2>2. PICK j \in 1..m : /\ plays[j].deviceId = currentTrick[i].deviceId
                          /\ plays[j].card = currentTrick[i].card /\ plays[j].leadSuit = LeadSuit
    BY <2>1 DEF PileLedRight
  <2>3. j \in 1..(m + 1) /\ plays'[j] = plays[j] /\ currentTrick'[i] = currentTrick[i]
    BY <1>2, <1>4, <2>1
  <2> QED BY <2>1, <2>2, <2>3
<1> QED BY <1>6, <1>7

\* A card played to the pile keeps its led suit when its player changes.
LEMMA ReplaceKeepsLead ==
  ASSUME IInv, PileLedRight, NEW from, NEW to \in Devices, ReplacePlayer(from, to)
  PROVE  PileLedRight'
<1> DEFINE m == Len(plays)
           k == Len(currentTrick)
<1>1. /\ Len(plays') = m /\ Len(currentTrick') = k /\ k \in Nat
      /\ \A i \in 1..m : /\ plays'[i].card = plays[i].card
                         /\ plays'[i].deviceId = Rename(plays[i].deviceId, from, to)
      /\ \A i \in 1..k : /\ currentTrick'[i].card = currentTrick[i].card
                         /\ currentTrick'[i].deviceId = Rename(currentTrick[i].deviceId, from, to)
  BY ReplacedEntries
<1>2. plays' = RenamePlays(plays, from, to)
  BY DEF ReplacePlayer
<1>3. \A i \in 1..m : plays[i] \in LedgerEntry
  BY DEF IInv, TypeOK
<1>4. \A i \in 1..m : plays'[i].leadSuit = plays[i].leadSuit
  BY <1>2, <1>3 DEF RenamePlays, LedgerEntry
<1> HIDE DEF m, k
<1> SUFFICES ASSUME NEW i \in 1..k
             PROVE  \E j \in 1..m : /\ plays'[j].deviceId = currentTrick'[i].deviceId
                                    /\ plays'[j].card = currentTrick'[i].card
                                    /\ plays'[j].leadSuit = LeadSuit'
  BY <1>1 DEF PileLedRight
<1>5. LeadSuit' = LeadSuit
  <2>1. 1 \in 1..k
    BY <1>1
  <2>2. currentTrick'[1].card = currentTrick[1].card
    BY <1>1, <2>1
  <2> QED BY <2>2 DEF LeadSuit
<1>6. PICK j \in 1..m : /\ plays[j].deviceId = currentTrick[i].deviceId
                        /\ plays[j].card = currentTrick[i].card /\ plays[j].leadSuit = LeadSuit
  BY DEF PileLedRight, m, k
<1> QED BY <1>1, <1>4, <1>5, <1>6

\* So does what is left of the pile when a seat is removed that did not lead it.
LEMMA RemoveKeepsLead ==
  ASSUME IInv, PileLedRight, NEW d, RemovePlayer(d),
         currentTrick # <<>> => currentTrick[1].deviceId # d
  PROVE  PileLedRight'
<1> DEFINE k == Len(currentTrick)
<1>1. k \in Nat /\ currentTrick \in Seq(PlayedCard)
  BY DEF IInv, TypeOK
<1>2. plays' = plays
  BY DEF RemovePlayer
<1>3. CASE \A i \in 1..k : currentTrick[i].deviceId # d
  <2>1. currentTrick' = currentTrick
    BY <1>3, RemovedPileCards
  <2> QED BY <1>2, <2>1 DEF PileLedRight, LeadSuit
<1>4. ASSUME NEW p \in 1..k, currentTrick[p].deviceId = d
      PROVE  PileLedRight'
  <2>1. Len(currentTrick') = k - 1 /\ \A i \in 1..(k - 1) : currentTrick'[i] = currentTrick[Past(p, i)]
    BY <1>4, RemovedPileCards
  <2>2. p > 1
    <3>1. k >= 1
      BY <1>1
    <3>2. currentTrick # <<>>
      BY <1>1, <3>1
    <3> QED BY <1>4, <3>2
  <2>3. 1 \in 1..(k - 1) /\ Past(p, 1) = 1
    BY <1>1, <2>2 DEF Past
  <2>4. currentTrick'[1] = currentTrick[1]
    BY <2>1, <2>3
  <2>5. LeadSuit' = LeadSuit
    BY <2>4 DEF LeadSuit
  <2>6. \A i \in 1..Len(currentTrick') : \E j \in 1..k : currentTrick'[i] = currentTrick[j]
    BY RemovedPileIsPart
  <2> SUFFICES ASSUME NEW i \in 1..Len(currentTrick')
               PROVE  \E j \in 1..Len(plays) : /\ plays[j].deviceId = currentTrick'[i].deviceId
                                               /\ plays[j].card = currentTrick'[i].card
                                               /\ plays[j].leadSuit = LeadSuit
    BY <1>2, <2>5 DEF PileLedRight
  <2>7. PICK j \in 1..k : currentTrick'[i] = currentTrick[j]
    BY <2>6
  <2> QED BY <2>7 DEF PileLedRight
<1> QED BY <1>3, <1>4

\* Every step of the rules engine keeps it that does not remove the leader.
LEMMA PileLedRightStep ==
  ASSUME IInv, PileLedRight, [Next]_vars,
         SeatRemoved(currentTrick[1].deviceId) => currentTrick = <<>>
  PROVE  PileLedRight'
<1>1. CASE CardsDealt
  <2>1. currentTrick' = <<>>
    BY <1>1, DealSteps DEF CardsDealt, JustDealt
  <2> QED BY <2>1 DEF PileLedRight
<1>2. CASE \/ \E d \in Seated, bid \in BidInput : PlaceBid(d, bid)
           \/ ResolvePendingTrick /\ phase' # "bidding"
           \/ UNCHANGED vars
  <2>1. plays' = plays /\ currentTrick' \in {currentTrick, <<>>}
    BY <1>2, QuietSteps
  <2> QED BY <2>1 DEF PileLedRight, LeadSuit
<1>3. CASE \E d \in Seated : \E card \in hands[d] : PlayCard(d, card)
  BY <1>3, PlayKeepsLead
<1>4. CASE \E from \in Leavers, to \in Devices \ departed : ReplacePlayer(from, to)
  BY <1>4, ReplaceKeepsLead
<1>5. ASSUME NEW d \in Leavers, RemovePlayer(d)
      PROVE  PileLedRight'
  <2>1. /\ d \in Seated /\ Seated' = Seated \ {d} /\ Len(seatOrder') = Len(seatOrder) - 1
        /\ Len(seatOrder) > 2
    BY <1>5, RemovedTable
  <2>2. Len(seatOrder) \in Nat
    BY DEF IInv, TypeOK
  <2>3. SeatRemoved(d)
    BY <2>1, <2>2 DEF SeatRemoved
  <2> QED BY <1>5, <2>3, RemoveKeepsLead
<1> QED BY <1>1, <1>2, <1>3, <1>4, <1>5 DEF Next, Play, SeatChange, Session, CardsDealt

\* The pile through every step.
LEMMA PileKeepsLeadStep ==
  ASSUME RInv, GameStep
  PROVE  PileKeepsLead'
<1>1. IInv /\ PileKeepsLead
  BY DEF RInv
<1> SUFFICES ASSUME ~upgraded', ~leaderLeft' PROVE PileLedRight'
  BY DEF PileKeepsLead
<1>2. ~upgraded /\ [Next]_vars
  BY DEF GameStep
<1>3. CASE currentTrick' = <<>>
  BY <1>3 DEF PileLedRight
<1>4. CASE currentTrick' # <<>>
  <2>1. ~CardsDealt
    <3> SUFFICES ASSUME CardsDealt PROVE FALSE
      OBVIOUS
    <3>1. currentTrick' = <<>>
      BY <1>1, DealSteps DEF CardsDealt, JustDealt
    <3> QED BY <1>4, <3>1
  <2>2. ~leaderLeft /\ (SeatRemoved(currentTrick[1].deviceId) => currentTrick = <<>>)
    BY <1>2, <1>4, <2>1, KeptBefore
  <2> QED BY <1>1, <1>2, <2>2, PileLedRightStep DEF PileKeepsLead
<1> QED BY <1>3, <1>4

\* What is complete stays so, and what was not is complete after the next deal.
LEMMA LedgerUnlessStep ==
  ASSUME RInv, GameStep
  PROVE  LedgerCompleteUnlessWinnerLeft'
<1>1. IInv /\ LedgerInv /\ HandsInv /\ LedgerCompleteUnlessWinnerLeft
  BY DEF RInv
<1> SUFFICES ASSUME ~(upgraded' /\ winnerLeft') PROVE LedgerComplete'
  BY DEF LedgerCompleteUnlessWinnerLeft
<1>2. upgraded' = upgraded /\ [Next]_vars
  BY DEF GameStep
<1>3. CASE CardsDealt
  BY <1>1, <1>3, DealIsComplete
<1>4. CASE ~CardsDealt
  <2>1. ~(upgraded /\ winnerLeft)
    BY <1>2, <1>4, KeptBefore
  <2> QED BY <1>1, <1>2, <2>1, LedgerCompleteStep DEF LedgerCompleteUnlessWinnerLeft
<1> QED BY <1>3, <1>4

\* What is certain stays so, and after the next deal everything is.
LEMMA VoidsUnlessStep ==
  ASSUME RInv, GameStep
  PROVE  VoidSuitsSoundUnlessLeaderLeft'
<1>1. IInv /\ VoidSuitsSoundUnlessLeaderLeft
  BY DEF RInv
<1> SUFFICES ASSUME ~(upgraded' /\ leaderLeft') PROVE VoidSuitsSound'
  BY DEF VoidSuitsSoundUnlessLeaderLeft
<1>2. upgraded' = upgraded /\ [Next]_vars
  BY DEF GameStep
<1>3. CASE CardsDealt
  BY <1>1, <1>3, DealIsComplete
<1>4. CASE ~CardsDealt
  <2>1. ~(upgraded /\ leaderLeft)
    BY <1>2, <1>4, KeptBefore
  <2> QED BY <1>1, <1>2, <2>1, VoidSuitsStep DEF VoidSuitsSoundUnlessLeaderLeft
<1> QED BY <1>3, <1>4

\* No step of the engine makes a ledger incomplete or takes a room's game away.
LEMMA CompleteStep ==
  ASSUME IInv, NothingYet, [Next]_vars
  PROVE  (historyComplete = TRUE => historyComplete' = TRUE) /\ NothingYet'
<1>1. CASE \/ \E order \in SeatOrders : StartGame(order)
           \/ NewGame
           \/ ContinueGame
           \/ ResolvePendingTrick /\ phase' = "bidding"
  BY <1>1, DealSteps DEF JustDealt, NothingYet
<1>2. CASE \E d \in Seated : \E card \in hands[d] : PlayCard(d, card)
  BY <1>2 DEF PlayCard, NothingYet
<1>3. CASE \/ \E d \in Seated, bid \in BidInput : PlaceBid(d, bid)
           \/ ResolvePendingTrick /\ phase' # "bidding"
           \/ UNCHANGED vars
  <2>1. UNCHANGED <<plays, historyComplete>>
    BY <1>3, QuietSteps
  <2>2. phase' = "none" => phase = "none"
    BY <1>3 DEF PlaceBid, ResolvePendingTrick, FinishRound, BuildRound, vars
  <2> QED BY <2>1, <2>2 DEF NothingYet
<1>4. CASE \/ \E from \in Leavers, to \in Devices \ departed : ReplacePlayer(from, to)
           \/ \E d \in Leavers : RemovePlayer(d)
  <2>1. historyComplete' = historyComplete /\ Seated # {}
    BY <1>4 DEF ReplacePlayer, RemovePlayer
  <2>2. phase # "none"
    BY <2>1 DEF IInv, TableSeated, Seated, SeatsOf
  <2>3. phase' # "none"
    BY <1>4, <2>2 DEF ReplacePlayer, RemovePlayer, RemoveWhileBidding, RemoveWhilePlaying, RemoveAtGameEnd
  <2> QED BY <2>1, <2>3 DEF NothingYet
<1> QED BY <1>1, <1>2, <1>3, <1>4 DEF Next, Play, SeatChange, Session

\* What the engine does to a game it does to a restored game.
LEMMA EngineKeepsRInv ==
  ASSUME RInv, GameStep
  PROVE  RInv'
<1>0. [Next]_vars /\ upgraded' = upgraded
  BY DEF GameStep
<1>1. IInv' /\ CardsConserved' /\ LedgerInv' /\ HandsInv'
  BY <1>0, NextInv, CardsConservedStep, LedgerStep, HandsStep DEF RInv
<1>2. ScoresheetAddsUp' /\ FullTable' /\ VoidsRecorded'
  BY <1>0, SheetStep, FullTableStep, VoidsRecordedStep DEF RInv
<1>3. CompleteUntilUpgraded' /\ NothingYet'
  BY <1>0, CompleteStep DEF RInv, CompleteUntilUpgraded
<1>4. LedgerCompleteUnlessWinnerLeft' /\ VoidSuitsSoundUnlessLeaderLeft'
  BY LedgerUnlessStep, VoidsUnlessStep
<1>5. HandsAccounted' /\ PileKeepsLead' /\ NoLossYet'
  BY HandsAccountedStep, PileKeepsLeadStep, KeptBefore
<1> QED BY <1>1, <1>2, <1>3, <1>4, <1>5 DEF RInv

\* Restoring a snapshot that has a ledger changes nothing.
LEMMA RestoreChangesNothing ==
  ASSUME RInv, RestoreRoom
  PROVE  UNCHANGED vars
<1>1. plays' = plays
  BY LedgerRestored DEF RestoreRoom, RInv
<1>2. voidSuits' = voidSuits
  BY <1>1, VoidsRestored DEF RestoreRoom, RInv
<1> QED BY <1>1, <1>2 DEF RestoreRoom, vars, ledger

\* And needs no account of what has left.
LEMMA RestoreKeepsRInv ==
  ASSUME RInv, RestoreRoom
  PROVE  RInv'
<1>1. UNCHANGED vars
  BY RestoreChangesNothing
<1>2. IInv' /\ CardsConserved' /\ LedgerInv' /\ HandsInv'
  BY <1>1, NextInv, CardsConservedStep, LedgerStep, HandsStep DEF RInv
<1>3. ScoresheetAddsUp' /\ FullTable' /\ VoidsRecorded'
  BY <1>1, SheetStep, FullTableStep, VoidsRecordedStep DEF RInv
<1>4. /\ UNCHANGED <<phase, plays>> /\ upgraded'
      /\ winnerLeft' = (upgraded /\ winnerLeft) /\ leaderLeft' = (upgraded /\ leaderLeft)
  BY <1>1 DEF RestoreRoom, vars, ledger
<1>5. CompleteUntilUpgraded' /\ NothingYet' /\ HandsAccounted' /\ PileKeepsLead' /\ NoLossYet'
  BY <1>4 DEF RInv, CompleteUntilUpgraded, NothingYet, HandsAccounted, PileKeepsLead, NoLossYet
<1>6. LedgerCompleteUnlessWinnerLeft'
  <2>1. LedgerComplete => LedgerComplete'
    BY <1>1, LedgerCompleteStep DEF RInv
  <2> QED BY <1>4, <2>1 DEF RInv, LedgerCompleteUnlessWinnerLeft
<1>7. VoidSuitsSoundUnlessLeaderLeft'
  <2>1. VoidSuitsSound => VoidSuitsSound'
    BY <1>1, VoidSuitsStep DEF RInv
  <2> QED BY <1>4, <2>1 DEF RInv, VoidSuitsSoundUnlessLeaderLeft
<1> QED BY <1>2, <1>3, <1>5, <1>6, <1>7 DEF RInv

\* The invariant of games that are saved and restored.
LEMMA RestoredInv ==
  ASSUME RInv, [RNext]_rvars
  PROVE  RInv'
<1>1. CASE Next /\ NoteLosses /\ UNCHANGED upgraded
  BY <1>1, EngineKeepsRInv DEF GameStep
<1>2. CASE RestoreRoom
  BY <1>2, RestoreKeepsRInv
<1>3. CASE RestoreLegacyRoom
  BY <1>3, LegacyKeepsTable, LegacyKeepsCards, LegacyKeepsAccounts, LegacyKeepsRest DEF RInv
<1>4. CASE UNCHANGED rvars
  <2>1. GameStep
    BY <1>4 DEF GameStep, rvars
  <2> QED BY <2>1, EngineKeepsRInv
<1> QED BY <1>1, <1>2, <1>3, <1>4 DEF RNext

\* The invariant holds in every state of a server that is restarted.
LEMMA RestoredInvariant == RSpec => []RInv
<1>1. RInit => RInv
  <2> SUFFICES ASSUME RInit PROVE RInv
    OBVIOUS
  <2>1. Init /\ upgraded = FALSE /\ winnerLeft = FALSE /\ leaderLeft = FALSE
    BY DEF RInit
  <2>2. IInv
    BY <2>1, InitInv
  <2>3. /\ Seated = {} /\ Len(plays) = 0 /\ Len(currentTrick) = 0
        /\ historyComplete = TRUE /\ phase = "none"
    BY <2>1 DEF Init, Seated, SeatsOf
  <2>4. CardsConserved /\ VoidsRecorded /\ PileKeepsLead /\ VoidSuitsSoundUnlessLeaderLeft
    BY <2>3 DEF CardsConserved, VoidsRecorded, PileKeepsLead, PileLedRight,
                VoidSuitsSoundUnlessLeaderLeft, VoidSuitsSound
  <2>5. LedgerInv
    BY <2>1, <2>3 DEF Init, LedgerInv, PlayersKnown, OncePerNumber, LastNumberIsPile, PileHasLastNumber
  <2>6. HandsInv /\ LedgerCompleteUnlessWinnerLeft /\ ScoresheetAddsUp /\ FullTable
    BY <2>1, <2>3 DEF Init, HandsInv, HandsFinite, HandsEven, LedgerCompleteUnlessWinnerLeft,
                      LedgerComplete, ScoresheetAddsUp, FullTable
  <2>7. CompleteUntilUpgraded /\ NothingYet /\ HandsAccounted /\ NoLossYet
    BY <2>1, <2>3 DEF Init, CompleteUntilUpgraded, NothingYet, HandsAccounted, NoLossYet
  <2> QED BY <2>2, <2>4, <2>5, <2>6, <2>7 DEF RInv
<1>2. RInv /\ [RNext]_rvars => RInv'
  BY RestoredInv
<1> QED BY <1>1, <1>2, PTL DEF RSpec

\* The pile is an empty sequence where there is none.
LEMMA NoEntries == currentTrick = <<>> => PileEntries = <<>>
BY DEF PileEntries

\* Reading a snapshot back gives the ledger and the voids the game had, for every game
\* and however often it was saved before, also from the snapshots of a server that kept
\* no ledger (normalizePlayHistory and deriveVoidSuits in store.ts).
THEOREM RestoringIsInvisible == RSpec => []RestoreIsIdentity
<1> SUFFICES ASSUME RInv PROVE RestoreIsIdentity
  BY RestoredInvariant, PTL
<1>1. DerivedVoids(plays) = voidSuits
  BY VoidsRestored DEF RInv
<1>2. NormalizedPlays(plays) = plays
  <2>1. CASE phase # "none"
    BY <2>1, LedgerRestored DEF RInv
  <2>2. CASE phase = "none"
    <3>1. plays = <<>> /\ PileEntries = <<>>
      BY <2>2, NoEntries DEF RInv, NothingYet, IInv, TableSeated
    <3> DEFINE none == <<>>
    <3>2. /\ none \in Seq(LedgerEntry) /\ Len(none) = 0 /\ none \o none = none
          /\ \A i, j \in 1..Len(none) : none[i].card = none[j].card => i = j
          /\ \A i \in 1..Len(none) : \E j \in 1..Len(none) : none[j].card = none[i].card
      OBVIOUS
    <3> HIDE DEF none
    <3>3. FoldLeft(AddUnseen, <<>>, none \o none) = none
      BY <3>2, FoldKeepsNew
    <3> QED BY <3>1, <3>3 DEF NormalizedPlays, none
  <2> QED BY <2>1, <2>2
<1> QED BY <1>1, <1>2 DEF RestoreIsIdentity

\* Nothing is missing from a ledger that is marked complete, also where it was rebuilt
\* from the pile of a game that seats had left (normalizeRestoredGameState marks it complete
\* while the seats that are left have won no hand): but for a seat that had won a hand of
\* the round and was removed before the ledger was rebuilt.
THEOREM RestoredLedgerComplete == RSpec => []LedgerCompleteUnlessWinnerLeft
<1>1. RInv => LedgerCompleteUnlessWinnerLeft
  BY DEF RInv
<1> QED BY <1>1, RestoredInvariant, PTL

\* A player recorded as void holds no card of the suit, also where the voids were rebuilt
\* from the pile of a game that seats had left (deriveVoidSuits): but for a pile whose
\* leader was removed before.
THEOREM RestoredVoids == RSpec => []VoidSuitsSoundUnlessLeaderLeft
<1>1. RInv => VoidSuitsSoundUnlessLeaderLeft
  BY DEF RInv
<1> QED BY <1>1, RestoredInvariant, PTL

\* A hand number marks one hand, also in a ledger that was rebuilt from the pile: the pile
\* gets one number, which playCard continues with, and the next hand a higher one.
THEOREM RestoredNumbers == RSpec => []HandNumbersMarkHands
<1>1. RInv => HandNumbersMarkHands
  BY DEF RInv, IInv, NumbersOrdered, LedgerInv, OncePerNumber, PileHasLastNumber, HandNumbersMarkHands
<1> QED BY <1>1, RestoredInvariant, PTL

\* The scoreboard of a restored game adds up.
THEOREM RestoredScoresheet == RSpec => []ScoresheetAddsUp
<1>1. RInv => ScoresheetAddsUp
  BY DEF RInv
<1> QED BY <1>1, RestoredInvariant, PTL

\* A restored ledger does not end a round, so the promise to a full table is kept.
THEOREM RestoredPromise == RSpec => SomeoneMissesBidAtFullTable
<1>1. ASSUME RInv, [RNext]_rvars
      PROVE  [RoundEnds /\ departed = {} =>
                \E d \in DOMAIN LastResults : LastResults[d].bid # LastResults[d].tricksWon]_vars
  <2>1. CASE [Next]_vars
    BY <1>1, <2>1, SomeoneMisses DEF RInv
  <2>2. CASE RestoreRoom \/ RestoreLegacyRoom
    <3>1. roundHistory' = roundHistory /\ Len(roundHistory) \in Nat
      BY <1>1, <2>2 DEF RestoreRoom, RestoreLegacyRoom, sheet, RInv, IInv, TypeOK
    <3> QED BY <3>1 DEF RoundEnds
  <2> QED BY <1>1, <2>1, <2>2 DEF RNext, rvars
<1> QED BY <1>1, RestoredInvariant, PTL DEF RSpec, SomeoneMissesBidAtFullTable

\* A server that is restarted, at any moment and any number of times, keeps what Table
\* promises: to the players a restart is a moment in which nothing happens.
THEOREM RestoredKeepsTable == RSpec => ImplementsTable
<1>1. RSpec => []Sound
  <2>1. RInv => Sound
    BY HandsAreCounted DEF RInv, Sound
  <2> QED BY <2>1, RestoredInvariant, PTL
<1>2. RInit => OnTable!TInit
  BY InitIsInit DEF RInit
<1>3. ASSUME Sound, Sound', [RNext]_rvars
      PROVE  [OnTable!TNext]_(OnTable!tvars)
  <2>1. CASE [Next]_vars
    BY <1>3, <2>1, StepIsStep
  <2>2. CASE RestoreRoom \/ RestoreLegacyRoom
    <3>1. UNCHANGED <<phase, round, seatOrder, bidOrder, hands, dealerSeat, bidTurnIndex, turnSeat,
                      currentTrick>>
      BY <2>2 DEF RestoreRoom, RestoreLegacyRoom, seating, bidding
    <3>2. HandsToResolve' = HandsToResolve
      BY <3>1 DEF HandsToResolve, Seated, IsTrickComplete
    <3>3. UNCHANGED OnTable!tvars
      BY <3>1, <3>2 DEF OnTable!tvars
    <3> QED BY <3>3
  <2> QED BY <1>3, <2>1, <2>2 DEF RNext, rvars
<1> QED BY <1>1, <1>2, <1>3, PTL DEF RSpec, ImplementsTable, OnTable!TSpec

================================================================================
