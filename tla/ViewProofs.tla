------------------------------ MODULE ViewProofs -------------------------------
(***************************************************************************)
(* What browsers and bots make of a game, for every value of the           *)
(* constants: their copies of the rules agree with the engine's, and the   *)
(* deals the bots think possible have the real one among them, in every    *)
(* state of a room whose server may be restarted.                          *)
(***************************************************************************)
EXTENDS RestoreProofs, RestoredViews, BotBids

-------------------------------------------------------------------------------
(* The auction, as who has no bid order sees it.                           *)

\* A bid that is missing counts 0.
Counted(some) == [d \in DOMAIN some |-> IF some[d] = Null THEN 0 ELSE some[d]]

\* The total of some bids of a table is their sum along the seats.
LEMMA TotalAlongSeats ==
  ASSUME NEW order, IsSeating(order), NEW S, S \subseteq SeatsOf(order),
         NEW some \in [S -> Int \cup {Null}]
  PROVE  Total(some) = SumOf(AtSeats(order, Counted(some), S)) /\ Total(some) \in Int
<1> DEFINE all == SeatsOf(order)
           f == [d \in all |-> IF d \in S THEN Counted(some)[d] ELSE 0]
           u == [T \in SUBSET all |-> SumOf(AtSeats(order, f, T))]
           v == [T \in SUBSET S |-> u[T]]
           Eq(t) == t = [T \in SUBSET S |->
                           IF T = {} THEN 0
                           ELSE (IF some[CHOOSE x \in T : TRUE] = Null THEN 0
                                 ELSE some[CHOOSE x \in T : TRUE])
                                + t[T \ {CHOOSE x \in T : TRUE}]]
<1>1. DOMAIN some = S
  OBVIOUS
<1>2. Total(some) = (CHOOSE t : Eq(t))[S]
  BY <1>1 DEF Total, MapThenSumSet, MapThenFoldSet
<1>3. \A d \in S : Counted(some)[d] \in Int /\ Counted(some)[d] = IF some[d] = Null THEN 0 ELSE some[d]
  BY DEF Counted
<1>4. f \in [all -> Int] /\ \A d \in S : f[d] = IF some[d] = Null THEN 0 ELSE some[d]
  BY <1>3
<1>5. AtSeats(order, f, S) = AtSeats(order, Counted(some), S)
  <2>1. Len(order) \in Nat /\ \A i \in 1..Len(order) : order[i] \in all
    BY DEF IsSeating, SeatsOf
  <2> QED BY <2>1 DEF AtSeats
<1> HIDE DEF f
<1>6. IsFiniteSet(all) /\ TotalsOf(u, f, all)
  BY <1>4, TotalsAlongSeats
<1>7. u[S] = SumOf(AtSeats(order, f, S)) /\ v[S] = u[S]
  OBVIOUS
<1>8. u[S] \in Int
  <2> DEFINE s == AtSeats(order, f, S)
  <2>1. Len(order) \in Nat /\ \A i \in 1..Len(order) : f[order[i]] \in Int
    BY <1>4 DEF IsSeating, SeatsOf
  <2>2. Len(s) = Len(order) /\ \A i \in 1..Len(order) : s[i] \in Int
    BY <2>1 DEF AtSeats
  <2> HIDE DEF s
  <2>3. SumOf(s) \in Int
    BY <2>1, <2>2, SumIsInt
  <2> QED BY <1>7, <2>3 DEF s
<1> HIDE DEF u
<1>9. \A T \in SUBSET S : T # {} => (CHOOSE x \in T : TRUE) \in S
  OBVIOUS
<1>10. \A t : Eq(t) <=> TotalsOf(t, f, S)
  BY <1>4, <1>9 DEF TotalsOf
<1>11. TotalsOf(v, f, S)
  <2>1. \A T \in SUBSET S :
          v[T] = IF T = {} THEN 0
                 ELSE f[CHOOSE x \in T : TRUE] + v[T \ {CHOOSE x \in T : TRUE}]
    <3> TAKE T \in SUBSET S
    <3>1. T \in SUBSET all /\ T \ {CHOOSE x \in T : TRUE} \in SUBSET S
      OBVIOUS
    <3>2. u[T] = IF T = {} THEN 0
                 ELSE f[CHOOSE x \in T : TRUE] + u[T \ {CHOOSE x \in T : TRUE}]
      BY <1>6, <3>1 DEF TotalsOf
    <3> QED BY <3>1, <3>2
  <2>2. v = [T \in SUBSET S |-> v[T]]
    OBVIOUS
  <2> HIDE DEF v
  <2> QED BY <2>1, <2>2 DEF TotalsOf
<1>12. IsFiniteSet(S)
  BY <1>6, FS_Subset
<1> HIDE DEF Eq, v
<1>13. Eq(v) /\ \A t : Eq(t) => t = v
  BY <1>10, <1>11, <1>12, TotalsUnique
<1>14. Total(some) = v[S]
  BY <1>2, <1>13
<1> QED BY <1>5, <1>7, <1>8, <1>14

\* One more bid adds itself.
LEMMA TotalWithBid ==
  ASSUME NEW order, IsSeating(order), NEW S, S \subseteq SeatsOf(order),
         NEW some \in [S -> Int], NEW d \in SeatsOf(order) \ S, NEW bid \in Int
  PROVE  Total(WithBid(some, d, bid)) = Total(some) + bid /\ Total(some) \in Int
<1> DEFINE more == WithBid(some, d, bid)
           s == AtSeats(order, Counted(some), S)
           r == AtSeats(order, Counted(more), S \cup {d})
           n == Len(order)
<1>1. n \in Nat /\ (\A i \in 1..n : order[i] \in SeatsOf(order))
      /\ \A i, j \in 1..n : order[i] = order[j] => i = j
  BY DEF IsSeating, SeatsOf
<1>2. Null \notin Int
  BY BidsAssumption
<1>3. more \in [S \cup {d} -> Int] /\ more[d] = bid /\ \A e \in S : more[e] = some[e]
  BY DEF WithBid
<1> HIDE DEF more
<1>4. \A e \in S : Counted(some)[e] = some[e] /\ Counted(more)[e] = some[e]
  BY <1>2, <1>3 DEF Counted
<1>5. Counted(more)[d] = bid
  BY <1>2, <1>3 DEF Counted
<1>6. PICK p \in 1..n : order[p] = d
  BY DEF SeatsOf
<1>7. Len(s) = n /\ Len(r) = n
  BY <1>1 DEF AtSeats
<1>8. \A i \in 1..n : s[i] \in Int /\ r[i] = IF i = p THEN s[i] + bid ELSE s[i]
  <2> TAKE i \in 1..n
  <2>1. order[i] = d <=> i = p
    BY <1>1, <1>6
  <2>2. s[i] = IF order[i] \in S THEN Counted(some)[order[i]] ELSE 0
    BY <1>1 DEF AtSeats
  <2>3. r[i] = IF order[i] \in S \cup {d} THEN Counted(more)[order[i]] ELSE 0
    BY <1>1 DEF AtSeats
  <2> HIDE DEF s, r
  <2> QED BY <1>4, <1>5, <2>1, <2>2, <2>3
<1> HIDE DEF s, r, n
<1>9. SumOf(r) = SumOf(s) + bid
  <2>1. Bumped(s, r, n, p, bid)
    BY <1>1, <1>6, <1>7, <1>8 DEF Bumped
  <2> QED BY <2>1, SumBumped
<1>10. some \in [S -> Int \cup {Null}] /\ more \in [S \cup {d} -> Int \cup {Null}]
       /\ S \cup {d} \subseteq SeatsOf(order)
  BY <1>3
<1>11. Total(some) = SumOf(s) /\ Total(some) \in Int
  BY <1>10, TotalAlongSeats DEF s
<1>12. Total(more) = SumOf(r)
  BY <1>10, TotalAlongSeats DEF r
<1> QED BY <1>9, <1>11, <1>12 DEF more

\* The seat on turn in an auction has not bid, and it is the dealer's if it is the last.
LEMMA BidderIs ==
  ASSUME IInv, phase = "bidding"
  PROVE  /\ bidTurnIndex < Len(bidOrder) /\ Bidder \in Seated /\ bids[Bidder] = Null
         /\ seatOrder[dealerSeat + 1] = bidOrder[Len(bidOrder)]
         /\ Bidder = seatOrder[dealerSeat + 1] <=> bidTurnIndex = Len(bidOrder) - 1
<1> DEFINE n == Len(seatOrder)
<1>1. /\ IsSeating(seatOrder) /\ seatOrder \in Seq(Devices) /\ n \in Nat /\ n >= 2
      /\ dealerSeat \in 0..(n - 1) /\ dealerSeat + 1 \in 0..n
      /\ bidOrder = OrderFrom(seatOrder, dealerSeat + 1)
      /\ IsSeating(bidOrder) /\ Len(bidOrder) = n /\ SeatsOf(bidOrder) = Seated
  BY BidOrderSeating
<1>2. bidTurnIndex < n /\ bidTurnIndex \in Nat
  BY <1>1 DEF IInv, TableSeated, TypeOK
<1>3. bidTurnIndex + 1 \in 1..n /\ n \in 1..n
  BY <1>1, <1>2
<1>4. Bidder \in Seated
  BY <1>1, <1>3 DEF Bidder, SeatsOf
<1>5. bids[Bidder] = Null
  <2>1. ~(bidTurnIndex + 1 <= bidTurnIndex)
    BY <1>2
  <2> QED BY <1>1, <1>3, <2>1 DEF IInv, DealerBidsLast, Bidder
<1>6. bidOrder[n] = seatOrder[dealerSeat + 1]
  <2>1. OrderFrom(seatOrder, dealerSeat + 1)[n] = seatOrder[(dealerSeat + 1) + n - n]
    <3>1. ~((dealerSeat + 1) + n <= n)
      BY <1>1
    <3> QED BY <1>1, <1>3, <3>1, RotationAt
  <2>2. (dealerSeat + 1) + n - n = dealerSeat + 1
    BY <1>1
  <2> QED BY <1>1, <2>1, <2>2
<1>7. \A i, j \in 1..n : bidOrder[i] = bidOrder[j] => i = j
  BY <1>1 DEF IsSeating
<1>8. Bidder = bidOrder[n] <=> bidTurnIndex + 1 = n
  BY <1>3, <1>7 DEF Bidder
<1> QED BY <1>1, <1>2, <1>4, <1>5, <1>6, <1>8

\* The bids of the others are all the bids there are.
LEMMA BidsOfOthers ==
  ASSUME IInv, phase = "bidding"
  PROVE  Total(bids) = OthersSum(Bidder) /\ Total(bids) \in Int
<1>1. IsSeating(seatOrder) /\ bids \in [SeatsOf(seatOrder) -> Int \cup {Null}]
  BY BidOrderSeating DEF IInv, TypeOK, Seated
<1> DEFINE S == SeatsOf(seatOrder)
<1>2. Total(bids) = SumOf(AtSeats(seatOrder, Counted(bids), S)) /\ Total(bids) \in Int
  BY <1>1, TotalAlongSeats
<1>3. bids[Bidder] = Null
  BY BidderIs
<1>4. \A i \in 1..Len(seatOrder) :
        Counted(bids)[seatOrder[i]] =
          IF seatOrder[i] = Bidder \/ bids[seatOrder[i]] = Null THEN 0 ELSE bids[seatOrder[i]]
  <2>1. \A i \in 1..Len(seatOrder) : seatOrder[i] \in DOMAIN bids
    BY <1>1 DEF SeatsOf
  <2> QED BY <1>3, <2>1 DEF Counted
<1>5. \A i \in 1..Len(seatOrder) : seatOrder[i] \in S
  BY DEF SeatsOf
<1>6. OthersSum(Bidder) = SumOf(AtSeats(seatOrder, Counted(bids), S))
  BY <1>4, <1>5 DEF OthersSum, AtSeats
<1> QED BY <1>2, <1>6

-------------------------------------------------------------------------------
(* Browsers.                                                               *)

\* A browser finds out for whom the restriction is, and which bid it forbids.
LEMMA OfferedAreAccepted ==
  ASSUME IInv, NEW d \in Seated
  PROVE  OfferedBids(PublicGameState, d) =
           {bid \in 0..MaxBid(round) : /\ phase = "bidding"
                                       /\ bidOrder[bidTurnIndex + 1] = d
                                       /\ ~DealerRestricted(d, bid)}
<1> DEFINE game == PublicGameState
<1>1. /\ game.cardsThisRound = HandSize(round) /\ game.dealerSeat = dealerSeat
      /\ game.seatOrder = seatOrder /\ game.phase = phase /\ game.bids = bids
      /\ game.bidTurnDeviceId = IF phase = "bidding" /\ bidTurnIndex < Len(bidOrder)
                                THEN bidOrder[bidTurnIndex + 1] ELSE Null
  BY DEF PublicGameState
<1>2. SumOfBids(game) = Total(bids)
  BY <1>1 DEF SumOfBids, Total, MapThenSumSet, MapThenFoldSet
<1> HIDE DEF game
<1>3. CASE ~(phase = "bidding" /\ Bidder = d)
  <2>1. ~MyBidTurn(game, d)
    BY <1>1, <1>3, BidderIs DEF MyBidTurn, Bidder
  <2> QED BY <1>3, <2>1 DEF OfferedBids, Bidder, game
<1>4. CASE phase = "bidding" /\ Bidder = d
  <2>1. MyBidTurn(game, d)
    BY <1>1, <1>4, BidderIs DEF MyBidTurn, Bidder
  <2>2. OfferedBids(game, d) = (0..MaxBid(round)) \ ForbiddenBid(game, d)
    BY <1>1, <2>1 DEF OfferedBids, MaxBid
  <2>3. ForbiddenBid(game, d) =
          IF bidTurnIndex = Len(bidOrder) - 1 THEN {HandSize(round) - OthersSum(d)} ELSE {}
    BY <1>1, <1>2, <1>4, <2>1, BidderIs, BidsOfOthers DEF ForbiddenBid
  <2> QED BY <1>4, <2>2, <2>3 DEF DealerRestricted, Bidder, game
<1> QED BY <1>3, <1>4

\* The cards a browser lets its player click are the ones playCard takes.
LEMMA ClickableAreAccepted ==
  ASSUME IInv, NEW d \in Seated
  PROVE  ClickableCards(PublicGameState, PrivateHandFor(d), d) =
           {card \in LegalCards(d) : phase = "trick" /\ turnSeat >= 0 /\ seatOrder[turnSeat + 1] = d}
<1> DEFINE game == PublicGameState
           private == PrivateHandFor(d)
           Turn == phase = "trick" /\ turnSeat >= 0 /\ seatOrder[turnSeat + 1] = d
<1>1. /\ game.phase = phase
      /\ game.turnDeviceId = IF phase = "trick" /\ turnSeat \in 0..(Len(seatOrder) - 1)
                             THEN seatOrder[turnSeat + 1] ELSE Null
  BY DEF PublicGameState
<1>2. private.hand = hands[d] /\ private.legalCards = IF Turn THEN LegalCards(d) ELSE {}
  BY DEF PrivateHandFor
<1>3. phase = "trick" /\ turnSeat >= 0 => turnSeat \in 0..(Len(seatOrder) - 1)
  <2> SUFFICES ASSUME phase = "trick", turnSeat >= 0 PROVE ~IsTrickComplete
    BY ActorNotInPile
  <2>1. Len(seatOrder) \in Nat
    BY DEF IInv, TypeOK
  <2> QED BY <2>1 DEF IInv, PileFollowsSeats, IsTrickComplete
<1>4. Turn => MyPlayTurn(game, d)
  BY <1>1, <1>3 DEF MyPlayTurn
<1>5. LegalCards(d) \subseteq hands[d]
  BY DEF LegalCards
<1> HIDE DEF game, private
<1> QED BY <1>2, <1>4, <1>5 DEF ClickableCards, game, private

\* There is one strongest card in a full pile, so the first is the engine's.
LEMMA SweptToWinner ==
  ASSUME IInv, CardsConserved, LedgerInv, IsTrickComplete
  PROVE  ResolveTrickWinner(currentTrick, Trump(round)) = Winner
<1> DEFINE Of(suit) == {i \in 1..Len(currentTrick) : currentTrick[i].card.suit = suit}
           pool == IF Of(Trump(round)) # {} THEN Of(Trump(round)) ELSE Of(LeadSuit)
           strongest == {i \in pool : \A j \in pool : currentTrick[j].card.rank <= currentTrick[i].card.rank}
           best == CHOOSE i \in pool :
                     \A j \in pool : currentTrick[j].card.rank <= currentTrick[i].card.rank
<1>1. currentTrick \in Seq(PlayedCard) /\ Len(currentTrick) \in Nat /\ Len(currentTrick) >= 2
  BY BidOrderSeating DEF IInv, TypeOK, IsTrickComplete
<1>2. \A i \in 1..Len(currentTrick) : currentTrick[i].card \in Card
  <2>1. \A i \in 1..Len(currentTrick) : currentTrick[i] \in PlayedCard
    BY <1>1
  <2> QED BY <2>1 DEF PlayedCard
<1>3. pool # {} /\ pool \subseteq 1..Len(currentTrick)
  <2>1. 1 \in Of(LeadSuit)
    BY <1>1 DEF LeadSuit
  <2> QED BY <2>1
<1>4. \A i, j \in pool : currentTrick[i].card.suit = currentTrick[j].card.suit
  OBVIOUS
<1>5. ResolveTrickWinner(currentTrick, Trump(round)) = currentTrick[Min(strongest)].deviceId
  BY DEF ResolveTrickWinner, LeadSuit
<1>6. Winner = currentTrick[best].deviceId
  BY DEF Winner
<1> HIDE DEF pool, Of
<1>7. strongest # {}
  <2> DEFINE rank == [i \in pool |-> currentTrick[i].card.rank]
  <2>1. rank \in [pool -> Ranks]
    BY <1>2, <1>3 DEF Card
  <2>2. \A i \in pool : rank[i] = currentTrick[i].card.rank
    OBVIOUS
  <2> HIDE DEF rank
  <2>3. PICK i \in pool : \A j \in pool : rank[j] <= rank[i]
    BY <1>3, <2>1, HighestExists
  <2> QED BY <2>2, <2>3
<1>8. best \in strongest
  BY <1>7
<1>9. \A i, j \in strongest : i = j
  <2> TAKE i, j \in strongest
  <2>1. currentTrick[i].card.rank \in Int /\ currentTrick[j].card.rank \in Int
    <3>1. currentTrick[i].card \in Card /\ currentTrick[j].card \in Card
      BY <1>2, <1>3
    <3>2. currentTrick[i].card.rank \in Ranks /\ currentTrick[j].card.rank \in Ranks
      BY <3>1 DEF Card
    <3>3. \A x \in Ranks : x \in Int
      BY RanksAssumption
    <3> QED BY <3>2, <3>3
  <2>2. currentTrick[i].card.rank = currentTrick[j].card.rank
    BY <2>1
  <2>3. currentTrick[i].card.suit = currentTrick[j].card.suit
    BY <1>4
  <2>4. currentTrick[i].card = currentTrick[j].card
    BY <1>2, <1>3, <2>2, <2>3 DEF Card
  <2> QED BY <1>3, <2>4, PileCardsDiffer
<1>10. Min(strongest) \in strongest
  <2>1. strongest \subseteq Nat
    <3>1. strongest \subseteq 1..Len(currentTrick)
      BY <1>3
    <3>2. 1..Len(currentTrick) \subseteq Nat
      BY <1>1
    <3> HIDE DEF strongest
    <3> QED BY <3>1, <3>2
  <2> QED BY <1>7, <2>1, MinIsLeast
<1> QED BY <1>5, <1>6, <1>8, <1>9, <1>10

\* What the browsers of a table offer together is what the engine accepts, to one player
\* while it waits for one and to nobody otherwise, and a hand is swept to the player the
\* engine gives it to, whichever seats changed and whenever the server was restarted
\* (toPublicGameState and privateHandFor in publicState.ts, the buttons of GameTable.tsx).
THEOREM BrowsersAgree == RSpec => []ClientAgreesWithEngine
<1> SUFFICES ASSUME RInv PROVE ClientAgreesWithEngine
  BY RestoredInvariant, PTL
<1> DEFINE Bids(d) == OfferedBids(PublicGameState, d)
           Cards(d) == ClickableCards(PublicGameState, PrivateHandFor(d), d)
<1>1. IInv /\ HandsInv /\ CardsConserved /\ LedgerInv
  BY DEF RInv
<1>2. \A d \in Seated :
        /\ Bids(d) = {bid \in 0..MaxBid(round) : /\ phase = "bidding"
                                                 /\ bidOrder[bidTurnIndex + 1] = d
                                                 /\ ~DealerRestricted(d, bid)}
        /\ Cards(d) = {card \in LegalCards(d) : /\ phase = "trick" /\ turnSeat >= 0
                                                /\ seatOrder[turnSeat + 1] = d}
  BY <1>1, OfferedAreAccepted, ClickableAreAccepted
<1>3. PublicGameState.currentTrick = currentTrick /\ PublicGameState.trumpSuit = Trump(round)
  BY DEF PublicGameState
<1>4. IsTrickComplete => ResolveTrickWinner(currentTrick, Trump(round)) = Winner
  BY <1>1, SweptToWinner
<1> HIDE DEF Bids, Cards
<1>5. ASSUME phase = "bidding"
      PROVE  \E d \in Seated : Bids(d) # {}
  <2>1. Bidder \in Seated /\ bidOrder[bidTurnIndex + 1] = Bidder
    BY <1>1, <1>5, BidderIs DEF Bidder
  <2>2. PICK bid \in 0..MaxBid(round) : ~DealerRestricted(Bidder, bid)
    BY <1>1, <1>5, ActorMoves DEF ActorCanMove, Bidder
  <2> QED BY <1>2, <1>5, <2>1, <2>2
<1>6. ASSUME phase = "trick", ~IsTrickComplete
      PROVE  \E d \in Seated : Cards(d) # {}
  <2>1. turnSeat \in 0..(Len(seatOrder) - 1)
    BY <1>1, <1>6, ActorNotInPile
  <2> DEFINE d == seatOrder[turnSeat + 1]
  <2>2. d \in Seated
    BY <1>1, <1>6, <2>1, BidOrderSeating DEF Seated, SeatsOf
  <2>3. LegalCards(d) # {}
    BY <1>1, <1>6, ActorMoves DEF ActorCanMove
  <2>4. turnSeat >= 0
    BY <2>1
  <2> QED BY <1>2, <1>6, <2>2, <2>3, <2>4
<1>7. ASSUME ~(phase \in {"bidding", "trick"} /\ ~IsTrickComplete)
      PROVE  \A d \in Seated : Bids(d) = {} /\ Cards(d) = {}
  <2>1. phase # "bidding"
    BY <1>7 DEF IsTrickComplete
  <2>2. phase = "trick" => turnSeat < 0
    <3>1. Len(seatOrder) \in Nat
      BY <1>1 DEF IInv, TypeOK
    <3> QED BY <1>1, <1>7, <3>1 DEF IInv, PileFollowsSeats, IsTrickComplete
  <2>3. turnSeat \in Int
    BY <1>1 DEF IInv, TypeOK
  <2> QED BY <1>2, <2>1, <2>2, <2>3
<1> QED BY <1>2, <1>3, <1>4, <1>5, <1>6, <1>7 DEF ClientAgreesWithEngine, Bids, Cards

-------------------------------------------------------------------------------
(* Folds.                                                                  *)

\* A set of counts that has 0 and every successor has them all.
LEMMA CountUp ==
  ASSUME NEW n \in Nat, NEW G, 0 \in G, \A i \in 1..n : i - 1 \in G => i \in G
  PROVE  0..n \subseteq G
<1> DEFINE Bad == (0..n) \ G
<1> SUFFICES ASSUME Bad # {} PROVE FALSE
  OBVIOUS
<1>1. Bad \subseteq 0..n /\ 0 \notin Bad
  OBVIOUS
<1> HIDE DEF Bad
<1>2. PICK m \in 1..n : m \in Bad /\ m - 1 \in 0..n /\ m - 1 \notin Bad
  BY <1>1, FirstOf
<1> QED BY <1>2 DEF Bad

\* f folds `step` over the positions 1 to n, beginning with base.
FoldsTo(f, n, base, step) ==
  /\ f[{}] = base
  /\ \A T \in SUBSET (1..n) : T # {} => f[T] = step[<<f[T \ {Max(T)}], Max(T)>>]

\* There is such a table of any step that has values where it has arguments.
LEMMA FoldExists ==
  ASSUME NEW n \in Nat, NEW P, NEW base \in P, NEW step \in [P \X (1..n) -> P]
  PROVE  \E f \in [SUBSET (1..n) -> P] : FoldsTo(f, n, base, step)
<1> DEFINE G == {m \in 0..n : \E f \in [SUBSET (1..m) -> P] : FoldsTo(f, m, base, step)}
<1>1. 0 \in G
  <2> DEFINE f == [T \in SUBSET (1..0) |-> base]
  <2>1. SUBSET (1..0) = {{}} /\ 0 \in 0..n
    OBVIOUS
  <2>2. f \in [SUBSET (1..0) -> P] /\ FoldsTo(f, 0, base, step)
    BY <2>1 DEF FoldsTo
  <2> HIDE DEF f
  <2> QED BY <2>1, <2>2
<1>2. ASSUME NEW m \in 1..n, m - 1 \in G
      PROVE  m \in G
  <2>1. PICK f \in [SUBSET (1..(m - 1)) -> P] : FoldsTo(f, m - 1, base, step)
    BY <1>2
  <2>2. m \in Nat /\ m - 1 \in Nat /\ m \in 0..n
    BY <1>2
  <2>3. \A T \in SUBSET (1..m) : T \ {m} \in SUBSET (1..(m - 1)) /\ (m \notin T => T \in SUBSET (1..(m - 1)))
    BY <2>2
  <2> DEFINE g == [T \in SUBSET (1..m) |-> IF m \in T THEN step[<<f[T \ {m}], m>>] ELSE f[T]]
  <2>4. \A T \in SUBSET (1..m) : g[T] \in P
    <3> TAKE T \in SUBSET (1..m)
    <3>1. f[T \ {m}] \in P /\ (m \notin T => f[T] \in P)
      BY <2>3
    <3> QED BY <3>1
  <2>5. g[{}] = base
    <3>1. {} \in SUBSET (1..m) /\ m \notin {}
      OBVIOUS
    <3> QED BY <2>1, <3>1 DEF FoldsTo
  <2>6. ASSUME NEW T \in SUBSET (1..m), T # {}
        PROVE  g[T] = step[<<g[T \ {Max(T)}], Max(T)>>]
    <3>1. CASE m \in T
      <4>1. Max(T) = m
        <5>1. T \subseteq Int /\ \A x \in T : x <= m
          BY <2>2
        <5> QED BY <3>1, <5>1, MaxIs
      <4>2. g[T \ {m}] = f[T \ {m}] /\ g[T] = step[<<f[T \ {m}], m>>]
        BY <3>1
      <4> HIDE DEF g
      <4> QED BY <4>1, <4>2
    <3>2. CASE m \notin T
      <4>1. Max(T) \in T
        BY <2>2, <2>6, LastPosition
      <4>2. g[T \ {Max(T)}] = f[T \ {Max(T)}] /\ g[T] = f[T]
        BY <3>2
      <4>3. T \in SUBSET (1..(m - 1))
        BY <2>3, <3>2
      <4>4. f[T] = step[<<f[T \ {Max(T)}], Max(T)>>]
        BY <2>1, <2>6, <4>3 DEF FoldsTo
      <4> HIDE DEF g
      <4> QED BY <4>2, <4>4
    <3> QED BY <3>1, <3>2
  <2>7. g \in [SUBSET (1..m) -> P]
    <3>1. g = [T \in SUBSET (1..m) |-> g[T]]
      OBVIOUS
    <3> HIDE DEF g
    <3> QED BY <2>4, <3>1
  <2> HIDE DEF g
  <2>8. FoldsTo(g, m, base, step)
    BY <2>5, <2>6 DEF FoldsTo
  <2> QED BY <2>2, <2>7, <2>8
<1>3. 0..n \subseteq G
  <2> HIDE DEF G
  <2> QED BY <1>1, <1>2, CountUp
<1>4. n \in G
  <2>1. n \in 0..n
    OBVIOUS
  <2> HIDE DEF G
  <2> QED BY <1>3, <2>1
<1> QED BY <1>4

\* The first positions.
LEMMA FirstPositions ==
  ASSUME NEW n \in Nat, NEW m \in 1..n
  PROVE  /\ 1..m \in SUBSET (1..n) /\ 1..m # {}
         /\ Max(1..m) = m /\ (1..m) \ {m} = 1..(m - 1)
<1> DEFINE first == 1..m
<1>1. first \subseteq Int /\ m \in first /\ \A x \in first : x <= m
  OBVIOUS
<1>2. first \in SUBSET (1..n) /\ first # {} /\ first \ {m} = 1..(m - 1)
  OBVIOUS
<1> HIDE DEF first
<1>3. Max(first) = m
  BY <1>1, MaxIs
<1> QED BY <1>2, <1>3 DEF first

-------------------------------------------------------------------------------
(* The auction a bot imagines.                                             *)

\* What a bot sees.
LEMMA ViewIs ==
  ASSUME NEW d
  PROVE  /\ View(d).botId = d /\ View(d).hand = hands[d] /\ View(d).cardsThisRound = HandSize(round)
         /\ View(d).trump = Trump(round) /\ View(d).dealer = seatOrder[dealerSeat + 1]
         /\ View(d).seatOrder = seatOrder /\ View(d).turnSeat = turnSeat /\ View(d).bids = bids
         /\ View(d).tricksWon = tricksWon /\ View(d).trick = currentTrick /\ View(d).plays = plays
         /\ View(d).voidSuits = voidSuits /\ View(d).scores = scores
BY DEF View

\* What projectRemainingBids adds for d.
Projected(view, own, desired, prior, d) ==
  WithBid(prior, d, IF d # view.botId /\ view.bids[d] # Null THEN view.bids[d]
                    ELSE IF d = view.dealer
                    THEN NearestLegalBid(view, IF d = view.botId THEN own ELSE desired[d], prior)
                    ELSE IF d = view.botId THEN own ELSE desired[d])

\* The bids are projected one after the other.
LEMMA ProjectedAlong ==
  ASSUME NEW view, NEW own, NEW desired, NEW order, order = BiddingOrder(view),
         NEW n \in Nat, DOMAIN order = 1..n,
         NEW P, <<>> \in P, \A x \in P, i \in 1..n : Projected(view, own, desired, x, order[i]) \in P,
         NEW kept, kept[0] = <<>>,
         \A i \in 1..n : kept[i] = Projected(view, own, desired, kept[i - 1], order[i])
  PROVE  ProjectRemainingBids(view, own, desired) = kept[n]
<1> DEFINE Eq(f) ==
      f = [T \in SUBSET (1..n) |->
             IF T = {} THEN <<>>
             ELSE Projected(view, own, desired, f[T \ {Max(T)}], order[Max(T)])]
           step == [x \in P \X (1..n) |-> Projected(view, own, desired, x[1], order[x[2]])]
<1>1. ProjectRemainingBids(view, own, desired) = (CHOOSE f : Eq(f))[1..n]
  BY DEF ProjectRemainingBids, FoldLeft, MapThenFoldSet, Projected
<1>2. step \in [P \X (1..n) -> P] /\ \A x \in P, i \in 1..n :
        step[<<x, i>>] = Projected(view, own, desired, x, order[i])
  OBVIOUS
<1> HIDE DEF step
<1>3. PICK f \in [SUBSET (1..n) -> P] : FoldsTo(f, n, <<>>, step)
  BY <1>2, FoldExists
<1>4. Eq(f)
  <2>1. ASSUME NEW T \in SUBSET (1..n), T # {}
        PROVE  f[T] = Projected(view, own, desired, f[T \ {Max(T)}], order[Max(T)])
    <3>1. Max(T) \in 1..n
      BY <2>1, LastPosition
    <3>2. T \ {Max(T)} \in SUBSET (1..n)
      OBVIOUS
    <3>3. f[T \ {Max(T)}] \in P
      BY <1>3, <3>2
    <3> QED BY <1>2, <1>3, <2>1, <3>1, <3>3 DEF FoldsTo
  <2>2. f[{}] = <<>>
    BY <1>3 DEF FoldsTo
  <2> QED BY <1>3, <2>1, <2>2
<1> DEFINE g == CHOOSE h : Eq(h)
<1>5. Eq(g)
  BY <1>4
<1>6. g[{}] = <<>> /\ \A T \in SUBSET (1..n) : T # {} =>
        g[T] = Projected(view, own, desired, g[T \ {Max(T)}], order[Max(T)])
  <2>1. {} \in SUBSET (1..n)
    OBVIOUS
  <2> HIDE DEF g
  <2> QED BY <1>5, <2>1
<1> HIDE DEF g, Eq
<1> DEFINE G == {m \in 0..n : g[1..m] = kept[m]}
<1>7. 0 \in G
  <2>1. 1..0 = {} /\ 0 \in 0..n
    OBVIOUS
  <2> QED BY <1>6, <2>1
<1>8. ASSUME NEW m \in 1..n, m - 1 \in G
      PROVE  m \in G
  <2>1. g[1..(m - 1)] = kept[m - 1] /\ m \in 0..n
    BY <1>8
  <2>2. g[1..m] = Projected(view, own, desired, g[1..(m - 1)], order[m])
    <3> DEFINE first == 1..m
    <3>1. first \in SUBSET (1..n) /\ first # {} /\ Max(first) = m /\ first \ {m} = 1..(m - 1)
      BY FirstPositions
    <3> HIDE DEF first
    <3>2. g[first] = Projected(view, own, desired, g[first \ {Max(first)}], order[Max(first)])
      BY <1>6, <3>1
    <3> QED BY <3>1, <3>2 DEF first
  <2> QED BY <2>1, <2>2
<1>9. n \in G
  <2>1. n \in 0..n
    OBVIOUS
  <2> HIDE DEF G
  <2>2. 0..n \subseteq G
    BY <1>7, <1>8, CountUp
  <2> QED BY <2>1, <2>2
<1> QED BY <1>1, <1>9 DEF g

\* The bid nearest to what the dealer would like is one it may make, and it is what it
\* would like when it may make that.
LEMMA NearestIsLegal ==
  ASSUME NEW view, NEW k \in Nat, view.cardsThisRound = k, NEW wanted \in Int, NEW prior,
         Total(prior) \in Int
  PROVE  /\ NearestLegalBid(view, wanted, prior) \in (0..(k + 1)) \ {k - Total(prior)}
         /\ wanted \in (0..(k + 1)) \ {k - Total(prior)} => NearestLegalBid(view, wanted, prior) = wanted
<1> DEFINE allowed == (0..(k + 1)) \ {k - Total(prior)}
           Away(bid) == IF bid < wanted THEN wanted - bid ELSE bid - wanted
           nearest == {b \in allowed : \A c \in allowed : Away(b) <= Away(c)}
           gaps == {Away(b) : b \in allowed}
<1>1. NearestLegalBid(view, wanted, prior) = Min(nearest)
  BY DEF NearestLegalBid, BidRange
<1>2. allowed \subseteq Nat /\ allowed # {}
  <2>1. 0 \in 0..(k + 1) /\ 1 \in 0..(k + 1)
    OBVIOUS
  <2>2. 0 # k - Total(prior) \/ 1 # k - Total(prior)
    OBVIOUS
  <2>3. 0 \in allowed \/ 1 \in allowed
    BY <2>1, <2>2
  <2>4. allowed \subseteq 0..(k + 1) /\ 0..(k + 1) \subseteq Nat
    OBVIOUS
  <2> HIDE DEF allowed
  <2> QED BY <2>3, <2>4
<1> HIDE DEF allowed
<1>3. \A b \in allowed : Away(b) \in Nat
  BY <1>2
<1>4. gaps \subseteq Nat /\ gaps # {}
  BY <1>2, <1>3
<1>5. PICK x \in gaps : \A y \in gaps : x <= y
  <2> HIDE DEF gaps
  <2> QED BY <1>4, LeastExists
<1>6. PICK b \in allowed : Away(b) = x
  OBVIOUS
<1>7. \A c \in allowed : Away(b) <= Away(c)
  BY <1>5, <1>6
<1> HIDE DEF Away
<1>8. b \in nearest
  BY <1>7
<1>9. nearest # {} /\ nearest \subseteq allowed /\ nearest \subseteq Nat
  BY <1>2, <1>8
<1>10. Min(nearest) \in nearest
  <2> HIDE DEF nearest
  <2> QED BY <1>9, MinIsLeast
<1>11. wanted \in allowed => \A c \in nearest : c = wanted
  <2> SUFFICES ASSUME wanted \in allowed, NEW c \in nearest PROVE c = wanted
    OBVIOUS
  <2>1. Away(wanted) = 0
    BY DEF Away
  <2>2. Away(c) <= Away(wanted) /\ c \in Nat
    BY <1>9
  <2> QED BY <2>1, <2>2 DEF Away
<1> HIDE DEF nearest
<1> QED BY <1>1, <1>9, <1>10, <1>11 DEF allowed

\* What a bot takes for legal is legal, and it knows in which order the seats bid.
LEMMA BotBidsAccepted ==
  ASSUME IInv, phase = "bidding"
  PROVE  /\ LegalBids(View(Bidder)) = {bid \in 0..MaxBid(round) : ~DealerRestricted(Bidder, bid)}
         /\ LegalBids(View(Bidder)) =
              IF Bidder # seatOrder[dealerSeat + 1] THEN 0..(HandSize(round) + 1)
              ELSE (0..(HandSize(round) + 1)) \ {HandSize(round) - Total(bids)}
         /\ BiddingOrder(View(Bidder)) = bidOrder
<1> DEFINE view == View(Bidder)
<1>1. /\ view.botId = Bidder /\ view.cardsThisRound = HandSize(round)
      /\ view.dealer = seatOrder[dealerSeat + 1] /\ view.seatOrder = seatOrder /\ view.bids = bids
  BY ViewIs
<1> HIDE DEF view
<1>2. [bids EXCEPT ![Bidder] = Null] = bids
  BY BidderIs DEF IInv, TypeOK
<1>3. LegalBids(view) = IF Bidder # seatOrder[dealerSeat + 1] THEN 0..(HandSize(round) + 1)
                        ELSE (0..(HandSize(round) + 1)) \ {HandSize(round) - Total(bids)}
  BY <1>1, <1>2 DEF LegalBids, BidRange
<1>4. LegalBids(view) = {bid \in 0..MaxBid(round) : ~DealerRestricted(Bidder, bid)}
  BY <1>3, BidderIs, BidsOfOthers DEF DealerRestricted, MaxBid
<1>5. BiddingOrder(view) = bidOrder
  <2>1. IsSeating(seatOrder) /\ dealerSeat \in 0..(Len(seatOrder) - 1) /\ Len(seatOrder) \in Nat
        /\ bidOrder = OrderFrom(seatOrder, dealerSeat + 1)
    BY BidOrderSeating
  <2>2. dealerSeat + 1 \in 1..Len(seatOrder)
    BY <2>1
  <2>3. SeatOf(seatOrder, seatOrder[dealerSeat + 1]) = (dealerSeat + 1) - 1
    BY <2>1, <2>2, SeatOfPosition
  <2>4. SeatOf(seatOrder, seatOrder[dealerSeat + 1]) + 1 = dealerSeat + 1
    BY <2>1, <2>3
  <2> QED BY <1>1, <2>1, <2>4 DEF BiddingOrder
<1> QED BY <1>3, <1>4, <1>5 DEF view

\* The auction a bot imagines is one the engine could end with.
LEMMA AuctionIsPossible ==
  ASSUME IInv, phase = "bidding", NEW own \in LegalBids(View(Bidder)), NEW each \in Int,
         NEW all, all = ProjectRemainingBids(View(Bidder), own, [d \in Seated |-> each])
  PROVE  /\ \A d \in Seated : bids[d] # Null => all[d] = bids[d]
         /\ all[Bidder] = own
         /\ Total(all) # HandSize(round)
<1> DEFINE view == View(Bidder)
           desired == [d \in Seated |-> each]
           n == Len(bidOrder)
           dealer == bidOrder[n]
           Heads(i) == {bidOrder[j] : j \in 1..i}
           chosen == [e \in Seated |-> IF e = Bidder THEN own
                                       ELSE IF bids[e] # Null THEN bids[e] ELSE each]
           Before(i) == [e \in Heads(i) |-> chosen[e]]
           Next1(prior, d) == Projected(view, own, desired, prior, d)
           P == UNION {[D -> Int] : D \in SUBSET Seated}
<1>1. /\ view.botId = Bidder /\ view.cardsThisRound = HandSize(round)
      /\ view.dealer = dealer /\ view.bids = bids /\ BiddingOrder(view) = bidOrder
  BY ViewIs, BotBidsAccepted, BidderIs
<1>2. /\ IsSeating(bidOrder) /\ bidOrder \in Seq(Devices) /\ n \in Nat /\ n >= 2 /\ SeatsOf(bidOrder) = Seated
      /\ \A i, j \in 1..n : bidOrder[i] = bidOrder[j] => i = j
  BY BidOrderSeating DEF IsSeating
<1>3. /\ bids \in [Seated -> Int \cup {Null}] /\ Null \notin Int /\ bids[Bidder] = Null
      /\ Bidder \in Seated /\ bidTurnIndex < n /\ bidTurnIndex \in Nat
      /\ \A i \in 1..n : bids[bidOrder[i]] # Null <=> i <= bidTurnIndex
  BY BidderIs, BidsAssumption DEF IInv, TypeOK, DealerBidsLast
<1>4. own \in Int /\ HandSize(round) \in Nat /\ HandSize(round) >= 1
  <2>1. HandSize(round) \in Nat /\ HandSize(round) >= 1
    BY HandSizeBounds DEF IInv, TypeOK
  <2> QED BY <2>1, BotBidsAccepted
<1>5. \A i \in 1..n : bidOrder[i] \in Seated
  BY <1>2, SeatOfPosition
<1>6. bids[dealer] = Null /\ dealer \in Seated
  <2>1. n \in 1..n /\ ~(n <= bidTurnIndex)
    BY <1>2, <1>3
  <2> QED BY <1>3, <1>5, <2>1
<1>7. chosen \in [Seated -> Int] /\ chosen[Bidder] = own
      /\ \A e \in Seated : bids[e] # Null => chosen[e] = bids[e]
  BY <1>3, <1>4
<1>8. \A D \in SUBSET Seated : \A x \in [D -> Int] : Total(x) \in Int
  <2> TAKE D \in SUBSET Seated
  <2> TAKE x \in [D -> Int]
  <2>1. x \in [D -> Int \cup {Null}] /\ D \subseteq SeatsOf(bidOrder)
    BY <1>2
  <2> QED BY <1>2, <2>1, TotalAlongSeats
<1> HIDE DEF view, desired, n, dealer, chosen
<1>9. \A d \in Seated : desired[d] = each
  BY DEF desired
<1>10. ASSUME NEW D \in SUBSET Seated, NEW x \in [D -> Int], NEW d \in Seated
       PROVE  \E b \in Int : Next1(x, d) = WithBid(x, d, b)
  <2>1. Total(x) \in Int
    BY <1>8
  <2> DEFINE wanted == IF d = Bidder THEN own ELSE desired[d]
  <2>2. wanted \in Int
    BY <1>4, <1>9
  <2> HIDE DEF wanted
  <2>3. NearestLegalBid(view, wanted, x) \in Int
    BY <1>1, <1>4, <2>1, <2>2, NearestIsLegal
  <2>4. bids[d] # Null => bids[d] \in Int
    BY <1>3
  <2> QED BY <1>1, <2>2, <2>3, <2>4 DEF Projected, wanted
<1>11. <<>> \in P /\ \A x \in P, i \in 1..n : Next1(x, bidOrder[i]) \in P
  <2>1. <<>> \in [{} -> Int]
    OBVIOUS
  <2>2. ASSUME NEW D \in SUBSET Seated, NEW x \in [D -> Int], NEW i \in 1..n
        PROVE  Next1(x, bidOrder[i]) \in [D \cup {bidOrder[i]} -> Int]
    <3>1. PICK b \in Int : Next1(x, bidOrder[i]) = WithBid(x, bidOrder[i], b)
      BY <1>5, <1>10
    <3> HIDE DEF Next1
    <3> QED BY <3>1 DEF WithBid
  <2>3. \A D \in SUBSET Seated, i \in 1..n : D \cup {bidOrder[i]} \in SUBSET Seated
    BY <1>5
  <2> HIDE DEF Next1
  <2>4. <<>> \in P
    <3>1. {} \in SUBSET Seated
      OBVIOUS
    <3> QED BY <2>1, <3>1
  <2>5. ASSUME NEW x \in P, NEW i \in 1..n
        PROVE  Next1(x, bidOrder[i]) \in P
    <3>1. PICK D \in SUBSET Seated : x \in [D -> Int]
      OBVIOUS
    <3>2. Next1(x, bidOrder[i]) \in [D \cup {bidOrder[i]} -> Int]
      BY <2>2, <3>1
    <3> QED BY <2>3, <3>2
  <2> HIDE DEF P
  <2> QED BY <2>4, <2>5
<1> DEFINE kept == [i \in 0..n |-> IF i < n THEN Before(i) ELSE Next1(Before(n - 1), dealer)]
<1>12. kept[0] = <<>>
  <2>1. 0 \in 0..n /\ 0 < n /\ Heads(0) = {}
    BY <1>2
  <2> QED BY <2>1
<1>13. ASSUME NEW i \in 1..n
       PROVE  kept[i] = Next1(kept[i - 1], bidOrder[i])
  <2>1. i \in 0..n /\ i - 1 \in 0..n /\ i - 1 < n /\ i \in Nat
    BY <1>2
  <2>2. CASE i = n
    BY <2>1, <2>2 DEF dealer
  <2>3. CASE i # n
    <3> DEFINE d == bidOrder[i]
    <3>1. d # dealer /\ d \in Seated
      BY <1>2, <1>5, <2>1, <2>3 DEF dealer, n
    <3>2. Next1(Before(i - 1), d) = WithBid(Before(i - 1), d, chosen[d])
      BY <1>1, <1>3, <1>9, <3>1 DEF Projected, chosen
    <3>3. Heads(i) = Heads(i - 1) \cup {d}
      <4>1. 1..i = (1..(i - 1)) \cup {i}
        BY <2>1
      <4> QED BY <4>1
    <3> DEFINE before == Heads(i - 1)
    <3> HIDE DEF before
    <3>4. WithBid([e \in before |-> chosen[e]], d, chosen[d]) = [e \in before \cup {d} |-> chosen[e]]
      BY DEF WithBid
    <3>5. kept[i] = Before(i) /\ kept[i - 1] = Before(i - 1)
      <4>1. i < n
        BY <1>2, <2>1, <2>3
      <4> HIDE DEF Heads, Next1, before
      <4> QED BY <2>1, <4>1
    <3> QED BY <3>2, <3>3, <3>4, <3>5 DEF before
  <2> QED BY <2>2, <2>3
<1>14. all = kept[n]
  <2>1. DOMAIN bidOrder = 1..n
    BY <1>2 DEF n
  <2> HIDE DEF kept, P
  <2>2. /\ <<>> \in P
        /\ \A x \in P, i \in 1..n : Projected(view, own, desired, x, bidOrder[i]) \in P
    BY <1>11
  <2>3. \A i \in 1..n : kept[i] = Projected(view, own, desired, kept[i - 1], bidOrder[i])
    BY <1>13
  <2>5. bidOrder = BiddingOrder(view) /\ n \in Nat
    BY <1>1, <1>2
  <2> HIDE DEF Next1
  <2>4. ProjectRemainingBids(view, own, desired) = kept[n]
    BY <1>12, <2>1, <2>2, <2>3, <2>5, ProjectedAlong
  <2> QED BY <2>4 DEF view, desired
<1> DEFINE prior == Before(n - 1)
           others == Seated \ {dealer}
<1>15. Heads(n - 1) = others
  <2>1. \A d \in Seated : \E j \in 1..n : bidOrder[j] = d
    BY <1>2 DEF SeatsOf, n
  <2>2. \A j \in 1..n : j \in 1..(n - 1) \/ j = n
    BY <1>2
  <2>3. \A j \in 1..(n - 1) : j \in 1..n /\ n \in 1..n /\ bidOrder[j] # bidOrder[n]
    BY <1>2
  <2> QED BY <1>5, <2>1, <2>2, <2>3 DEF dealer
<1>16. prior \in [others -> Int] /\ \A e \in others : prior[e] = chosen[e]
  BY <1>7, <1>15
<1>17. all = Next1(prior, dealer)
  <2>1. n \in 0..n /\ ~(n < n)
    BY <1>2
  <2> QED BY <1>14, <2>1
<1> HIDE DEF prior, kept, Heads
<1> DEFINE wanted == IF dealer = Bidder THEN own ELSE each
           b == NearestLegalBid(view, wanted, prior)
<1>18. all = WithBid(prior, dealer, b)
  BY <1>1, <1>6, <1>9, <1>17 DEF Projected
<1>19. Total(prior) \in Int /\ wanted \in Int
  BY <1>4, <1>8, <1>16
<1> HIDE DEF wanted
<1>20. b \in (0..(HandSize(round) + 1)) \ {HandSize(round) - Total(prior)} /\
       (wanted \in (0..(HandSize(round) + 1)) \ {HandSize(round) - Total(prior)} => b = wanted)
  BY <1>1, <1>4, <1>19, NearestIsLegal
<1> HIDE DEF b
<1>21. all[dealer] = b /\ \A e \in others : all[e] = chosen[e]
  BY <1>16, <1>18 DEF WithBid
<1>22. Total(all) # HandSize(round)
  <2>1. b \in Int /\ dealer \in SeatsOf(bidOrder) \ others /\ others \subseteq SeatsOf(bidOrder)
    BY <1>2, <1>6, <1>20
  <2>2. Total(all) = Total(prior) + b
    BY <1>2, <1>16, <1>18, <2>1, TotalWithBid
  <2> QED BY <1>4, <1>19, <1>20, <2>1, <2>2
<1>23. \A d \in Seated : bids[d] # Null => all[d] = bids[d]
  BY <1>6, <1>7, <1>21
<1>24. all[Bidder] = own
  <2>1. CASE Bidder # dealer
    BY <1>3, <1>7, <1>21, <2>1
  <2>2. CASE Bidder = dealer
    <3>1. Total(prior) = Total(bids)
      <4>1. bidTurnIndex = n - 1
        BY <2>2, BidderIs DEF dealer, n
      <4>2. \A e \in others : bids[e] # Null
        <5> TAKE e \in others
        <5>1. PICK j \in 1..n : bidOrder[j] = e
          BY <1>2 DEF SeatsOf, n
        <5>2. j # n
          BY <5>1 DEF dealer
        <5>3. j <= bidTurnIndex
          BY <1>2, <4>1, <5>2
        <5> QED BY <1>3, <5>1, <5>3
      <4>3. \A e \in others : Counted(prior)[e] = bids[e] /\ Counted(bids)[e] = bids[e]
        BY <1>3, <1>7, <1>16, <4>2 DEF Counted
      <4>4. Counted(bids)[dealer] = 0
        BY <1>3, <1>6 DEF Counted
      <4>5. \A i \in 1..n : bidOrder[i] \in Seated /\ n \in Nat
        BY <1>2, <1>5
      <4>6. AtSeats(bidOrder, Counted(prior), others) = AtSeats(bidOrder, Counted(bids), Seated)
        <5>1. \A i \in 1..n : (IF bidOrder[i] \in others THEN Counted(prior)[bidOrder[i]] ELSE 0)
                                = IF bidOrder[i] \in Seated THEN Counted(bids)[bidOrder[i]] ELSE 0
          BY <4>3, <4>4, <4>5
        <5> QED BY <5>1 DEF AtSeats, n
      <4>7. prior \in [others -> Int \cup {Null}] /\ others \subseteq SeatsOf(bidOrder)
            /\ Seated \subseteq SeatsOf(bidOrder)
        BY <1>2, <1>16
      <4> HIDE DEF others
      <4>8. Total(prior) = SumOf(AtSeats(bidOrder, Counted(prior), others))
        BY <1>2, <4>7, TotalAlongSeats
      <4>9. Total(bids) = SumOf(AtSeats(bidOrder, Counted(bids), Seated))
        BY <1>2, <1>3, <4>7, TotalAlongSeats
      <4> QED BY <4>6, <4>8, <4>9
    <3>2. own \in (0..(HandSize(round) + 1)) \ {HandSize(round) - Total(bids)}
      BY <2>2, BotBidsAccepted, BidderIs DEF dealer, n
    <3>3. wanted = own
      BY <2>2 DEF wanted
    <3> QED BY <1>20, <1>21, <2>2, <3>1, <3>2, <3>3
  <2> QED BY <2>1, <2>2
<1> QED BY <1>22, <1>23, <1>24

\* The cards a bot chooses from.
LEMMA CandidatesAreLegal ==
  ASSUME IInv, phase = "trick", turnSeat >= 0
  PROVE  Candidates(View(ToPlay), LegalCards(ToPlay)) = LegalCards(ToPlay)
<1>1. View(ToPlay).hand = hands[ToPlay] /\ View(ToPlay).trick = currentTrick
  BY ViewIs
<1>2. LegalFrom(hands[ToPlay], currentTrick) = LegalCards(ToPlay)
  BY DEF LegalFrom, LegalCards, LeadSuit
<1>3. LegalCards(ToPlay) \subseteq hands[ToPlay]
  BY DEF LegalCards
<1> QED BY <1>1, <1>2, <1>3 DEF Candidates

\* A bot that chooses among what it takes for legal is never refused and has the choice a
\* human would have, and the auction it imagines is one that the engine could end with,
\* whichever seats changed and whenever the server was restarted (botTurnFor in
\* orchestrator.ts does not try again; projectRemainingBids in advancedRollout.ts).
THEOREM BotsAreAccepted == RSpec => []BotMovesAreAccepted
<1> SUFFICES ASSUME RInv PROVE BotMovesAreAccepted
  BY RestoredInvariant, PTL
<1>1. IInv /\ HandsInv
  BY DEF RInv
<1>2. \A d \in Seated : QuickBids(View(Bidder), hands[d]) \subseteq Int
  BY DEF QuickBids
<1>3. ASSUME phase = "bidding"
      PROVE  LET view == View(Bidder) IN
             /\ LegalBids(view) = {bid \in 0..MaxBid(round) : ~DealerRestricted(Bidder, bid)}
             /\ BiddingOrder(view) = bidOrder
             /\ \A own \in LegalBids(view), each \in UNION {QuickBids(view, hands[d]) : d \in Seated} :
                  LET all == ProjectRemainingBids(view, own, [d \in Seated |-> each]) IN
                  /\ \A d \in Seated : bids[d] # Null => all[d] = bids[d]
                  /\ all[Bidder] = own
                  /\ Total(all) # HandSize(round)
  BY <1>1, <1>2, <1>3, BotBidsAccepted, AuctionIsPossible
<1>4. Playing => Candidates(View(ToPlay), LegalCards(ToPlay)) = LegalCards(ToPlay)
  BY <1>1, CandidatesAreLegal DEF Playing
<1> QED BY <1>3, <1>4 DEF BotMovesAreAccepted, Bidding

-------------------------------------------------------------------------------
(* The hand a bot plays on in its mind.                                    *)

\* In an auction the seat that bids first is the seat that will lead.
AuctionTurn == phase = "bidding" => bidOrder[1] = seatOrder[turnSeat + 1]

\* Dealing begins an auction that way.
LEMMA DealtTurn ==
  ASSUME NEW order, NEW r, NEW dealer \in 0..(Len(order) - 1), IsSeating(order),
         BuildRound(order, r, dealer)
  PROVE  AuctionTurn'
<1>1. /\ seatOrder' = order /\ bidOrder' = OrderFrom(order, dealer + 1)
      /\ turnSeat' = (dealer + 1) % Len(order)
  BY DEF BuildRound
<1>2. 1 \in 1..Len(order) /\ (dealer + 1) + 1 - 1 = dealer + 1
  BY DEF IsSeating
<1> QED BY <1>1, <1>2 DEF AuctionTurn, OrderFrom

\* A seat change keeps it.
LEMMA ReplacedTurn ==
  ASSUME IInv, AuctionTurn, NEW from, NEW to \in Devices, ReplacePlayer(from, to)
  PROVE  AuctionTurn'
<1> SUFFICES ASSUME phase = "bidding" PROVE AuctionTurn'
  BY DEF ReplacePlayer, AuctionTurn
<1>1. /\ Len(seatOrder) \in Nat /\ Len(seatOrder) >= 2 /\ Len(bidOrder) = Len(seatOrder)
      /\ turnSeat \in 0..(Len(seatOrder) - 1)
  BY BidOrderSeating DEF IInv, TableSeated
<1>2. 1 \in 1..Len(bidOrder) /\ turnSeat + 1 \in 1..Len(seatOrder)
  BY <1>1
<1>3. /\ bidOrder' = [i \in 1..Len(bidOrder) |-> Rename(bidOrder[i], from, to)]
      /\ seatOrder' = [i \in 1..Len(seatOrder) |-> Rename(seatOrder[i], from, to)]
      /\ turnSeat' = turnSeat
  BY DEF ReplacePlayer
<1>4. bidOrder'[1] = Rename(bidOrder[1], from, to)
      /\ seatOrder'[turnSeat + 1] = Rename(seatOrder[turnSeat + 1], from, to)
  BY <1>2, <1>3
<1> QED BY <1>3, <1>4 DEF AuctionTurn

\* The table closes up and keeps it.
LEMMA RemovedAuctionTurn ==
  ASSUME IInv, AuctionTurn, NEW d, RemovePlayer(d), phase = "bidding", phase' = "bidding"
  PROVE  AuctionTurn'
<1> DEFINE n == Len(seatOrder)
           gone == SeatOf(seatOrder, d)
<1>1. /\ d \in Seated /\ seatOrder' = Leave(seatOrder, d) /\ IsSeating(seatOrder')
      /\ Len(seatOrder') = n - 1 /\ Seated' = Seated \ {d} /\ gone \in 0..(n - 1) /\ n > 2
  BY RemovedTable
<1>2. /\ IsSeating(seatOrder) /\ n \in Nat /\ seatOrder \in Seq(Devices)
      /\ IsSeating(bidOrder) /\ Len(bidOrder) = n /\ SeatsOf(bidOrder) = Seated
      /\ dealerSeat \in 0..(n - 1) /\ bidOrder = OrderFrom(seatOrder, dealerSeat + 1)
  BY BidOrderSeating DEF IsSeating
<1>3. turnSeat \in 0..(n - 1) /\ bidOrder[1] = seatOrder[turnSeat + 1]
  BY DEF IInv, TableSeated, AuctionTurn
<1>4. seatOrder[gone + 1] = d /\ gone + 1 \in 1..n
  BY <1>1, <1>2, SeatOfSeated DEF Seated
<1>5. turnSeat' = IF seatOrder[turnSeat + 1] = d THEN gone % (n - 1)
                  ELSE SeatOf(seatOrder', seatOrder[turnSeat + 1])
  BY <1>1 DEF RemovePlayer, RemoveWhileBidding, RemoveWhilePlaying, RemoveAtGameEnd
<1>6. bidOrder' = Leave(bidOrder, d)
  BY DEF RemovePlayer
<1>7. \A i \in 1..(n - 1) : seatOrder'[i] = seatOrder[IF i < gone + 1 THEN i ELSE i + 1]
  BY <1>1, <1>2, <1>4, LeaveAt
<1> HIDE DEF gone
<1>8. PICK p \in 1..n : bidOrder[p] = d
  BY <1>1, <1>2 DEF SeatsOf
<1>9. bidOrder'[1] = bidOrder[IF 1 < p THEN 1 ELSE 2]
  <2>1. p \in 1..Len(bidOrder) /\ 1 \in 1..(Len(bidOrder) - 1)
    BY <1>1, <1>2
  <2>2. Leave(bidOrder, bidOrder[p])[1] = bidOrder[IF 1 < p THEN 1 ELSE 1 + 1]
    BY <1>2, <2>1, LeaveAt
  <2> QED BY <1>6, <1>8, <2>2
<1>10. p = 1 <=> seatOrder[turnSeat + 1] = d
  <2>1. 1 \in 1..n
    BY <1>1, <1>2
  <2> QED BY <1>2, <1>3, <1>8, <2>1 DEF IsSeating
<1>11. CASE p # 1
  <2>1. bidOrder'[1] = seatOrder[turnSeat + 1]
    BY <1>3, <1>9, <1>11
  <2>2. seatOrder[turnSeat + 1] \in SeatsOf(seatOrder') /\ seatOrder' \in Seq(Devices)
    <3>1. turnSeat + 1 \in 1..n
      BY <1>2, <1>3
    <3>2. seatOrder[turnSeat + 1] \in Seated
      BY <1>2, <3>1, SeatOfPosition DEF Seated
    <3> QED BY <1>1, <1>10, <1>11, <3>2 DEF Seated, IsSeating
  <2>3. seatOrder'[turnSeat' + 1] = seatOrder[turnSeat + 1]
    BY <1>5, <1>10, <1>11, <2>2, SeatOfSeated
  <2> QED BY <2>1, <2>3 DEF AuctionTurn
<1>12. CASE p = 1
  <2>1. gone = turnSeat
    <3>1. turnSeat + 1 \in 1..n
      BY <1>2, <1>3
    <3>2. turnSeat + 1 = gone + 1
      BY <1>2, <1>4, <1>10, <1>12, <3>1 DEF IsSeating
    <3> QED BY <1>1, <1>3, <3>2
  <2>2. bidOrder'[1] = bidOrder[2]
    BY <1>9, <1>12
  <2>3. /\ bidOrder[1] = seatOrder[IF dealerSeat + 2 <= n THEN dealerSeat + 2 ELSE dealerSeat + 2 - n]
        /\ bidOrder[2] = seatOrder[IF dealerSeat + 3 <= n THEN dealerSeat + 3 ELSE dealerSeat + 3 - n]
    <3>1. 1 \in 1..n /\ 2 \in 1..n /\ dealerSeat + 1 \in 0..n
      BY <1>1, <1>2
    <3>2. /\ bidOrder[1] = seatOrder[IF dealerSeat + 1 + 1 <= n THEN dealerSeat + 1 + 1
                                     ELSE dealerSeat + 1 + 1 - n]
          /\ bidOrder[2] = seatOrder[IF dealerSeat + 1 + 2 <= n THEN dealerSeat + 1 + 2
                                     ELSE dealerSeat + 1 + 2 - n]
      BY <1>2, <3>1, RotationAt
    <3>3. /\ dealerSeat + 1 + 1 = dealerSeat + 2 /\ dealerSeat + 1 + 2 = dealerSeat + 3
          /\ dealerSeat + 1 + 1 - n = dealerSeat + 2 - n /\ dealerSeat + 1 + 2 - n = dealerSeat + 3 - n
      BY <1>2
    <3> HIDE DEF n
    <3> QED BY ONLY <3>2, <3>3
  <2>4. turnSeat + 1 = IF dealerSeat + 2 <= n THEN dealerSeat + 2 ELSE dealerSeat + 2 - n
    <3> DEFINE first == IF dealerSeat + 2 <= n THEN dealerSeat + 2 ELSE dealerSeat + 2 - n
    <3>1. first \in 1..n /\ turnSeat + 1 \in 1..n
      BY <1>1, <1>2, <1>3
    <3> HIDE DEF first
    <3>2. seatOrder[first] = seatOrder[turnSeat + 1]
      BY <1>3, <2>3 DEF first
    <3> QED BY <1>2, <3>1, <3>2 DEF IsSeating, first
  <2>5. CASE gone = n - 1
    <3>1. gone % (n - 1) = 0
      <4>1. n - 1 \in Nat /\ n - 1 > 0 /\ gone = n - 1
        BY <1>1, <1>2, <2>5
      <4> HIDE DEF n
      <4> QED BY <4>1
    <3>2. seatOrder'[1] = seatOrder[1]
      <4>1. 1 \in 1..(n - 1) /\ 1 < gone + 1
        BY <1>1, <1>2, <2>5
      <4> QED BY <1>7, <4>1
    <3>3. bidOrder[2] = seatOrder[1]
      <4>1. (IF dealerSeat + 3 <= n THEN dealerSeat + 3 ELSE dealerSeat + 3 - n) = 1
        BY <1>1, <1>2, <2>1, <2>4, <2>5
      <4> QED BY <2>3, <4>1
    <3>4. turnSeat' = 0
      BY <1>5, <1>10, <1>12, <3>1
    <3> QED BY <2>2, <3>2, <3>3, <3>4 DEF AuctionTurn
  <2>6. CASE gone # n - 1
    <3>1. gone % (n - 1) = gone
      <4>1. n - 1 \in Nat /\ gone \in Nat /\ gone < n - 1
        BY <1>1, <1>2, <2>6
      <4> HIDE DEF n
      <4> QED BY <4>1, ModSmall
    <3>2. seatOrder'[gone + 1] = seatOrder[gone + 2]
      <4>1. gone + 1 \in 1..(n - 1) /\ ~(gone + 1 < gone + 1) /\ gone + 1 + 1 = gone + 2
        BY <1>1, <1>2, <2>6
      <4> QED BY <1>7, <4>1
    <3>3. bidOrder[2] = seatOrder[gone + 2]
      <4>1. (IF dealerSeat + 3 <= n THEN dealerSeat + 3 ELSE dealerSeat + 3 - n) = gone + 2
        BY <1>1, <1>2, <2>1, <2>4, <2>6
      <4> QED BY <2>3, <4>1
    <3>4. turnSeat' = gone
      BY <1>5, <1>10, <1>12, <3>1
    <3> QED BY <2>2, <3>2, <3>3, <3>4 DEF AuctionTurn
  <2> QED BY <2>5, <2>6
<1> QED BY <1>11, <1>12

\* Every step keeps it.
LEMMA AuctionTurnStep ==
  ASSUME IInv, AuctionTurn, [Next]_vars
  PROVE  AuctionTurn'
<1> SUFFICES ASSUME phase' = "bidding" PROVE AuctionTurn'
  BY DEF AuctionTurn
<1>1. phase # "none" => /\ IsSeating(seatOrder) /\ Len(seatOrder) \in Nat /\ Len(seatOrder) >= 2
                        /\ dealerSeat \in Int
                        /\ (dealerSeat + 1) % Len(seatOrder) \in 0..(Len(seatOrder) - 1)
                        /\ 0 \in 0..(Len(seatOrder) - 1)
  BY BidOrderSeating, ModRange DEF IInv, TypeOK
<1>2. ASSUME NEW order \in SeatOrders, StartGame(order)
      PROVE  AuctionTurn'
  <2>1. IsSeating(order) /\ 0 \in 0..(Len(order) - 1) /\ BuildRound(order, 1, 0)
    BY <1>2, SeatsAssumption DEF IsSeating, StartGame
  <2> QED BY <2>1, DealtTurn
<1>3. CASE NewGame
  <2>1. phase # "none" /\ BuildRound(seatOrder, 1, 0)
    BY <1>3 DEF NewGame
  <2> QED BY <1>1, <2>1, DealtTurn
<1>4. CASE ContinueGame
  <2>1. phase # "none" /\ BuildRound(seatOrder, 1, (dealerSeat + 1) % Len(seatOrder))
    BY <1>4 DEF ContinueGame
  <2> QED BY <1>1, <2>1, DealtTurn
<1>5. CASE ResolvePendingTrick
  <2>1. phase = "trick"
    BY <1>5 DEF ResolvePendingTrick, IsTrickComplete
  <2>2. BuildRound(seatOrder, round + 1, (dealerSeat + 1) % Len(seatOrder))
    BY <1>5, <2>1 DEF ResolvePendingTrick, FinishRound
  <2> QED BY <1>1, <2>1, <2>2, DealtTurn
<1>6. CASE \/ \E d \in Seated, bid \in BidInput : PlaceBid(d, bid)
           \/ UNCHANGED vars
  <2>1. UNCHANGED <<phase, seatOrder, bidOrder, turnSeat>>
    BY <1>6 DEF PlaceBid, vars, seating
  <2> QED BY <2>1 DEF AuctionTurn
<1>7. CASE \E d \in Seated : \E card \in hands[d] : PlayCard(d, card)
  BY <1>7 DEF PlayCard
<1>8. CASE \E from \in Leavers, to \in Devices \ departed : ReplacePlayer(from, to)
  BY <1>8, ReplacedTurn
<1>9. ASSUME NEW d \in Leavers, RemovePlayer(d)
      PROVE  AuctionTurn'
  <2>1. phase = "bidding"
    BY <1>9 DEF RemovePlayer, RemoveWhileBidding, RemoveWhilePlaying, RemoveAtGameEnd
  <2> QED BY <1>9, <2>1, RemovedAuctionTurn
<1> QED BY <1>2, <1>3, <1>4, <1>5, <1>6, <1>7, <1>8, <1>9 DEF Next, Play, SeatChange, Session

\* The pile is part of the ledger.
LEMMA PileNotLonger ==
  ASSUME IInv, CardsConserved
  PROVE  Len(currentTrick) <= Len(plays)
<1> DEFINE k == Len(currentTrick)
           m == Len(plays)
           Entry(q, j) == plays[j].deviceId = currentTrick[q].deviceId /\ plays[j].card = currentTrick[q].card
           place == [q \in 1..k |-> CHOOSE j \in 1..m : Entry(q, j)]
           pile == 1..k
           all == 1..m
           found == {place[q] : q \in pile}
<1>1. k \in Nat /\ m \in Nat /\ 1 \in Int /\ k \in Int /\ m \in Int
  BY DEF IInv, TypeOK
<1>2. \A q \in 1..k : \E j \in 1..m : Entry(q, j)
  BY DEF CardsConserved
<1> HIDE DEF Entry
<1>3. \A q \in 1..k : place[q] \in 1..m /\ Entry(q, place[q])
  BY <1>2
<1> HIDE DEF place
<1>4. \A p, q \in 1..k : place[p] = place[q] => p = q
  BY <1>3, PileSeated DEF Entry
<1> HIDE DEF k, m
<1>5. /\ IsFiniteSet(1..m) /\ Cardinality(1..m) = IF 1 > m THEN 0 ELSE m - 1 + 1
      /\ IsFiniteSet(1..k) /\ Cardinality(1..k) = IF 1 > k THEN 0 ELSE k - 1 + 1
  BY <1>1, FS_Interval
<1>6. found \subseteq all
  BY <1>3
<1>7. /\ IsFiniteSet(all) /\ Cardinality(all) = m /\ IsFiniteSet(pile) /\ Cardinality(pile) = k
      /\ \A p, q \in pile : place[p] = place[q] => p = q
  BY <1>1, <1>4, <1>5
<1> HIDE DEF pile, all
<1>8. Cardinality(found) = k
  BY <1>7, SliceCounts
<1> HIDE DEF found
<1>9. Cardinality(found) <= Cardinality(all)
  BY <1>6, <1>7, FS_Subset
<1> QED BY <1>7, <1>8, <1>9 DEF k, m

\* The end of a hand in the state a bot imagines.
LEMMA HandEndsIs ==
  ASSUME NEW h, NEW w, NEW t, NEW p, NEW v, NEW s, NEW view
  PROVE  HandEnds([hands |-> h, won |-> w, trick |-> t, played |-> p, voidSuits |-> v, turnSeat |-> s], view)
           = [hands |-> h, won |-> [w EXCEPT ![TrickWinner(t, view.trump)] = @ + 1], trick |-> <<>>,
              played |-> p, voidSuits |-> v,
              turnSeat |-> SeatOf(view.seatOrder, TrickWinner(t, view.trump))]
<1> DEFINE state == [hands |-> h, won |-> w, trick |-> t, played |-> p, voidSuits |-> v, turnSeat |-> s]
           winner == TrickWinner(t, view.trump)
           seat == SeatOf(view.seatOrder, winner)
           ended == HandEnds(state, view)
<1>1. ended = [state EXCEPT !.won[winner] = @ + 1, !.trick = <<>>, !.turnSeat = seat]
  <2>1. state.trick = t
    OBVIOUS
  <2> HIDE DEF state
  <2> QED BY <2>1 DEF HandEnds
<1> HIDE DEF winner, seat, ended
<1>2. /\ ended.hands = h /\ ended.won = [w EXCEPT ![winner] = @ + 1] /\ ended.trick = <<>>
      /\ ended.played = p /\ ended.voidSuits = v /\ ended.turnSeat = seat
  BY <1>1
<1>3. /\ DOMAIN ended = {"hands", "won", "trick", "played", "voidSuits", "turnSeat"}
      /\ ended = [x \in DOMAIN ended |-> ended[x]]
  BY <1>1
<1> HIDE DEF state
<1>4. ended = [hands |-> h, won |-> [w EXCEPT ![winner] = @ + 1], trick |-> <<>>,
               played |-> p, voidSuits |-> v, turnSeat |-> seat]
  BY ONLY <1>2, <1>3
<1> QED BY <1>4 DEF ended, winner, seat, state

\* What a bot imagines, without the view.
Seen(full, h, w, t, p, v, s, order, trump) ==
  IF full
  THEN [hands |-> h, won |-> [w EXCEPT ![TrickWinner(t, trump)] = @ + 1], trick |-> <<>>,
        played |-> p, voidSuits |-> v, turnSeat |-> SeatOf(order, TrickWinner(t, trump))]
  ELSE [hands |-> h, won |-> w, trick |-> t, played |-> p, voidSuits |-> v, turnSeat |-> s]
ImaginedIsSeen ==
  Imagined = Seen(IsTrickComplete, hands, tricksWon, currentTrick, CardsOf(plays), voidSuits,
                  turnSeat, seatOrder, Trump(round))

\* It is what a bot imagines.
LEMMA ImaginedIs == ImaginedIsSeen
<1> DEFINE view == View(seatOrder[1])
           state == [hands |-> hands, won |-> tricksWon, trick |-> currentTrick,
                     played |-> CardsOf(plays), voidSuits |-> voidSuits, turnSeat |-> turnSeat]
<1>1. InitialState(view, hands) = state
  BY DEF InitialState, View
<1>2. view.trump = Trump(round) /\ view.seatOrder = seatOrder
  BY ViewIs
<1>3. Imagined = IF IsTrickComplete THEN HandEnds(state, view) ELSE state
  BY <1>1 DEF Imagined
<1> HIDE DEF view
<1> QED BY <1>2, <1>3, HandEndsIs DEF ImaginedIsSeen, Seen

\* Both winners of a pile are found in the same way.
LEMMA SameWinner == TrickWinner(currentTrick, Trump(round)) = Winner
BY DEF TrickWinner, Winner, LeadSuit

\* A ledger that is rebuilt as it was shows a bot what it showed before.
LEMMA LegacyImagined ==
  ASSUME RInv, ImaginedIsSeen, ImaginedIsSeen', RestoreLegacyRoom, SameTable
  PROVE  Len(plays') = Len(plays) /\ Imagined' = Imagined
<1>1. /\ UNCHANGED <<round, phase, seatOrder, hands, tricksWon, currentTrick, turnSeat>>
      /\ Seated' = Seated /\ Len(plays') = Len(currentTrick) /\ VoidsRecorded'
      /\ voidSuits' \in [Seated -> SUBSET Suits]
  BY LegacyEffect
<1>2. VoidsRecorded /\ voidSuits \in [Seated -> SUBSET Suits] /\ Len(plays) \in Nat /\ Len(currentTrick) \in Nat
  BY DEF RInv, IInv, TypeOK
<1>3. plays' = plays
  <2>1. Len(currentTrick) <= Len(plays)
    BY PileNotLonger DEF RInv
  <2> QED BY <1>1, <1>2, <2>1 DEF SameTable
<1>4. voidSuits' = voidSuits
  <2>1. \A d \in Seated : voidSuits'[d] = voidSuits[d]
    BY <1>1, <1>2, <1>3 DEF VoidsRecorded
  <2> QED BY <1>1, <1>2, <2>1
<1>5. /\ IsTrickComplete' = IsTrickComplete
      /\ TrickWinner(currentTrick, Trump(round))' = TrickWinner(currentTrick, Trump(round))
  BY <1>1, SMTT(30) DEF IsTrickComplete, TrickWinner, Trump
<1>6. Imagined' = Imagined
  BY <1>1, <1>3, <1>4, <1>5 DEF ImaginedIsSeen, Seen
<1> QED BY <1>3, <1>6

\* A card played in the state a bot imagines.
LedSuit(t, card) == IF t = <<>> THEN card.suit ELSE t[1].card.suit
PileWith(t, d, card) == Append(t, [deviceId |-> d, card |-> card])
VoidsWith(v, d, card, lead) == [v EXCEPT ![d] = IF card.suit = lead THEN @ ELSE @ \cup {lead}]
Mind(h, w, t, p, v, s) ==
  [hands |-> h, won |-> w, trick |-> t, played |-> p, voidSuits |-> v, turnSeat |-> s]
MindAfter(h, w, t, p, v, s, d, card, view) ==
  Seen(Len(PileWith(t, d, card)) = Len(view.seatOrder), [h EXCEPT ![d] = @ \ {card}], w,
       PileWith(t, d, card), p \cup {card}, VoidsWith(v, d, card, LedSuit(t, card)),
       (s + 1) % Len(view.seatOrder), view.seatOrder, view.trump)

\* It is what playInto makes of that state.
LEMMA PlayIntoIs ==
  ASSUME NEW h, NEW w, NEW t, NEW p, NEW v, NEW s, NEW view, NEW d, NEW card
  PROVE  PlayInto(Mind(h, w, t, p, v, s), d, card, view) = MindAfter(h, w, t, p, v, s, d, card, view)
<1> DEFINE lead == LedSuit(t, card)
           pile == PileWith(t, d, card)
           left == [h EXCEPT ![d] = @ \ {card}]
           voids == VoidsWith(v, d, card, lead)
           state == [hands |-> h, won |-> w, trick |-> t, played |-> p, voidSuits |-> v, turnSeat |-> s]
           next == [state EXCEPT
                      !.hands[d] = @ \ {card},
                      !.trick = Append(@, [deviceId |-> d, card |-> card]),
                      !.played = @ \cup {card},
                      !.voidSuits[d] = IF card.suit = lead THEN @ ELSE @ \cup {lead},
                      !.turnSeat = (@ + 1) % Len(view.seatOrder)]
           seat == (s + 1) % Len(view.seatOrder)
<1>1. PlayInto(state, d, card, view)
        = IF Len(next.trick) = Len(view.seatOrder) THEN HandEnds(next, view) ELSE next
  <2>1. state.trick = t
    OBVIOUS
  <2>2. lead = IF state.trick = <<>> THEN card.suit ELSE state.trick[1].card.suit
    BY <2>1 DEF LedSuit
  <2> HIDE DEF state, lead
  <2> QED BY <2>2 DEF PlayInto
<1>2. /\ next.hands = left /\ next.won = w /\ next.trick = pile
      /\ next.played = p \cup {card} /\ next.voidSuits = voids /\ next.turnSeat = seat
  <2> HIDE DEF lead
  <2> QED BY DEF PileWith, VoidsWith
<1>3. /\ DOMAIN next = {"hands", "won", "trick", "played", "voidSuits", "turnSeat"}
      /\ next = [x \in DOMAIN next |-> next[x]]
  OBVIOUS
<1> HIDE DEF state, next, seat, lead, pile, left, voids
<1>4. next = [hands |-> left, won |-> w, trick |-> pile, played |-> p \cup {card},
              voidSuits |-> voids, turnSeat |-> seat]
  BY ONLY <1>2, <1>3
<1>5. HandEnds(next, view)
        = [hands |-> left, won |-> [w EXCEPT ![TrickWinner(pile, view.trump)] = @ + 1], trick |-> <<>>,
           played |-> p \cup {card}, voidSuits |-> voids,
           turnSeat |-> SeatOf(view.seatOrder, TrickWinner(pile, view.trump))]
  <2> DEFINE played == p \cup {card}
  <2> HIDE DEF played
  <2>1. HandEnds([hands |-> left, won |-> w, trick |-> pile, played |-> played,
                  voidSuits |-> voids, turnSeat |-> seat], view)
          = [hands |-> left, won |-> [w EXCEPT ![TrickWinner(pile, view.trump)] = @ + 1], trick |-> <<>>,
             played |-> played, voidSuits |-> voids,
             turnSeat |-> SeatOf(view.seatOrder, TrickWinner(pile, view.trump))]
    BY ONLY HandEndsIs
  <2> QED BY <1>4, <2>1 DEF played
<1>6. PlayInto(state, d, card, view)
        = Seen(Len(pile) = Len(view.seatOrder), left, w, pile, p \cup {card}, voids, seat,
               view.seatOrder, view.trump)
  BY <1>1, <1>2, <1>4, <1>5 DEF Seen
<1> QED BY <1>6 DEF state, seat, lead, pile, left, voids, Mind, MindAfter

\* The end of the auction changes nothing for a bot.
LEMMA BidImagined ==
  ASSUME IInv, AuctionTurn, ImaginedIsSeen, ImaginedIsSeen',
         NEW d \in Seated, NEW bid \in BidInput, PlaceBid(d, bid), phase' = "trick"
  PROVE  plays' = plays /\ Imagined' = Imagined
<1>1. /\ phase = "bidding" /\ currentTrick = <<>> /\ turnSeat' = SeatOf(seatOrder, bidOrder[1])
      /\ UNCHANGED <<round, seatOrder, hands, tricksWon, currentTrick, plays, voidSuits>>
  BY DEF PlaceBid, seating, ledger, IInv, TableSeated
<1>2. IsSeating(seatOrder) /\ Len(seatOrder) \in Nat /\ Len(seatOrder) >= 2
      /\ turnSeat \in 0..(Len(seatOrder) - 1)
  BY <1>1, BidOrderSeating DEF IInv, TableSeated
<1>3. turnSeat' = turnSeat
  <2>1. turnSeat + 1 \in 1..Len(seatOrder) /\ bidOrder[1] = seatOrder[turnSeat + 1]
    BY <1>1, <1>2 DEF AuctionTurn
  <2>2. SeatOf(seatOrder, seatOrder[turnSeat + 1]) = turnSeat + 1 - 1
    BY <1>2, <2>1, SeatOfPosition
  <2> QED BY <1>1, <1>2, <2>1, <2>2
<1>4. ~IsTrickComplete /\ ~(IsTrickComplete')
  BY <1>1, <1>2 DEF IsTrickComplete
<1>5. Trump(round)' = Trump(round)
  BY <1>1 DEF Trump
<1> QED BY <1>1, <1>3, <1>4, <1>5 DEF ImaginedIsSeen, Seen

\* A card that is played is played in the bots' minds.
LEMMA PlayImagined ==
  ASSUME IInv, ImaginedIsSeen, ImaginedIsSeen', NEW d \in Seated, NEW card \in hands[d], PlayCard(d, card)
  PROVE  ImaginedChanges
<1> DEFINE lead == IF currentTrick = <<>> THEN card.suit ELSE LeadSuit
           n == Len(seatOrder)
           voids == [voidSuits EXCEPT ![d] = IF card.suit = lead THEN @ ELSE @ \cup {lead}]
           view == View(d)
<1>1. /\ phase = "trick" /\ turnSeat >= 0 /\ phase' = phase
      /\ UNCHANGED <<round, seatOrder, tricksWon>>
      /\ hands' = [hands EXCEPT ![d] = @ \ {card}]
      /\ currentTrick' = Append(currentTrick, [deviceId |-> d, card |-> card])
      /\ plays' = Append(plays, [handNumber |-> HandNumber, deviceId |-> d, card |-> card, leadSuit |-> lead])
      /\ voidSuits' = IF card.suit = lead THEN voidSuits ELSE [voidSuits EXCEPT ![d] = @ \cup {lead}]
      /\ turnSeat' = IF Len(currentTrick) + 1 < n THEN (turnSeat + 1) % n ELSE -1
  BY DEF PlayCard, seating
<1>2. /\ plays \in Seq(LedgerEntry) /\ currentTrick \in Seq(PlayedCard)
      /\ voidSuits \in [Seated -> SUBSET Suits] /\ n \in Nat
  BY DEF IInv, TypeOK
<1>3. Len(currentTrick) \in 0..(n - 1)
  BY <1>1, <1>2, StillToPlay
<1>4. ~IsTrickComplete /\ Len(currentTrick') = Len(currentTrick) + 1
      /\ (IsTrickComplete' <=> Len(currentTrick') = n)
  BY <1>1, <1>2, <1>3 DEF IsTrickComplete
<1>5. voidSuits' = voids
  BY <1>1, <1>2
<1>6. /\ Len(plays') = Len(plays) + 1 /\ Len(plays') # Len(plays)
      /\ plays'[Len(plays')].deviceId = d /\ plays'[Len(plays')].card = card
      /\ \A i \in 1..Len(plays) : plays'[i] = plays[i]
  BY <1>1, <1>2
<1>7. CardsOf(plays') = CardsOf(plays) \cup {card}
  <2> DEFINE m == Len(plays)
             after == plays'
  <2>1. m \in Nat /\ Len(after) = m + 1 /\ after[m + 1].card = card /\ \A i \in 1..m : after[i] = plays[i]
    BY <1>2, <1>6
  <2> HIDE DEF m, after
  <2>2. 1..(m + 1) = (1..m) \cup {m + 1}
    BY <2>1
  <2>3. CardsOf(after) = CardsOf(plays) \cup {card}
    BY <2>1, <2>2 DEF CardsOf, m
  <2> QED BY <2>3 DEF after
<1>8. view.seatOrder = seatOrder /\ view.trump = Trump(round) /\ Trump(round)' = Trump(round)
  BY <1>1, ViewIs DEF Trump
<1> HIDE DEF view, voids
<1>9. Imagined = [hands |-> hands, won |-> tricksWon, trick |-> currentTrick, played |-> CardsOf(plays),
                  voidSuits |-> voidSuits, turnSeat |-> turnSeat]
  BY <1>4 DEF ImaginedIsSeen, Seen
<1>10. PlayInto(Imagined, d, card, view)
         = Seen(Len(currentTrick') = n, hands', tricksWon, currentTrick', CardsOf(plays'), voidSuits',
                (turnSeat + 1) % n, seatOrder, Trump(round))
  <2>1. lead = LedSuit(currentTrick, card)
    BY DEF LeadSuit, LedSuit
  <2>2. /\ PileWith(currentTrick, d, card) = currentTrick'
        /\ [hands EXCEPT ![d] = @ \ {card}] = hands'
    BY <1>1 DEF PileWith
  <2>3. VoidsWith(voidSuits, d, card, LedSuit(currentTrick, card)) = voidSuits'
    <3> HIDE DEF lead
    <3> QED BY <1>5, <2>1 DEF VoidsWith, voids
  <2>4. PlayInto([hands |-> hands, won |-> tricksWon, trick |-> currentTrick, played |-> CardsOf(plays),
                  voidSuits |-> voidSuits, turnSeat |-> turnSeat], d, card, view)
          = Seen(Len(PileWith(currentTrick, d, card)) = Len(view.seatOrder), [hands EXCEPT ![d] = @ \ {card}],
                 tricksWon, PileWith(currentTrick, d, card), CardsOf(plays) \cup {card},
                 VoidsWith(voidSuits, d, card, LedSuit(currentTrick, card)),
                 (turnSeat + 1) % Len(view.seatOrder), view.seatOrder, view.trump)
    <3> DEFINE h == hands
               w == tricksWon
               t == currentTrick
               p == CardsOf(plays)
               v == voidSuits
               s == turnSeat
    <3> HIDE DEF h, w, t, p, v, s
    <3>1. PlayInto(Mind(h, w, t, p, v, s), d, card, view) = MindAfter(h, w, t, p, v, s, d, card, view)
      BY ONLY PlayIntoIs
    <3> QED BY <3>1 DEF h, w, t, p, v, s, Mind, MindAfter
  <2> QED BY <1>7, <1>8, <1>9, <2>2, <2>3, <2>4
<1>11. Imagined' = Seen(Len(currentTrick') = n, hands', tricksWon, currentTrick', CardsOf(plays'), voidSuits',
                        turnSeat', seatOrder, Trump(round))
  BY <1>1, <1>4, <1>8 DEF ImaginedIsSeen, Seen
<1>12. Imagined' = PlayInto(Imagined, d, card, view)
  <2>1. Len(currentTrick') # n => turnSeat' = (turnSeat + 1) % n
    BY <1>1, <1>2, <1>3, <1>4
  <2> QED BY <1>10, <1>11, <2>1 DEF Seen
<1> QED BY <1>6, <1>12 DEF ImaginedChanges, view

\* A pile that is resolved was resolved in the bots' minds before.
LEMMA ResolveImagined ==
  ASSUME IInv, ImaginedIsSeen, ImaginedIsSeen', ResolvePendingTrick, phase' = "trick"
  PROVE  plays' = plays /\ Imagined' = Imagined
<1>1. IsTrickComplete /\ phase = "trick"
  BY DEF ResolvePendingTrick, IsTrickComplete
<1>2. /\ tricksWon' = [tricksWon EXCEPT ![Winner] = @ + 1] /\ currentTrick' = <<>>
      /\ turnSeat' = SeatOf(seatOrder, Winner)
      /\ UNCHANGED <<round, seatOrder, hands, plays, voidSuits>>
  BY DEF ResolvePendingTrick, FinishRound, BuildRound, seating, ledger
<1>3. Len(seatOrder) \in Nat /\ Len(seatOrder) >= 2
  BY <1>1, BidOrderSeating
<1>4. ~(IsTrickComplete')
  BY <1>2, <1>3 DEF IsTrickComplete
<1> QED BY <1>1, <1>2, <1>4, SameWinner DEF ImaginedIsSeen, Seen

\* A round ends where the imagined one ends, with the scores it ends with.
LEMMA RoundImagined ==
  ASSUME IInv, ImaginedIsSeen, [Next]_vars, RoundEnds
  PROVE  /\ Terminal(Imagined)
         /\ \A d \in Seated : scores'[d] = FinalScore(Imagined, View(d), d)
<1>1. ResolvePendingTrick /\ \A d \in Seated : hands[d] = {}
  BY RoundEndsResolved
<1>2. IsTrickComplete /\ phase = "trick" /\ DOMAIN hands = Seated
  BY <1>1 DEF ResolvePendingTrick, IsTrickComplete, IInv, TypeOK
<1>3. /\ Imagined.trick = <<>> /\ Imagined.hands = hands
      /\ Imagined.won = [tricksWon EXCEPT ![Winner] = @ + 1]
  BY <1>2, SameWinner DEF ImaginedIsSeen, Seen
<1>4. Terminal(Imagined)
  BY <1>1, <1>2, <1>3 DEF Terminal
<1>5. FinishRound([tricksWon EXCEPT ![Winner] = @ + 1])
  BY <1>1, <1>2 DEF ResolvePendingTrick
<1>6. ASSUME NEW d \in Seated
      PROVE  scores'[d] = FinalScore(Imagined, View(d), d)
  <2>1. bids[d] # Null
    <3>1. SeatsOf(bidOrder) = Seated /\ bidTurnIndex >= Len(bidOrder) /\ Len(bidOrder) \in Nat
          /\ bidTurnIndex \in Nat
      BY <1>2, BidOrderSeating DEF IInv, TableSeated, TypeOK
    <3>2. PICK i \in 1..Len(bidOrder) : bidOrder[i] = d
      BY <3>1 DEF SeatsOf
    <3>3. i <= bidTurnIndex
      BY <3>1
    <3> QED BY <1>2, <3>2, <3>3 DEF IInv, DealerBidsLast
  <2>2. Bid(d) = bids[d]
    BY <2>1 DEF Bid
  <2>3. View(d).scores = scores /\ View(d).bids = bids
    BY ViewIs
  <2>4. scores'[d] = scores[d] + RoundScore(Bid(d), [tricksWon EXCEPT ![Winner] = @ + 1][d])
    BY <1>5 DEF FinishRound
  <2> QED BY <1>3, <2>2, <2>3, <2>4 DEF FinalScore, ImaginedRoundScore, RoundScore
<1> QED BY <1>4, <1>6

\* Whatever is played and whenever the server is restarted, the state a bot imagines
\* changes as the engine's does, and a round ends where the imagined one ends, with the
\* same scores (playInto, trickWinner and the score of a round in rollout.ts,
\* advancedRollout.ts and search.ts).  The step in which a ledger is rebuilt into a
\* different one is not imagined; those after it are.
THEOREM MindsFollowGame == RSpec => SimulationFollowsGame
<1> DEFINE Good == RInv /\ AuctionTurn /\ ImaginedIsSeen
           Follows == /\ SameTable /\ phase' = "trick" => ImaginedChanges
                      /\ RoundEnds =>
                           /\ Terminal(Imagined)
                           /\ \A d \in Seated : scores'[d] = FinalScore(Imagined, View(d), d)
<1>1. RInit => AuctionTurn
  BY DEF RInit, Init, AuctionTurn
<1>2. ASSUME RInv, AuctionTurn, [RNext]_rvars
      PROVE  AuctionTurn'
  <2>1. CASE [Next]_vars
    BY <1>2, <2>1, AuctionTurnStep DEF RInv
  <2>2. CASE RestoreRoom \/ RestoreLegacyRoom
    <3>1. UNCHANGED <<phase, seatOrder, bidOrder, turnSeat>>
      BY <2>2 DEF RestoreRoom, RestoreLegacyRoom, seating
    <3> QED BY <1>2, <3>1 DEF AuctionTurn
  <2> QED BY <1>2, <2>1, <2>2 DEF RNext, rvars
<1>3. RSpec => []AuctionTurn
  BY <1>1, <1>2, RestoredInvariant, PTL DEF RSpec
<1>4. RSpec => []Good
  BY <1>3, RestoredInvariant, ImaginedIs, PTL
<1>5. ASSUME Good, Good', [RNext]_rvars
      PROVE  [Follows]_vars
  <2> SUFFICES ASSUME ~UNCHANGED vars PROVE Follows
    OBVIOUS
  <2>1. IInv /\ AuctionTurn /\ ImaginedIsSeen /\ ImaginedIsSeen' /\ RInv
    BY <1>5 DEF RInv
  <2>2. CASE Next
    <3>1. SameTable /\ phase' = "trick" => ImaginedChanges
      <4> SUFFICES ASSUME SameTable, phase' = "trick" PROVE ImaginedChanges
        OBVIOUS
      <4>1. CASE \E d \in Seated, bid \in BidInput : PlaceBid(d, bid)
        BY <2>1, <4>1, BidImagined DEF ImaginedChanges
      <4>2. CASE \E d \in Seated : \E card \in hands[d] : PlayCard(d, card)
        BY <2>1, <4>2, PlayImagined
      <4>3. CASE ResolvePendingTrick
        BY <2>1, <4>3, ResolveImagined DEF ImaginedChanges
      <4>4. ASSUME NEW from \in Leavers, NEW to \in Devices \ departed, ReplacePlayer(from, to)
            PROVE  FALSE
        <5>1. from \in Seated /\ to \notin Seated /\ Seated' = (Seated \ {from}) \cup {to}
          BY <2>1, <4>4, ReplacedEntries
        <5>2. Seated' = Seated
          BY DEF SameTable, Seated
        <5> QED BY <5>1, <5>2
      <4>5. ASSUME NEW d \in Leavers, RemovePlayer(d)
            PROVE  FALSE
        <5>1. d \in Seated /\ Seated' = Seated \ {d}
          BY <2>1, <4>5, RemovedTable
        <5>2. Seated' = Seated
          BY DEF SameTable, Seated
        <5> QED BY <5>1, <5>2
      <4>6. CASE \/ \E order \in SeatOrders : StartGame(order)
                 \/ NewGame
                 \/ ContinueGame
        <5>1. phase' = "bidding"
          BY <4>6 DEF StartGame, NewGame, ContinueGame, BuildRound
        <5> QED BY <5>1
      <4> QED BY <2>2, <4>1, <4>2, <4>3, <4>4, <4>5, <4>6 DEF Next, Play, SeatChange, Session
    <3>2. RoundEnds => /\ Terminal(Imagined)
                       /\ \A d \in Seated : scores'[d] = FinalScore(Imagined, View(d), d)
      BY <2>1, <2>2, RoundImagined
    <3> QED BY <3>1, <3>2
  <2>3. CASE RestoreRoom
    <3>1. UNCHANGED vars
      BY <2>1, <2>3, RestoreChangesNothing
    <3> QED BY <3>1
  <2>4. CASE RestoreLegacyRoom
    <3>1. roundHistory' = roundHistory /\ Len(roundHistory) \in Nat
      BY <2>1, <2>4 DEF RestoreLegacyRoom, sheet, IInv, TypeOK
    <3>2. ~RoundEnds
      BY <3>1 DEF RoundEnds
    <3>3. SameTable /\ phase' = "trick" => ImaginedChanges
      BY <2>1, <2>4, LegacyImagined DEF ImaginedChanges
    <3> QED BY <3>2, <3>3
  <2> QED BY <1>5, <2>2, <2>3, <2>4 DEF RNext, rvars
<1> QED BY <1>4, <1>5, PTL DEF RSpec, SimulationFollowsGame

-------------------------------------------------------------------------------
(* The floor under a bot's bid.                                            *)

\* A bot's floor is at most the cards of its hand, and of two bids it has one.
LEMMA FloorFacts ==
  ASSUME IInv, HandsInv, phase = "bidding",
         NEW view, view = View(Bidder), NEW floor, floor = Cardinality(GuaranteedTrumpCards(view)),
         NEW k, k = HandSize(round)
  PROVE  /\ k \in Nat /\ floor \in 0..k /\ Cardinality(view.hand) = k
         /\ LegalBids(view) = {bid \in 0..MaxBid(round) : ~DealerRestricted(Bidder, bid)}
         /\ LegalBids(view) \subseteq 0..(k + 1)
         /\ \A bid \in 0..k : bid \in LegalBids(view) \/ bid + 1 \in LegalBids(view)
<1>1. /\ k \in Nat /\ Bidder \in Seated
  BY BidderIs, HandSizeBounds DEF IInv, TypeOK
<1>2. view.hand = hands[Bidder] /\ IsFiniteSet(hands[Bidder]) /\ Cardinality(hands[Bidder]) = k
  BY <1>1, ViewIs DEF HandsInv, HandsFinite, HandsEven
<1>3. floor \in 0..k
  <2>1. GuaranteedTrumpCards(view) \subseteq view.hand
    BY DEF GuaranteedTrumpCards
  <2>2. IsFiniteSet(GuaranteedTrumpCards(view)) /\ floor <= k
    BY <1>2, <2>1, FS_Subset
  <2>3. floor \in Nat
    BY <2>2, FS_CardinalityType
  <2> QED BY <1>1, <2>2, <2>3
<1>4. PICK taken : LegalBids(view) = (0..(k + 1)) \ taken /\ (taken = {} \/ \E only : taken = {only})
  <2>1. LegalBids(view) = IF Bidder # seatOrder[dealerSeat + 1] THEN 0..(k + 1)
                          ELSE (0..(k + 1)) \ {k - Total(bids)}
    BY BotBidsAccepted
  <2>2. CASE Bidder # seatOrder[dealerSeat + 1]
    <3>1. LegalBids(view) = (0..(k + 1)) \ {}
      BY <2>1, <2>2
    <3> QED BY <3>1
  <2>3. CASE Bidder = seatOrder[dealerSeat + 1]
    <3>1. LegalBids(view) = (0..(k + 1)) \ {k - Total(bids)}
      BY <2>1, <2>3
    <3> QED BY <3>1
  <2> QED BY <2>2, <2>3
<1>5. \A bid \in 0..k : bid \in LegalBids(view) \/ bid + 1 \in LegalBids(view)
  <2> TAKE bid \in 0..k
  <2>1. bid \in 0..(k + 1) /\ bid + 1 \in 0..(k + 1) /\ bid # bid + 1
    BY <1>1
  <2> QED BY <1>4, <2>1
<1>6. LegalBids(view) \subseteq 0..(k + 1)
  BY <1>4
<1> QED BY <1>1, <1>2, <1>3, <1>5, <1>6, BotBidsAccepted

\* Without the ceiling a bot bids any legal bid that is not below the floor.
LEMMA OpenBids ==
  ASSUME NEW view, NEW k \in Nat, view.cardsThisRound = k,
         NEW floor \in 0..k, floor = Cardinality(GuaranteedTrumpCards(view))
  PROVE  BidsWithoutCeiling(view) = {bid \in LegalBids(view) : bid >= floor}
<1> DEFINE both == {floor, k}
<1>1. both \subseteq Nat /\ both # {} /\ floor \in both
  OBVIOUS
<1>2. Min(both) \in both /\ Min(both) <= floor
  <2> HIDE DEF both
  <2> QED BY <1>1, MinIsLeast
<1>3. Min(both) = floor
  BY <1>2
<1>4. MinimumSensible(view) = floor
  BY <1>3 DEF MinimumSensible
<1> QED BY <1>4 DEF BidsWithoutCeiling, HeuristicBids

\* Ustaad's ceiling is above the floor, and what it brings a bid down to is not below it.
LEMMA CeilingKeepsFloor ==
  ASSUME NEW view, NEW k \in Nat, NEW floor \in 0..k, Cardinality(view.hand) = k,
         floor = Cardinality(GuaranteedTrumpCards(view)),
         LegalBids(view) \subseteq 0..(k + 1),
         \A bid \in 0..k : bid \in LegalBids(view) \/ bid + 1 \in LegalBids(view),
         NEW original \in LegalBids(view), original >= floor, NEW ceiling \in Ceilings(view)
  PROVE  UnderCeiling(view, original, ceiling) \in LegalBids(view)
         /\ UnderCeiling(view, original, ceiling) >= floor
<1>1. PICK expected \in floor..k : ceiling = Max({floor, expected + 2})
  BY DEF Ceilings
<1>2. ceiling = expected + 2
  <2> DEFINE both == {floor, expected + 2}
  <2>1. both \subseteq Int /\ expected + 2 \in both /\ \A x \in both : x <= expected + 2
    OBVIOUS
  <2> HIDE DEF both
  <2>2. Max(both) = expected + 2
    BY <2>1, MaxIs
  <2> QED BY <1>1, <2>2 DEF both
<1>3. ceiling \in Nat /\ ceiling >= floor + 2
  BY <1>1, <1>2
<1> DEFINE alternatives == {bid \in LegalBids(view) : bid <= ceiling}
<1>4. CASE original <= ceiling \/ alternatives = {}
  BY <1>4 DEF UnderCeiling
<1>5. CASE ~(original <= ceiling) /\ alternatives # {}
  <2>1. UnderCeiling(view, original, ceiling) = Max(alternatives)
    BY <1>5 DEF UnderCeiling
  <2>2. original \in 0..(k + 1)
    OBVIOUS
  <2>3. ceiling \in 0..k /\ ceiling - 1 \in 0..k /\ (ceiling - 1) + 1 = ceiling
    BY <1>3, <1>5, <2>2
  <2>4. ceiling \in LegalBids(view) \/ ceiling - 1 \in LegalBids(view)
    BY <2>3
  <2> DEFINE best == IF ceiling \in LegalBids(view) THEN ceiling ELSE ceiling - 1
  <2>5. best \in LegalBids(view) /\ best <= ceiling /\ best >= floor
    BY <1>3, <2>4
  <2>6. alternatives \subseteq Int /\ best \in alternatives /\ \A x \in alternatives : x <= best
    BY <1>3, <2>5
  <2>7. Max(alternatives) = best
    <3> HIDE DEF alternatives, best
    <3> QED BY <2>6, MaxIs
  <2> QED BY <2>1, <2>5, <2>7
<1> QED BY <1>4, <1>5

\* Whatever the estimates say, a bot has a bid, the engine accepts it, and it is not below
\* the hands its top trumps are bound to win (strategy.ts:482-483), at any table, with any
\* deck, whichever seats changed and whenever the server was restarted.
THEOREM FloorIsKept == RSpec => []BidsKeepTheFloor
<1> SUFFICES ASSUME RInv, phase = "bidding"
             PROVE  /\ ChooseBids(View(Bidder)) # {}
                    /\ \A bid \in ChooseBids(View(Bidder)) :
                         /\ bid \in 0..MaxBid(round) /\ ~DealerRestricted(Bidder, bid)
                         /\ bid >= Cardinality(GuaranteedTrumpCards(View(Bidder)))
  <2>1. RInv => BidsKeepTheFloor
    BY DEF BidsKeepTheFloor, Bidding
  <2> QED BY <2>1, RestoredInvariant, PTL
<1> DEFINE view == View(Bidder)
           floor == Cardinality(GuaranteedTrumpCards(view))
           k == HandSize(round)
<1>1. IInv /\ HandsInv
  BY DEF RInv
<1>2. /\ k \in Nat /\ floor \in 0..k /\ Cardinality(view.hand) = k /\ view.cardsThisRound = k
      /\ LegalBids(view) = {bid \in 0..MaxBid(round) : ~DealerRestricted(Bidder, bid)}
      /\ LegalBids(view) \subseteq 0..(k + 1)
      /\ \A bid \in 0..k : bid \in LegalBids(view) \/ bid + 1 \in LegalBids(view)
  BY <1>1, FloorFacts, ViewIs
<1>3. floor = Cardinality(GuaranteedTrumpCards(view))
  OBVIOUS
<1> HIDE DEF view, floor, k
<1>4. BidsWithoutCeiling(view) = {bid \in LegalBids(view) : bid >= floor}
  BY <1>2, <1>3, OpenBids
<1>5. BidsWithoutCeiling(view) # {}
  <2>1. k \in 0..k /\ k >= floor /\ k + 1 >= floor
    BY <1>2
  <2>2. k \in LegalBids(view) \/ k + 1 \in LegalBids(view)
    BY <1>2, <2>1
  <2> QED BY <1>4, <2>1, <2>2
<1>6. \A original \in BidsWithoutCeiling(view), ceiling \in Ceilings(view) :
        UnderCeiling(view, original, ceiling) \in LegalBids(view)
        /\ UnderCeiling(view, original, ceiling) >= floor
  BY <1>2, <1>3, <1>4, CeilingKeepsFloor
<1>7. ChooseBids(view) # {} /\ \A bid \in ChooseBids(view) : bid \in LegalBids(view) /\ bid >= floor
  BY <1>4, <1>5, <1>6 DEF ChooseBids
<1> QED BY <1>2, <1>7 DEF view, floor

-------------------------------------------------------------------------------
(* The deals a bot thinks possible: the order of its opponents.            *)

\* A finite set with a strict order of its elements can be listed in that order, each
\* element once.
LEMMA SortedListing ==
  ASSUME NEW S, IsFiniteSet(S), NEW R, NEW n, n = Cardinality(S),
         \A d \in S : <<d, d>> \notin R,
         \A d, e, f \in S : <<d, e>> \in R /\ <<e, f>> \in R => <<d, f>> \in R,
         \A d, e \in S : d # e => <<d, e>> \in R \/ <<e, d>> \in R
  PROVE  \E order \in [1..n -> S] : \A i, j \in 1..n : i < j => <<order[i], order[j]>> \in R
<1> DEFINE Ahead(d) == {e \in S : <<e, d>> \in R}
           place == [d \in S |-> Cardinality(Ahead(d)) + 1]
<1>1. n \in Nat
  BY FS_CardinalityType
<1>2. \A d \in S : /\ IsFiniteSet(Ahead(d)) /\ Cardinality(Ahead(d)) \in Nat
                   /\ Cardinality(Ahead(d)) <= n - 1
  <2> TAKE d \in S
  <2>1. Ahead(d) \in SUBSET (S \ {d})
    OBVIOUS
  <2>2. IsFiniteSet(S \ {d}) /\ Cardinality(S \ {d}) = n - 1
    BY FS_RemoveElement
  <2> HIDE DEF Ahead
  <2>3. IsFiniteSet(Ahead(d)) /\ Cardinality(Ahead(d)) <= n - 1
    BY <2>1, <2>2, FS_Subset
  <2> QED BY <2>3, FS_CardinalityType
<1>3. \A d, e \in S : <<d, e>> \in R => Cardinality(Ahead(d)) < Cardinality(Ahead(e))
  <2> TAKE d, e \in S
  <2> HAVE <<d, e>> \in R
  <2>1. Ahead(d) \in SUBSET Ahead(e) /\ d \in Ahead(e) /\ d \notin Ahead(d)
    OBVIOUS
  <2> HIDE DEF Ahead
  <2>2. Cardinality(Ahead(d)) <= Cardinality(Ahead(e)) /\ Cardinality(Ahead(d)) # Cardinality(Ahead(e))
    BY <1>2, <2>1, FS_Subset
  <2> QED BY <1>2, <2>2
<1>4. place \in [S -> 1..n] /\ \A d \in S : place[d] = Cardinality(Ahead(d)) + 1
  <2> HIDE DEF Ahead
  <2> QED BY <1>1, <1>2
<1> HIDE DEF Ahead, place
<1>5. place \in Injection(S, 1..n)
  <2>1. ASSUME NEW d \in S, NEW e \in S, d # e
        PROVE  place[d] # place[e]
    <3>1. <<d, e>> \in R \/ <<e, d>> \in R
      BY <2>1
    <3>2. Cardinality(Ahead(d)) \in Nat /\ Cardinality(Ahead(e)) \in Nat
      BY <1>2
    <3> QED BY <1>3, <1>4, <3>1, <3>2
  <2> QED BY <1>4, <2>1 DEF Injection, IsInjective
<1>6. place \in Surjection(S, 1..n)
  <2>1. IsFiniteSet(1..n) /\ Cardinality(1..n) = n
    BY <1>1, FS_Interval
  <2> QED BY <1>5, <2>1, FS_Injection
<1>7. \A k \in 1..n : \E d \in S : place[d] = k
  BY <1>6 DEF Surjection
<1> DEFINE order == [k \in 1..n |-> CHOOSE d \in S : place[d] = k]
<1>8. order \in [1..n -> S] /\ \A k \in 1..n : place[order[k]] = k
  BY <1>7
<1>9. \A i, j \in 1..n : i < j => <<order[i], order[j]>> \in R
  <2> TAKE i, j \in 1..n
  <2> HAVE i < j
  <2>1. order[i] \in S /\ order[j] \in S /\ place[order[i]] = i /\ place[order[j]] = j
    BY <1>8
  <2> HIDE DEF order
  <2>2. order[i] # order[j]
    BY <2>1
  <2>3. <<order[j], order[i]>> \notin R
    BY <1>2, <1>3, <1>4, <2>1
  <2> QED BY <2>1, <2>2, <2>3
<1> QED BY <1>8, <1>9

\* order lists the opponents, each once.
Lists(order, n, S) ==
  /\ order \in [1..n -> S]
  /\ \A i, j \in 1..n : order[i] = order[j] => i = j
  /\ \A d \in S : \E i \in 1..n : order[i] = d

\* Opponents in the order of their constraints are such a list: whoever is void in
\* more suits comes first, and seats break ties.
LEMMA OpponentsListed ==
  ASSUME NEW view, IsSeating(view.seatOrder),
         \A d \in Opponents(view) : IsFiniteSet(view.voidSuits[d])
  PROVE  /\ IsFiniteSet(Opponents(view))
         /\ \E n \in Nat : n = Cardinality(Opponents(view)) /\ Lists(OpponentsByConstraint(view), n, Opponents(view))
<1> DEFINE S == Opponents(view)
           n == Cardinality(S)
           Before(d, e) ==
             \/ Cardinality(view.voidSuits[d]) > Cardinality(view.voidSuits[e])
             \/ /\ Cardinality(view.voidSuits[d]) = Cardinality(view.voidSuits[e])
                /\ SeatOf(view.seatOrder, d) < SeatOf(view.seatOrder, e)
           R == {x \in S \X S : Before(x[1], x[2])}
<1>1. IsFiniteSet(S)
  <2>1. IsFiniteSet(SeatsOf(view.seatOrder))
    <3>1. IsFiniteSet(1..Len(view.seatOrder))
      BY FS_Interval DEF IsSeating
    <3>2. SeatsOf(view.seatOrder) = {view.seatOrder[i] : i \in 1..Len(view.seatOrder)}
      BY DEF SeatsOf
    <3> QED BY <3>1, <3>2, SliceCounts DEF IsSeating
  <2>2. S \in SUBSET SeatsOf(view.seatOrder)
    BY DEF Opponents
  <2> QED BY <2>1, <2>2, FS_Subset
<1>2. n \in Nat
  BY <1>1, FS_CardinalityType
<1>3. \A d \in S : Cardinality(view.voidSuits[d]) \in Nat /\ SeatOf(view.seatOrder, d) \in Int
  <2> TAKE d \in S
  <2>1. view.seatOrder \in Seq(Devices) /\ d \in SeatsOf(view.seatOrder) /\ Len(view.seatOrder) \in Nat
    BY DEF IsSeating, Opponents
  <2>2. SeatOf(view.seatOrder, d) \in 0..(Len(view.seatOrder) - 1)
    BY <2>1, SeatOfSeated
  <2> QED BY <2>1, <2>2, FS_CardinalityType
<1>4. \A d, e \in S : SeatOf(view.seatOrder, d) = SeatOf(view.seatOrder, e) => d = e
  BY SeatOfSeated DEF IsSeating, Opponents
<1>5. /\ \A d \in S : ~Before(d, d)
      /\ \A d, e, f \in S : Before(d, e) /\ Before(e, f) => Before(d, f)
      /\ \A d, e \in S : d # e => Before(d, e) \/ Before(e, d)
  BY <1>3, <1>4
<1>6. \A d, e \in S : <<d, e>> \in R <=> Before(d, e)
  <2> HIDE DEF Before
  <2> QED OBVIOUS
<1>7. OpponentsByConstraint(view) =
        CHOOSE order \in [1..n -> S] : \A i, j \in DOMAIN order : i < j => Before(order[i], order[j])
  BY DEF OpponentsByConstraint
<1> HIDE DEF Before, R, S
<1>8. \E order \in [1..n -> S] : \A i, j \in 1..n : i < j => <<order[i], order[j]>> \in R
  BY <1>1, <1>5, <1>6, SortedListing
<1>9. PICK other \in [1..n -> S] : \A i, j \in 1..n : i < j => <<other[i], other[j]>> \in R
  BY <1>8
<1>10. \A i, j \in DOMAIN other : i < j => Before(other[i], other[j])
  BY <1>6, <1>9
<1> DEFINE order == OpponentsByConstraint(view)
<1>11. order \in [1..n -> S] /\ \A i, j \in DOMAIN order : i < j => Before(order[i], order[j])
  BY <1>7, <1>9, <1>10
<1> HIDE DEF order
<1>12. \A i, j \in 1..n : order[i] = order[j] => i = j
  <2> SUFFICES ASSUME NEW i \in 1..n, NEW j \in 1..n, i # j PROVE order[i] # order[j]
    OBVIOUS
  <2>1. i < j \/ j < i
    BY <1>2
  <2> QED BY <1>5, <1>11, <2>1
<1>13. order \in Surjection(1..n, S)
  <2>1. IsFiniteSet(1..n) /\ Cardinality(1..n) = n
    BY <1>2, FS_Interval
  <2>2. order \in Injection(1..n, S)
    BY <1>11, <1>12 DEF Injection, IsInjective
  <2> QED BY <1>1, <2>1, <2>2, FS_Injection
<1>14. Lists(order, n, S)
  BY <1>11, <1>12, <1>13 DEF Lists, Surjection
<1> QED BY <1>1, <1>2, <1>14 DEF order, S
-------------------------------------------------------------------------------
(* How many cards the opponents hold.                                      *)

\* There are finitely many suits and finitely many cards.
LEMMA FiniteSuits == IsFiniteSet(Suits)
<1> DEFINE n == Len(TrumpRotation)
<1>1. n \in Nat /\ IsFiniteSet(1..n)
  BY TrumpsAssumption, FS_Interval
<1>2. [i \in 1..n |-> TrumpRotation[i]] \in Surjection(1..n, Suits)
  BY DEF Suits, Surjection
<1> QED BY <1>1, <1>2, FS_Surjection

\* So there are finitely many cards.
LEMMA FiniteDeck == IsFiniteSet(Card)
<1>1. IsFiniteSet(Suits)
  BY FiniteSuits
<1>2. IsFiniteSet(Ranks)
  <2>1. 0 \in Int /\ 12 \in Int
    OBVIOUS
  <2>2. IsFiniteSet(0..12)
    BY <2>1, FS_Interval, Zenon
  <2>3. Ranks \in SUBSET (0..12)
    BY RanksAssumption
  <2> QED BY <2>2, <2>3, FS_Subset, Zenon
<1>3. IsFiniteSet(Suits \X Ranks)
  BY <1>1, <1>2, FS_Product
<1> DEFINE card == [x \in Suits \X Ranks |-> [suit |-> x[1], rank |-> x[2]]]
<1>4. \A c \in Card : /\ <<c.suit, c.rank>> \in Suits \X Ranks
                      /\ c = [suit |-> c.suit, rank |-> c.rank]
  BY DEF Card
<1>5. card \in [Suits \X Ranks -> Card] /\ \A c \in Card : \E x \in Suits \X Ranks : card[x] = c
  BY <1>4 DEF Card
<1>6. card \in Surjection(Suits \X Ranks, Card)
  BY <1>5 DEF Surjection
<1> QED BY <1>3, <1>6, FS_Surjection

\* The sizes of sets that have nothing in common add up to the size of their union.
LEMMA UnionCounts ==
  ASSUME NEW S, IsFiniteSet(S), NEW G, \A x \in S : IsFiniteSet(G[x]),
         \A x, y \in S : x # y => G[x] \cap G[y] = {},
         NEW f, \A x \in S : f[x] = Cardinality(G[x])
  PROVE  LET u == [T \in SUBSET S |-> Cardinality(UNION {G[x] : x \in T})]
         IN  TotalsOf(u, f, S)
<1> DEFINE All(T) == UNION {G[x] : x \in T}
           u == [T \in SUBSET S |-> Cardinality(All(T))]
<1>1. \A T \in SUBSET S : IsFiniteSet(All(T))
  <2> TAKE T \in SUBSET S
  <2> DEFINE parts == {G[x] : x \in T}
  <2>1. IsFiniteSet(T)
    BY FS_Subset
  <2>2. [x \in T |-> G[x]] \in Surjection(T, parts)
    BY DEF Surjection
  <2>3. IsFiniteSet(parts)
    BY <2>1, <2>2, FS_Surjection
  <2>4. \A p \in parts : IsFiniteSet(p)
    OBVIOUS
  <2> HIDE DEF parts
  <2>5. IsFiniteSet(UNION parts)
    BY <2>3, <2>4, FS_UNION
  <2> QED BY <2>5 DEF parts
<1>2. ASSUME NEW T \in SUBSET S, T # {}
      PROVE  u[T] = f[CHOOSE x \in T : TRUE] + u[T \ {CHOOSE x \in T : TRUE}]
  <2> DEFINE x == CHOOSE y \in T : TRUE
             rest == All(T \ {x})
  <2>1. x \in T
    BY <1>2
  <2> HIDE DEF x
  <2>2. All(T) = G[x] \cup rest /\ G[x] \cap rest = {}
    BY <2>1
  <2>3. IsFiniteSet(rest) /\ IsFiniteSet(G[x])
    <3>1. T \ {x} \in SUBSET S
      OBVIOUS
    <3> HIDE DEF All
    <3> QED BY <1>1, <2>1, <3>1
  <2>4. u[T] = Cardinality(All(T)) /\ u[T \ {x}] = Cardinality(rest)
    BY <2>1
  <2> HIDE DEF All, rest
  <2>5. Cardinality(G[x] \cup rest) = Cardinality(G[x]) + Cardinality(rest) - Cardinality(G[x] \cap rest)
    BY <2>3, FS_Union
  <2>6. Cardinality(G[x]) \in Nat /\ Cardinality(rest) \in Nat /\ Cardinality(G[x] \cap rest) = 0
    BY <2>2, <2>3, FS_CardinalityType, FS_EmptySet
  <2>7. u[T] = Cardinality(G[x]) + Cardinality(rest)
    BY <2>2, <2>4, <2>5, <2>6
  <2>8. f[x] = Cardinality(G[x])
    BY <2>1
  <2> HIDE DEF u
  <2> QED BY <2>4, <2>7, <2>8 DEF x
<1>3. u[{}] = 0
  <2>1. All({}) = {}
    OBVIOUS
  <2>2. u[{}] = Cardinality(All({}))
    OBVIOUS
  <2> HIDE DEF All, u
  <2> QED BY <2>1, <2>2, FS_EmptySet
<1>4. u = [T \in SUBSET S |-> u[T]]
  OBVIOUS
<1>5. TotalsOf(u, f, S)
  <2> HIDE DEF u
  <2> QED BY <1>2, <1>3, <1>4 DEF TotalsOf
<1> QED BY <1>5

\* What the opponents of a view hold is what everybody has seen allows.
Holds(view, real) ==
  /\ view.botId \in Devices /\ view.hand \subseteq Card
  /\ IsFiniteSet(Opponents(view)) /\ Opponents(view) \subseteq Devices
  /\ \A d \in Opponents(view) : /\ real[d] \subseteq Unseen(view)
                                /\ view.handCounts[d] = Cardinality(real[d])
                                /\ \A c \in real[d] : c.suit \notin view.voidSuits[d]
  /\ \A d, e \in Opponents(view) : d # e => real[d] \cap real[e] = {}

\* The opponents that are left after the first k, and what they hold.
Later(order, k) == SubSeq(order, k + 1, Len(order))
HeldLater(real, order, k, n) == UNION {real[order[i]] : i \in (k + 1)..n}

\* The later opponents are the others of the list,
LEMMA LaterLength ==
  ASSUME NEW S, NEW n \in Nat, NEW order, Lists(order, n, S), NEW k \in 0..n,
         NEW m \in Nat, m = n - k
  PROVE  Len(Later(order, k)) = m
<1>1. Len(order) = n /\ order \in Seq(S)
  BY DEF Lists
<1> QED BY <1>1 DEF Later

\* in the same order.
LEMMA LaterEntries ==
  ASSUME NEW S, NEW n \in Nat, NEW order, Lists(order, n, S), NEW k \in 0..n,
         NEW i \in 1..(n - k)
  PROVE  Later(order, k)[i] = order[k + i]
<1>1. Len(order) = n /\ order \in Seq(S)
  BY DEF Lists
<1> QED BY <1>1 DEF Later

\* Cards and hands are finite.
LEMMA FiniteHands ==
  ASSUME NEW view, NEW real, Holds(view, real)
  PROVE  /\ \A some \in SUBSET Card : IsFiniteSet(some) /\ Cardinality(some) \in Nat
         /\ Unseen(view) \subseteq Card
         /\ \A d \in Opponents(view) : /\ real[d] \in SUBSET Card /\ IsFiniteSet(real[d])
                                       /\ view.handCounts[d] \in Nat
<1>1. \A some \in SUBSET Card : IsFiniteSet(some) /\ Cardinality(some) \in Nat
  BY FiniteDeck, FS_Subset, FS_CardinalityType
<1>2. Unseen(view) \subseteq Card
  BY DEF Unseen
<1>3. \A d \in Opponents(view) : real[d] \in SUBSET Card /\ view.handCounts[d] = Cardinality(real[d])
  BY <1>2 DEF Holds
<1> QED BY <1>1, <1>2, <1>3

\* The cards that the later opponents need are the cards they hold.
LEMMA RequiredIs ==
  ASSUME NEW view, NEW real, Holds(view, real), NEW n \in Nat, NEW order,
         Lists(order, n, Opponents(view)), NEW k \in 0..n
  PROVE  Required(view, Later(order, k)) = Cardinality(HeldLater(real, order, k, n))
<1> DEFINE m == n - k
<1>0. m \in Nat /\ m = n - k
  OBVIOUS
<1> HIDE DEF m
<1>00. Len(Later(order, k)) = m /\ \A i \in 1..m : Later(order, k)[i] = order[k + i]
  <2>1. Len(Later(order, k)) = m
    BY <1>0, LaterLength
  <2>2. \A i \in 1..m : Later(order, k)[i] = order[k + i]
    BY <1>0, LaterEntries
  <2> QED BY <2>1, <2>2
<1> DEFINE later == Later(order, k)
           S == 1..m
           f == [i \in S |-> view.handCounts[order[k + i]]]
           G == [i \in S |-> real[order[k + i]]]
           u == [T \in SUBSET S |-> Cardinality(UNION {G[x] : x \in T})]
           Eq(t) == t = [T \in SUBSET S |->
                           IF T = {} THEN 0
                           ELSE view.handCounts[later[CHOOSE x \in T : TRUE]] + t[T \ {CHOOSE x \in T : TRUE}]]
<1>1. (\A i \in S : later[i] = order[k + i]) /\ Len(later) = m /\ m \in Nat
  BY <1>0, <1>00
<1>2. IsFiniteSet(S)
  BY <1>1, FS_Interval
<1>3. \A i \in S : order[k + i] \in Opponents(view) /\ k + i \in 1..n
  BY <1>0 DEF Lists
<1>4. \A i \in S : IsFiniteSet(G[i]) /\ f[i] = Cardinality(G[i])
  BY <1>3, FiniteHands DEF Holds
<1>5. \A i, j \in S : i # j => G[i] \cap G[j] = {}
  <2> TAKE i, j \in S
  <2> HAVE i # j
  <2>1. k + i # k + j
    OBVIOUS
  <2>2. order[k + i] # order[k + j]
    BY <1>3, <2>1 DEF Lists
  <2> QED BY <1>3, <2>2 DEF Holds
<1>6. Required(view, later) = (CHOOSE t : Eq(t))[S]
  BY <1>1 DEF Required, MapThenSumSet, MapThenFoldSet
<1>7. \A T \in SUBSET S : T # {} => view.handCounts[later[CHOOSE x \in T : TRUE]] = f[CHOOSE x \in T : TRUE]
  <2> TAKE T \in SUBSET S
  <2> HAVE T # {}
  <2> DEFINE x == CHOOSE y \in T : TRUE
  <2>1. x \in S
    OBVIOUS
  <2> HIDE DEF x
  <2>2. view.handCounts[later[x]] = f[x]
    BY <1>1, <2>1
  <2> QED BY <2>2 DEF x
<1>8. \A t : Eq(t) <=> TotalsOf(t, f, S)
  <2> TAKE t
  <2>1. [T \in SUBSET S |-> IF T = {} THEN 0
                            ELSE view.handCounts[later[CHOOSE x \in T : TRUE]] + t[T \ {CHOOSE x \in T : TRUE}]]
        = [T \in SUBSET S |-> IF T = {} THEN 0
                            ELSE f[CHOOSE x \in T : TRUE] + t[T \ {CHOOSE x \in T : TRUE}]]
    <3> HIDE DEF f, later, S
    <3> QED BY <1>7
  <2> QED BY <2>1 DEF TotalsOf
<1>9. u[S] = Cardinality(UNION {G[x] : x \in S})
  OBVIOUS
<1>10. UNION {G[x] : x \in S} = HeldLater(real, order, k, n)
  <2>1. \A j \in (k + 1)..n : j - k \in S /\ G[j - k] = real[order[j]]
    BY <1>0
  <2>2. \A i \in S : k + i \in (k + 1)..n /\ G[i] = real[order[k + i]]
    BY <1>0
  <2> HIDE DEF G, S
  <2> QED BY <2>1, <2>2 DEF HeldLater
<1> HIDE DEF Eq, f, G, S, later
<1>11. TotalsOf(u, f, S)
  BY <1>2, <1>4, <1>5, UnionCounts
<1> HIDE DEF u
<1>12. TotalsOf(CHOOSE t : Eq(t), f, S)
  BY <1>8, <1>11
<1>13. (CHOOSE t : Eq(t)) = u
  BY <1>2, <1>11, <1>12, TotalsUnique
<1>14. Required(view, later) = Cardinality(HeldLater(real, order, k, n))
  BY <1>6, <1>9, <1>10, <1>13
<1> QED BY <1>14 DEF later

\* What assignmentsFeasible asks for the opponents after the first k.
LEMMA FeasibleIs ==
  ASSUME NEW view, NEW real, Holds(view, real), NEW n \in Nat, NEW order,
         Lists(order, n, Opponents(view)), NEW k \in 0..n, NEW some
  PROVE  AssignmentsFeasible(view, some, Later(order, k))
         <=> /\ Cardinality(some) >= Cardinality(HeldLater(real, order, k, n))
             /\ \A i \in (k + 1)..n :
                  Cardinality(Eligible(view, order[i], some)) >= view.handCounts[order[i]]
<1> DEFINE m == n - k
           later == Later(order, k)
           Enough(d) == Cardinality(Eligible(view, d, some)) >= view.handCounts[d]
<1>0. m \in Nat /\ m = n - k
  OBVIOUS
<1> HIDE DEF m
<1>1. Len(later) = m
  BY <1>0, LaterLength
<1>2. \A i \in 1..m : later[i] = order[k + i]
  <2> TAKE i \in 1..m
  <2>1. i \in 1..(n - k)
    BY <1>0
  <2> QED BY <2>1, LaterEntries
<1>3. Required(view, later) = Cardinality(HeldLater(real, order, k, n))
  BY RequiredIs
<1> HIDE DEF later
<1>4. (\A i \in 1..m : Enough(later[i])) <=> \A i \in (k + 1)..n : Enough(order[i])
  <2>1. \A i \in (k + 1)..n : i - k \in 1..m /\ later[i - k] = order[i]
    BY <1>0, <1>2
  <2>2. \A i \in 1..m : k + i \in (k + 1)..n /\ later[i] = order[k + i]
    BY <1>0, <1>2
  <2> HIDE DEF Enough
  <2> QED BY <2>1, <2>2
<1>5. AssignmentsFeasible(view, some, later)
      <=> Cardinality(some) >= Required(view, later) /\ \A i \in 1..m : Enough(later[i])
  BY <1>1 DEF AssignmentsFeasible
<1> HIDE DEF Enough
<1>6. AssignmentsFeasible(view, some, later)
      <=> /\ Cardinality(some) >= Cardinality(HeldLater(real, order, k, n))
          /\ \A i \in (k + 1)..n : Enough(order[i])
  BY <1>3, <1>4, <1>5
<1> QED BY <1>6 DEF later, Enough

\* With more cards it stays feasible.
LEMMA FeasibleWithMore ==
  ASSUME NEW view, NEW real, Holds(view, real), NEW n \in Nat, NEW order,
         Lists(order, n, Opponents(view)), NEW k \in 0..n,
         NEW some \in SUBSET Card, NEW more \in SUBSET Card, some \subseteq more,
         AssignmentsFeasible(view, some, Later(order, k))
  PROVE  AssignmentsFeasible(view, more, Later(order, k))
<1>1. /\ Cardinality(some) >= Cardinality(HeldLater(real, order, k, n))
      /\ \A i \in (k + 1)..n :
           Cardinality(Eligible(view, order[i], some)) >= view.handCounts[order[i]]
  BY FeasibleIs
<1>2. \A a, b \in SUBSET Card : a \subseteq b => /\ Cardinality(a) <= Cardinality(b)
                                                /\ Cardinality(a) \in Nat /\ Cardinality(b) \in Nat
  <2> TAKE a, b \in SUBSET Card
  <2> HAVE a \subseteq b
  <2>1. IsFiniteSet(b) /\ Cardinality(a) \in Nat /\ Cardinality(b) \in Nat /\ a \in SUBSET b
    BY FiniteHands
  <2> QED BY <2>1, FS_Subset
<1>3. Cardinality(HeldLater(real, order, k, n)) \in Nat
  <2>1. \A i \in (k + 1)..n : real[order[i]] \in SUBSET Card
    <3> TAKE i \in (k + 1)..n
    <3>1. order[i] \in Opponents(view)
      BY DEF Lists
    <3> QED BY <3>1, FiniteHands
  <2>2. HeldLater(real, order, k, n) \in SUBSET Card
    BY <2>1 DEF HeldLater
  <2> QED BY <2>2, FiniteHands
<1>4. Cardinality(more) >= Cardinality(HeldLater(real, order, k, n))
  BY <1>1, <1>2, <1>3
<1>5. ASSUME NEW i \in (k + 1)..n
      PROVE  Cardinality(Eligible(view, order[i], more)) >= view.handCounts[order[i]]
  <2>1. order[i] \in Opponents(view)
    BY DEF Lists
  <2>2. view.handCounts[order[i]] \in Nat
    BY <2>1, FiniteHands
  <2> DEFINE a == Eligible(view, order[i], some)
             b == Eligible(view, order[i], more)
  <2>3. a \in SUBSET Card /\ b \in SUBSET Card /\ a \subseteq b
    BY DEF Eligible
  <2>4. Cardinality(a) >= view.handCounts[order[i]]
    BY <1>1
  <2> HIDE DEF a, b
  <2>5. Cardinality(b) >= view.handCounts[order[i]]
    BY <1>2, <2>2, <2>3, <2>4
  <2> QED BY <2>5 DEF b
<1> QED BY <1>4, <1>5, FeasibleIs

\* It stays feasible for the others when one more opponent is left out.
LEMMA FeasibleForFewer ==
  ASSUME NEW view, NEW real, Holds(view, real), NEW n \in Nat, NEW order,
         Lists(order, n, Opponents(view)), NEW k \in 1..n, NEW some \in SUBSET Card,
         AssignmentsFeasible(view, some, Later(order, k - 1))
  PROVE  AssignmentsFeasible(view, some, Later(order, k))
<1> DEFINE j == k - 1
           Held(i) == HeldLater(real, order, i, n)
<1>1. j \in 0..n /\ k \in 0..n /\ k = j + 1
  OBVIOUS
<1> HIDE DEF j
<1>2. AssignmentsFeasible(view, some, Later(order, j))
  BY DEF j
<1>3. /\ Cardinality(some) >= Cardinality(Held(j))
      /\ \A i \in (j + 1)..n :
           Cardinality(Eligible(view, order[i], some)) >= view.handCounts[order[i]]
  BY <1>1, <1>2, FeasibleIs
<1>4. Held(j) \in SUBSET Card /\ Held(k) \in SUBSET Held(j)
  <2>1. \A i \in (j + 1)..n : real[order[i]] \in SUBSET Card
    <3> TAKE i \in (j + 1)..n
    <3>1. order[i] \in Opponents(view)
      BY <1>1 DEF Lists
    <3> QED BY <3>1, FiniteHands
  <2>2. \A i \in (k + 1)..n : i \in (j + 1)..n
    BY <1>1
  <2> QED BY <2>1, <2>2 DEF HeldLater
<1> HIDE DEF Held
<1>5. IsFiniteSet(Held(j)) /\ Cardinality(Held(j)) \in Nat /\ Cardinality(some) \in Nat
  BY <1>4, FiniteHands
<1>6. Cardinality(Held(k)) <= Cardinality(Held(j)) /\ Cardinality(Held(k)) \in Nat
  BY <1>4, <1>5, FS_Subset, FS_CardinalityType
<1>7. Cardinality(some) >= Cardinality(Held(k))
  BY <1>3, <1>5, <1>6
<1>8. \A i \in (k + 1)..n :
        Cardinality(Eligible(view, order[i], some)) >= view.handCounts[order[i]]
  BY <1>1, <1>3
<1> QED BY <1>1, <1>7, <1>8, FeasibleIs DEF Held

\* What the later opponents hold makes it feasible.
LEMMA RealIsFeasible ==
  ASSUME NEW view, NEW real, Holds(view, real), NEW n \in Nat, NEW order,
         Lists(order, n, Opponents(view)), NEW k \in 0..n, NEW some \in SUBSET Card,
         HeldLater(real, order, k, n) \subseteq some
  PROVE  AssignmentsFeasible(view, some, Later(order, k))
<1> DEFINE held == HeldLater(real, order, k, n)
<1>1. IsFiniteSet(some) /\ held \in SUBSET some
  BY FiniteHands
<1>2. held \in SUBSET Card
  BY <1>1
<1>3. Cardinality(some) \in Nat /\ Cardinality(held) \in Nat
  BY <1>1, <1>2, FiniteHands
<1>4. Cardinality(some) >= Cardinality(held)
  <2> HIDE DEF held
  <2> QED BY <1>1, <1>3, FS_Subset
<1>5. ASSUME NEW i \in (k + 1)..n
      PROVE  Cardinality(Eligible(view, order[i], some)) >= view.handCounts[order[i]]
  <2>1. order[i] \in Opponents(view)
    BY DEF Lists
  <2> DEFINE hand == real[order[i]]
             eligible == Eligible(view, order[i], some)
  <2>2. hand \subseteq some
    BY <1>5 DEF HeldLater
  <2>3. view.handCounts[order[i]] = Cardinality(hand) /\ \A c \in hand : c.suit \notin view.voidSuits[order[i]]
    BY <2>1 DEF Holds
  <2>4. hand \in SUBSET eligible /\ eligible \in SUBSET Card
    BY <2>2, <2>3 DEF Eligible
  <2> HIDE DEF hand, eligible
  <2>5. IsFiniteSet(eligible) /\ Cardinality(eligible) \in Nat /\ hand \in SUBSET Card
    BY <2>4, FiniteHands
  <2>6. Cardinality(hand) \in Nat /\ Cardinality(hand) <= Cardinality(eligible)
    BY <2>4, <2>5, FiniteHands, FS_Subset
  <2> QED BY <2>3, <2>5, <2>6 DEF eligible
<1> QED BY <1>4, <1>5, FeasibleIs

-------------------------------------------------------------------------------
(* Partial deals.                                                          *)

Deals == [to : UNION {[T -> SUBSET Card] : T \in SUBSET Devices}, rest : SUBSET Card]
HasAlready(deal, d) == IF d \in DOMAIN deal.to THEN deal.to[d] ELSE {}

\* A deal gives cards to the players in its domain.
LEMMA DealIs ==
  ASSUME NEW deal \in Deals
  PROVE  /\ deal.rest \in SUBSET Card /\ DOMAIN deal.to \in SUBSET Devices
         /\ \A d : HasAlready(deal, d) \in SUBSET Card
         /\ deal.to = [d \in DOMAIN deal.to |-> deal.to[d]]
         /\ deal = [to |-> deal.to, rest |-> deal.rest]
<1>1. deal.to \in UNION {[T -> SUBSET Card] : T \in SUBSET Devices} /\ deal.rest \in SUBSET Card
  BY DEF Deals
<1>2. PICK T \in SUBSET Devices : deal.to \in [T -> SUBSET Card]
  BY <1>1
<1>3. deal = [to |-> deal.to, rest |-> deal.rest]
  BY DEF Deals
<1> QED BY <1>1, <1>2, <1>3 DEF HasAlready

\* Giving cards changes one hand and the rest.
LEMMA GiveIs ==
  ASSUME NEW deal \in Deals, NEW d \in Devices, NEW cards \in SUBSET Card, NEW next,
         next = Give(deal, d, cards)
  PROVE  /\ next \in Deals
         /\ DOMAIN next.to = DOMAIN deal.to \cup {d} /\ next.rest = deal.rest \ cards
         /\ next.to[d] = cards \cup HasAlready(deal, d)
         /\ \A e \in DOMAIN deal.to : e # d => next.to[e] = deal.to[e]
<1>1. next = [to |-> [e \in DOMAIN deal.to \cup {d} |->
                        IF e = d THEN cards \cup HasAlready(deal, d) ELSE deal.to[e]],
              rest |-> deal.rest \ cards]
  BY DEF Give, HasAlready
<1>2. DOMAIN deal.to \cup {d} \in SUBSET Devices
  BY DealIs
<1>3. \A e \in DOMAIN deal.to : deal.to[e] \in SUBSET Card
  BY DealIs DEF HasAlready
<1>4. cards \cup HasAlready(deal, d) \in SUBSET Card /\ deal.rest \ cards \in SUBSET Card
  BY DealIs
<1> DEFINE T == DOMAIN deal.to \cup {d}
           to == [e \in T |-> IF e = d THEN cards \cup HasAlready(deal, d) ELSE deal.to[e]]
<1>5. to \in [T -> SUBSET Card]
  BY <1>3, <1>4
<1>6. to \in UNION {[U -> SUBSET Card] : U \in SUBSET Devices}
  <2> HIDE DEF to, T
  <2> QED BY <1>2, <1>5 DEF T
<1>7. next \in Deals
  <2> HIDE DEF to
  <2>1. next = [to |-> to, rest |-> deal.rest \ cards]
    BY <1>1 DEF to
  <2> QED BY <1>4, <1>6, <2>1 DEF Deals
<1> QED BY <1>1, <1>7

\* What is given in two parts is given at once.
LEMMA GiveMore ==
  ASSUME NEW deal \in Deals, NEW d \in Devices, NEW p \in SUBSET Card, NEW q \in SUBSET Card
  PROVE  Give(Give(deal, d, p), d, q) = Give(deal, d, p \cup q)
<1> DEFINE first == Give(deal, d, p)
           both == Give(first, d, q)
           once == Give(deal, d, p \cup q)
           T == DOMAIN deal.to \cup {d}
<1>1. /\ first \in Deals /\ DOMAIN first.to = T /\ first.rest = deal.rest \ p
      /\ first.to[d] = p \cup HasAlready(deal, d)
      /\ \A e \in DOMAIN deal.to : e # d => first.to[e] = deal.to[e]
  BY GiveIs
<1> HIDE DEF first
<1>2. /\ both \in Deals /\ DOMAIN both.to = T \cup {d} /\ both.rest = first.rest \ q
      /\ both.to[d] = q \cup HasAlready(first, d)
      /\ \A e \in T : e # d => both.to[e] = first.to[e]
  BY <1>1, GiveIs
<1>3. p \cup q \in SUBSET Card
  OBVIOUS
<1>4. /\ once \in Deals /\ DOMAIN once.to = T /\ once.rest = deal.rest \ (p \cup q)
      /\ once.to[d] = (p \cup q) \cup HasAlready(deal, d)
      /\ \A e \in DOMAIN deal.to : e # d => once.to[e] = deal.to[e]
  BY <1>3, GiveIs
<1> HIDE DEF both, once
<1>5. both.rest = once.rest
  BY <1>1, <1>2, <1>4
<1>6. both.to = once.to
  <2>1. HasAlready(first, d) = first.to[d]
    BY <1>1 DEF HasAlready
  <2>2. both.to[d] = once.to[d]
    BY <1>1, <1>2, <1>4, <2>1
  <2>3. \A e \in T : e # d => both.to[e] = once.to[e]
    BY <1>1, <1>2, <1>4
  <2>4. DOMAIN both.to = T /\ DOMAIN once.to = T
    BY <1>2, <1>4
  <2>5. both.to = [e \in T |-> both.to[e]] /\ once.to = [e \in T |-> once.to[e]]
    BY <1>2, <1>4, <2>4, DealIs
  <2> HIDE DEF T
  <2>6. \A e \in T : both.to[e] = once.to[e]
    BY <2>2, <2>3
  <2>7. [e \in T |-> both.to[e]] = [e \in T |-> once.to[e]]
    BY <2>6
  <2> QED BY <2>5, <2>7
<1>7. both = once
  BY <1>2, <1>4, <1>5, <1>6, DealIs
<1> QED BY <1>7 DEF both, once, first

-------------------------------------------------------------------------------
(* Drawing a hand card by card.                                            *)

\* The cards that sampleOpponentHands may draw next, and what i draws can have drawn.
Viable(view, order, deal, k) ==
  {c \in Eligible(view, order[k], deal.rest) :
     AssignmentsFeasible(view, deal.rest \ {c}, Later(order, k))}
Picks(view, order, deal, k, i) ==
  {p \in kSubset(i, Eligible(view, order[k], deal.rest)) :
     i > 0 => AssignmentsFeasible(view, deal.rest \ p, Later(order, k))}
DrawStep(view, order, x, k) ==
  UNION {{Give(deal, order[k], {c}) : c \in Viable(view, order, deal, k)} : deal \in x}
Drawn(view, order, x, k, i) ==
  UNION {{Give(deal, order[k], p) : p \in Picks(view, order, deal, k, i)} : deal \in x}

\* A draw adds a card to what was drawn, and every set can be drawn card by card.
LEMMA PicksGrow ==
  ASSUME NEW view, NEW real, Holds(view, real), NEW n \in Nat, NEW order,
         Lists(order, n, Opponents(view)), NEW k \in 1..n, NEW deal \in Deals,
         NEW i \in Nat, NEW j \in Nat, i = j + 1
  PROVE  /\ \A p \in Picks(view, order, deal, k, j) :
              \A c \in Viable(view, order, Give(deal, order[k], p), k) :
                 p \cup {c} \in Picks(view, order, deal, k, i)
         /\ \A q \in Picks(view, order, deal, k, i) :
              \E p \in Picks(view, order, deal, k, j) :
                \E c \in Viable(view, order, Give(deal, order[k], p), k) : q = p \cup {c}
<1> DEFINE d == order[k]
           eligible == Eligible(view, d, deal.rest)
           Left(some) == AssignmentsFeasible(view, some, Later(order, k))
<1>1. d \in Devices /\ deal.rest \in SUBSET Card /\ eligible \in SUBSET deal.rest /\ k \in 0..n
  <2>1. d \in Opponents(view) /\ k \in 0..n
    BY DEF Lists
  <2>2. d \in Devices
    BY <2>1 DEF Holds
  <2>3. deal.rest \in SUBSET Card
    BY DealIs
  <2>4. eligible \in SUBSET deal.rest
    BY DEF Eligible
  <2> QED BY <2>1, <2>2, <2>3, <2>4
<1>2. \A p : p \in Picks(view, order, deal, k, j)
             <=> p \in SUBSET eligible /\ Cardinality(p) = j /\ (j > 0 => Left(deal.rest \ p))
  BY DEF Picks, kSubset
<1>3. \A p : p \in Picks(view, order, deal, k, i)
             <=> p \in SUBSET eligible /\ Cardinality(p) = i /\ Left(deal.rest \ p)
  BY DEF Picks, kSubset
<1>4. \A p \in SUBSET eligible : \A c :
        c \in Viable(view, order, Give(deal, d, p), k)
        <=> c \in eligible /\ c \notin p /\ Left(deal.rest \ (p \cup {c}))
  <2> TAKE p \in SUBSET eligible
  <2> TAKE c
  <2> DEFINE next == Give(deal, d, p)
  <2>1. next.rest = deal.rest \ p
    BY <1>1, GiveIs
  <2>2. next.rest \ {c} = deal.rest \ (p \cup {c})
    BY <2>1
  <2> HIDE DEF next
  <2>3. c \in Viable(view, order, next, k) <=> c \in Eligible(view, d, next.rest) /\ Left(next.rest \ {c})
    BY DEF Viable
  <2>4. c \in Eligible(view, d, next.rest) <=> c \in eligible /\ c \notin p
    BY <2>1 DEF Eligible
  <2> HIDE DEF Left, eligible, d
  <2>5. c \in Viable(view, order, next, k) <=> c \in eligible /\ c \notin p /\ Left(deal.rest \ (p \cup {c}))
    BY <2>2, <2>3, <2>4
  <2> QED BY <2>5 DEF next
<1>5. \A a, b \in SUBSET deal.rest : a \subseteq b /\ Left(deal.rest \ b) => Left(deal.rest \ a)
  <2> TAKE a, b \in SUBSET deal.rest
  <2> HAVE a \subseteq b /\ Left(deal.rest \ b)
  <2> DEFINE some == deal.rest \ b
             more == deal.rest \ a
  <2>1. some \in SUBSET Card /\ more \in SUBSET Card /\ some \subseteq more
    BY <1>1
  <2> HIDE DEF some, more
  <2>2. AssignmentsFeasible(view, some, Later(order, k))
    BY DEF some
  <2>3. AssignmentsFeasible(view, more, Later(order, k))
    BY <1>1, <2>1, <2>2, FeasibleWithMore
  <2> QED BY <2>3 DEF more
<1>6. \A p \in SUBSET eligible : IsFiniteSet(p) /\ Cardinality(p) \in Nat
  BY <1>1, FiniteHands
<1> HIDE DEF Left, eligible
<1>7. ASSUME NEW p \in Picks(view, order, deal, k, j),
             NEW c \in Viable(view, order, Give(deal, d, p), k)
      PROVE  p \cup {c} \in Picks(view, order, deal, k, i)
  <2>1. p \in SUBSET eligible /\ Cardinality(p) = j
    BY <1>2
  <2>2. c \in eligible /\ c \notin p /\ Left(deal.rest \ (p \cup {c}))
    BY <1>4, <2>1
  <2>3. Cardinality(p \cup {c}) = j + 1
    BY <1>6, <2>1, <2>2, FS_AddElement
  <2>4. p \cup {c} \in SUBSET eligible
    BY <2>1, <2>2
  <2> QED BY <1>3, <2>2, <2>3, <2>4
<1>8. ASSUME NEW q \in Picks(view, order, deal, k, i)
      PROVE  \E p \in Picks(view, order, deal, k, j) :
               \E c \in Viable(view, order, Give(deal, d, p), k) : q = p \cup {c}
  <2>1. q \in SUBSET eligible /\ Cardinality(q) = j + 1 /\ Left(deal.rest \ q)
    BY <1>3
  <2>2. q # {}
    BY <2>1, FS_EmptySet
  <2>3. PICK c : c \in q
    BY <2>2
  <2> DEFINE p == q \ {c}
  <2>4. p \in SUBSET eligible /\ q = p \cup {c} /\ c \notin p /\ c \in eligible /\ p \subseteq q
    BY <2>1, <2>3
  <2>5. Cardinality(p) = j
    BY <1>6, <2>1, <2>3, FS_RemoveElement
  <2> HIDE DEF p
  <2>6. p \in SUBSET deal.rest /\ q \in SUBSET deal.rest
    BY <1>1, <2>1, <2>4
  <2>7. Left(deal.rest \ p)
    BY <1>5, <2>1, <2>4, <2>6
  <2>8. p \in Picks(view, order, deal, k, j)
    BY <1>2, <2>4, <2>5, <2>7
  <2>9. c \in Viable(view, order, Give(deal, d, p), k)
    BY <1>4, <2>1, <2>4
  <2> QED BY <2>4, <2>8, <2>9
<1> QED BY <1>7, <1>8 DEF d

\* One more draw.
LEMMA OneMoreDraw ==
  ASSUME NEW view, NEW real, Holds(view, real), NEW n \in Nat, NEW order,
         Lists(order, n, Opponents(view)), NEW k \in 1..n, NEW x \in SUBSET Deals,
         NEW i \in Nat, NEW j \in Nat, i = j + 1
  PROVE  DrawStep(view, order, Drawn(view, order, x, k, j), k) = Drawn(view, order, x, k, i)
<1> DEFINE d == order[k]
           P(deal, m) == Picks(view, order, deal, k, m)
           V(deal) == Viable(view, order, deal, k)
<1>1. d \in Devices
  BY DEF Lists, Holds
<1>2. \A deal \in x : /\ \A p \in P(deal, j) : \A c \in V(Give(deal, d, p)) : p \cup {c} \in P(deal, i)
                      /\ \A q \in P(deal, i) : \E p \in P(deal, j) :
                           \E c \in V(Give(deal, d, p)) : q = p \cup {c}
  <2> TAKE deal \in x
  <2>1. deal \in Deals
    OBVIOUS
  <2>2. \A p \in Picks(view, order, deal, k, j) :
          \A c \in Viable(view, order, Give(deal, order[k], p), k) :
             p \cup {c} \in Picks(view, order, deal, k, i)
    BY <2>1, PicksGrow
  <2>3. \A q \in Picks(view, order, deal, k, i) :
          \E p \in Picks(view, order, deal, k, j) :
             \E c \in Viable(view, order, Give(deal, order[k], p), k) : q = p \cup {c}
    BY <2>1, PicksGrow
  <2> QED BY <2>2, <2>3
<1>3. ASSUME NEW deal \in x, NEW p \in P(deal, j), NEW c \in V(Give(deal, d, p))
      PROVE  Give(Give(deal, d, p), d, {c}) = Give(deal, d, p \cup {c})
  <2>1. deal \in Deals
    OBVIOUS
  <2>2. p \in SUBSET Card
    <3>1. deal.rest \in SUBSET Card
      BY <2>1, DealIs
    <3> QED BY <3>1 DEF Picks, kSubset, Eligible
  <2>3. {c} \in SUBSET Card
    <3>1. Give(deal, d, p) \in Deals
      BY <1>1, <2>1, <2>2, GiveIs
    <3>2. Give(deal, d, p).rest \in SUBSET Card
      BY <3>1, DealIs
    <3> QED BY <3>2 DEF Viable, Eligible
  <2> QED BY <1>1, <2>1, <2>2, <2>3, GiveMore
<1>4. \A y : y \in Drawn(view, order, x, k, j) <=> \E deal \in x : \E p \in P(deal, j) : y = Give(deal, d, p)
  BY DEF Drawn
<1>5. \A y : y \in Drawn(view, order, x, k, i) <=> \E deal \in x : \E q \in P(deal, i) : y = Give(deal, d, q)
  BY DEF Drawn
<1>6. \A X, y : y \in DrawStep(view, order, X, k) <=> \E z \in X : \E c \in V(z) : y = Give(z, d, {c})
  <2> TAKE X, y
  <2> DEFINE from(z) == {Give(z, order[k], {c}) : c \in Viable(view, order, z, k)}
  <2>1. \A z : y \in from(z) <=> \E c \in V(z) : y = Give(z, d, {c})
    OBVIOUS
  <2>2. DrawStep(view, order, X, k) = UNION {from(z) : z \in X}
    BY DEF DrawStep
  <2> HIDE DEF from, V, d
  <2> QED BY <2>1, <2>2
<1> HIDE DEF P, V, d
<1>7. ASSUME NEW y \in DrawStep(view, order, Drawn(view, order, x, k, j), k)
      PROVE  y \in Drawn(view, order, x, k, i)
  <2>1. PICK z \in Drawn(view, order, x, k, j) : \E c \in V(z) : y = Give(z, d, {c})
    BY <1>6, ZenonT(30)
  <2>2. PICK c \in V(z) : y = Give(z, d, {c})
    BY <2>1
  <2>3. PICK deal \in x : \E p \in P(deal, j) : z = Give(deal, d, p)
    BY <1>4
  <2>4. PICK p \in P(deal, j) : z = Give(deal, d, p)
    BY <2>3
  <2>5. y = Give(deal, d, p \cup {c})
    BY <1>3, <2>2, <2>4
  <2>6. p \cup {c} \in P(deal, i)
    BY <1>2, <2>2, <2>4
  <2> QED BY <1>5, <2>5, <2>6
<1>8. ASSUME NEW y \in Drawn(view, order, x, k, i)
      PROVE  y \in DrawStep(view, order, Drawn(view, order, x, k, j), k)
  <2>1. PICK deal \in x : \E q \in P(deal, i) : y = Give(deal, d, q)
    BY <1>5
  <2>2. PICK q \in P(deal, i) : y = Give(deal, d, q)
    BY <2>1
  <2>3. PICK p \in P(deal, j) : \E c \in V(Give(deal, d, p)) : q = p \cup {c}
    BY <1>2, <2>2
  <2>4. PICK c \in V(Give(deal, d, p)) : q = p \cup {c}
    BY <2>3
  <2>5. y = Give(Give(deal, d, p), d, {c})
    BY <1>3, <2>2, <2>4
  <2>6. Give(deal, d, p) \in Drawn(view, order, x, k, j)
    BY <1>4
  <2> QED BY <1>6, <2>4, <2>5, <2>6
<1> QED BY <1>7, <1>8

\* So a hand that is drawn card by card is any set of cards that leaves the later
\* opponents enough: sampleOpponentHands fills a hand like that.
FillStep(view, order, x, k) ==
  FoldLeft(LAMBDA ds, j : DrawStep(view, order, ds, j),
           {Give(deal, order[k], {}) : deal \in x}, [i \in 1..view.handCounts[order[k]] |-> k])

\* By induction over the draws.
LEMMA FillIs ==
  ASSUME NEW view, NEW real, Holds(view, real), NEW n \in Nat, NEW order,
         Lists(order, n, Opponents(view)), NEW k \in 1..n, NEW x \in SUBSET Deals
  PROVE  FillStep(view, order, x, k) = Drawn(view, order, x, k, view.handCounts[order[k]])
<1> DEFINE m == view.handCounts[order[k]]
           base == {Give(deal, order[k], {}) : deal \in x}
           Got(i) == Drawn(view, order, x, k, i)
           Eq(f) == f = [T \in SUBSET (1..m) |->
                           IF T = {} THEN base
                           ELSE DrawStep(view, order, f[T \ {Max(T)}], [i \in 1..m |-> k][Max(T)])]
<1>1. m \in Nat
  <2>1. order[k] \in Opponents(view)
    BY DEF Lists
  <2> QED BY <2>1, FiniteHands
<1>2. FillStep(view, order, x, k) = (CHOOSE f : Eq(f))[1..m]
  BY DEF FillStep, FoldLeft, MapThenFoldSet
<1>3. Got(0) = base
  <2>1. \A deal \in x : Picks(view, order, deal, k, 0) = {{}}
    <3> TAKE deal \in x
    <3>1. \A p \in SUBSET Eligible(view, order[k], deal.rest) : Cardinality(p) = 0 <=> p = {}
      <4>1. deal.rest \in SUBSET Card
        BY DealIs
      <4>2. \A p \in SUBSET Eligible(view, order[k], deal.rest) : IsFiniteSet(p)
        BY <4>1, FiniteHands DEF Eligible
      <4> QED BY <4>2, FS_EmptySet
    <3> QED BY <3>1 DEF Picks, kSubset
  <2>2. \A y : y \in Got(0) <=> \E deal \in x : \E p \in Picks(view, order, deal, k, 0) : y = Give(deal, order[k], p)
    BY DEF Drawn
  <2>3. \A y : y \in base <=> \E deal \in x : y = Give(deal, order[k], {})
    OBVIOUS
  <2> HIDE DEF base, Got
  <2> QED BY <2>1, <2>2, <2>3, ZenonT(30)
<1>4. \A i \in 1..m : Got(i) = DrawStep(view, order, Got(i - 1), k)
  <2> TAKE i \in 1..m
  <2>1. i \in Nat /\ i - 1 \in Nat /\ i = (i - 1) + 1
    BY <1>1
  <2> QED BY <2>1, OneMoreDraw
<1> HIDE DEF m, base, Got
<1>5. \A T \in SUBSET (1..m) : T # {} => Max(T) \in T /\ Max(T) \in 1..m
  BY <1>1, LastPosition
<1>6. \A T \in SUBSET (1..m) : IsFiniteSet(T) /\ Cardinality(T) \in 0..m
  <2> TAKE T \in SUBSET (1..m)
  <2>1. IsFiniteSet(1..m) /\ Cardinality(1..m) = m
    BY <1>1, FS_Interval
  <2>2. IsFiniteSet(T) /\ Cardinality(T) <= m
    BY <2>1, FS_Subset
  <2> QED BY <1>1, <2>2, FS_CardinalityType
<1> DEFINE g == [T \in SUBSET (1..m) |-> Got(Cardinality(T))]
<1>7. Eq(g)
  <2>1. ASSUME NEW T \in SUBSET (1..m), T # {}
        PROVE  g[T] = DrawStep(view, order, g[T \ {Max(T)}], [i \in 1..m |-> k][Max(T)])
    <3>1. Max(T) \in T /\ Max(T) \in 1..m /\ T \ {Max(T)} \in SUBSET (1..m)
      BY <1>5, <2>1
    <3>2. Cardinality(T \ {Max(T)}) = Cardinality(T) - 1
      BY <1>6, <3>1, FS_RemoveElement
    <3>3. Cardinality(T) \in 1..m
      <4>1. Cardinality(T) # 0
        BY <1>6, <2>1, FS_EmptySet
      <4> QED BY <1>1, <1>6, <4>1
    <3>4. g[T] = Got(Cardinality(T)) /\ g[T \ {Max(T)}] = Got(Cardinality(T) - 1)
      BY <3>1, <3>2
    <3>5. [i \in 1..m |-> k][Max(T)] = k
      BY <3>1
    <3> HIDE DEF g
    <3> QED BY <1>4, <3>3, <3>4, <3>5
  <2>2. g[{}] = base
    <3>1. g[{}] = Got(Cardinality({}))
      OBVIOUS
    <3> HIDE DEF g
    <3> QED BY <1>3, <3>1, FS_EmptySet
  <2>3. g = [T \in SUBSET (1..m) |-> g[T]]
    OBVIOUS
  <2> HIDE DEF g
  <2> QED BY <2>1, <2>2, <2>3
<1> DEFINE h == CHOOSE f : Eq(f)
<1>8. Eq(h)
  <2> HIDE DEF g, Eq
  <2> QED BY <1>7
<1>9. /\ h[{}] = base
      /\ \A T \in SUBSET (1..m) : T # {} =>
           h[T] = DrawStep(view, order, h[T \ {Max(T)}], [i \in 1..m |-> k][Max(T)])
  <2>1. {} \in SUBSET (1..m)
    OBVIOUS
  <2> HIDE DEF h
  <2> QED BY <1>8, <2>1
<1> HIDE DEF h, Eq, g
<1> DEFINE G == {i \in 0..m : h[1..i] = Got(i)}
<1>10. 0 \in G
  <2>1. 1..0 = {} /\ 0 \in 0..m
    BY <1>1
  <2> QED BY <1>3, <1>9, <2>1
<1>11. ASSUME NEW i \in 1..m, i - 1 \in G
       PROVE  i \in G
  <2>1. h[1..(i - 1)] = Got(i - 1) /\ i \in 0..m
    BY <1>11
  <2> DEFINE first == 1..i
  <2>2. first \in SUBSET (1..m) /\ first # {} /\ Max(first) = i /\ first \ {i} = 1..(i - 1)
    BY <1>1, FirstPositions
  <2> HIDE DEF first
  <2>3. h[first] = DrawStep(view, order, h[first \ {Max(first)}], [l \in 1..m |-> k][Max(first)])
    BY <1>9, <2>2
  <2>4. h[first] = DrawStep(view, order, h[1..(i - 1)], k)
    BY <2>2, <2>3
  <2>5. h[1..i] = Got(i)
    BY <1>4, <2>1, <2>4 DEF first
  <2> QED BY <2>1, <2>5
<1>12. m \in G
  <2>1. m \in 0..m
    BY <1>1
  <2> HIDE DEF G
  <2>2. 0..m \subseteq G
    BY <1>1, <1>10, <1>11, CountUp
  <2> QED BY <2>1, <2>2
<1>13. h[1..m] = Got(m)
  BY <1>12
<1> QED BY <1>2, <1>13 DEF h, Got, m

-------------------------------------------------------------------------------
(* Opponent by opponent.                                                   *)

\* enumerateEndgameDeals gives the next opponent a whole hand.
WholeHands(view, order, deal, k) ==
  {p \in kSubset(view.handCounts[order[k]], Eligible(view, order[k], deal.rest)) :
     AssignmentsFeasible(view, deal.rest \ p, Later(order, k))}
AssignStep(view, order, x, k) ==
  UNION {{Give(deal, order[k], p) : p \in WholeHands(view, order, deal, k)} : deal \in x}

\* What is true of a deal to the first k opponents.
GoodDeal(view, order, deal, k) ==
  /\ deal \in Deals /\ deal.rest \subseteq Unseen(view)
  /\ AssignmentsFeasible(view, deal.rest, Later(order, k))
  /\ DOMAIN deal.to = {view.botId} \cup {order[i] : i \in 1..k}
  /\ \A i \in 1..k : /\ deal.to[order[i]] \subseteq Unseen(view)
                     /\ Cardinality(deal.to[order[i]]) = view.handCounts[order[i]]

\* A hand that is drawn is a whole hand, if the deal was good before.
LEMMA DrawnIsWhole ==
  ASSUME NEW view, NEW real, Holds(view, real), NEW n \in Nat, NEW order,
         Lists(order, n, Opponents(view)), NEW k \in 1..n, NEW x,
         \A deal \in x : GoodDeal(view, order, deal, k - 1)
  PROVE  Drawn(view, order, x, k, view.handCounts[order[k]]) = AssignStep(view, order, x, k)
<1> DEFINE h == view.handCounts[order[k]]
<1>1. h \in Nat
  <2>1. order[k] \in Opponents(view)
    BY DEF Lists
  <2> QED BY <2>1, FiniteHands
<1> HIDE DEF h
<1>2. ASSUME NEW deal \in x
      PROVE  Picks(view, order, deal, k, h) = WholeHands(view, order, deal, k)
  <2> DEFINE S == kSubset(h, Eligible(view, order[k], deal.rest))
             Left(p) == AssignmentsFeasible(view, deal.rest \ p, Later(order, k))
  <2>1. deal \in Deals /\ AssignmentsFeasible(view, deal.rest, Later(order, k - 1))
    BY DEF GoodDeal
  <2>2. deal.rest \in SUBSET Card
    BY <2>1, DealIs
  <2>3. ASSUME h = 0, NEW p \in S
        PROVE  Left(p)
    <3>1. p \in SUBSET deal.rest /\ Cardinality(p) = 0
      BY <2>3 DEF kSubset, Eligible
    <3>2. IsFiniteSet(p)
      BY <2>2, <3>1, FiniteHands
    <3>3. p = {}
      BY <3>1, <3>2, FS_EmptySet
    <3>4. AssignmentsFeasible(view, deal.rest, Later(order, k))
      BY <2>1, <2>2, FeasibleForFewer
    <3>5. deal.rest \ p = deal.rest
      BY <3>3
    <3> QED BY <3>4, <3>5
  <2>4. Picks(view, order, deal, k, h) = {p \in S : h > 0 => Left(p)}
    BY DEF Picks
  <2>5. WholeHands(view, order, deal, k) = {p \in S : Left(p)}
    BY DEF WholeHands, h
  <2> HIDE DEF S, Left
  <2>6. h = 0 \/ h > 0
    BY <1>1
  <2> QED BY <2>3, <2>4, <2>5, <2>6
<1>3. \A y : y \in Drawn(view, order, x, k, h)
             <=> \E deal \in x : \E p \in Picks(view, order, deal, k, h) : y = Give(deal, order[k], p)
  BY DEF Drawn
<1>4. \A y : y \in AssignStep(view, order, x, k)
             <=> \E deal \in x : \E p \in WholeHands(view, order, deal, k) : y = Give(deal, order[k], p)
  BY DEF AssignStep
<1>5. Drawn(view, order, x, k, h) = AssignStep(view, order, x, k)
  BY <1>2, <1>3, <1>4
<1> QED BY <1>5 DEF h

\* Dealing to one more opponent keeps deals good.
LEMMA AssigningKeepsGood ==
  ASSUME NEW view, NEW real, Holds(view, real), NEW n \in Nat, NEW order,
         Lists(order, n, Opponents(view)), NEW k \in 1..n, NEW deal,
         GoodDeal(view, order, deal, k - 1), NEW p \in WholeHands(view, order, deal, k)
  PROVE  GoodDeal(view, order, Give(deal, order[k], p), k)
<1> DEFINE d == order[k]
           next == Give(deal, d, p)
<1>1. deal \in Deals /\ d \in Devices /\ d # view.botId
  BY DEF GoodDeal, Lists, Holds, Opponents
<1>2. deal.rest \subseteq Unseen(view) /\ deal.rest \in SUBSET Card
  BY <1>1, DealIs DEF GoodDeal
<1>3. /\ p \in SUBSET deal.rest /\ Cardinality(p) = view.handCounts[d]
      /\ AssignmentsFeasible(view, deal.rest \ p, Later(order, k))
  BY DEF WholeHands, kSubset, Eligible
<1>4. DOMAIN deal.to = {view.botId} \cup {order[i] : i \in 1..(k - 1)}
  BY DEF GoodDeal
<1>5. d \notin DOMAIN deal.to
  BY <1>1, <1>4 DEF Lists
<1>6. /\ next \in Deals /\ DOMAIN next.to = DOMAIN deal.to \cup {d} /\ next.rest = deal.rest \ p
      /\ next.to[d] = p \cup HasAlready(deal, d)
      /\ \A e \in DOMAIN deal.to : e # d => next.to[e] = deal.to[e]
  <2>1. p \in SUBSET Card
    BY <1>2, <1>3
  <2> QED BY <1>1, <2>1, GiveIs
<1>7. next.to[d] = p
  BY <1>5, <1>6 DEF HasAlready
<1>8. ASSUME NEW i \in 1..k
      PROVE  next.to[order[i]] \subseteq Unseen(view) /\ Cardinality(next.to[order[i]]) = view.handCounts[order[i]]
  <2>1. CASE i = k
    BY <1>2, <1>3, <1>7, <2>1
  <2>2. CASE i # k
    <3>1. i \in 1..(k - 1)
      BY <2>2
    <3>2. order[i] \in DOMAIN deal.to /\ order[i] # d
      BY <1>4, <1>5, <3>1
    <3>3. deal.to[order[i]] \subseteq Unseen(view) /\ Cardinality(deal.to[order[i]]) = view.handCounts[order[i]]
      BY <3>1 DEF GoodDeal
    <3> HIDE DEF next
    <3> QED BY <1>6, <3>2, <3>3
  <2> QED BY <2>1, <2>2
<1>9. DOMAIN next.to = {view.botId} \cup {order[i] : i \in 1..k}
  <2>1. 1..k = (1..(k - 1)) \cup {k}
    OBVIOUS
  <2>2. {order[i] : i \in 1..k} = {order[i] : i \in 1..(k - 1)} \cup {d}
    BY <2>1
  <2> HIDE DEF next, d
  <2> QED BY <1>4, <1>6, <2>2
<1>10. AssignmentsFeasible(view, next.rest, Later(order, k)) /\ next.rest \subseteq Unseen(view)
  BY <1>2, <1>3, <1>6
<1> HIDE DEF next
<1>11. GoodDeal(view, order, next, k)
  BY <1>6, <1>8, <1>9, <1>10 DEF GoodDeal
<1> QED BY <1>11 DEF next

\* Before the first opponent.
LEMMA NoDealIsGood ==
  ASSUME NEW view, NEW real, Holds(view, real), NEW n \in Nat, NEW order,
         Lists(order, n, Opponents(view))
  PROVE  \A deal \in NoDeal(view) : GoodDeal(view, order, deal, 0)
<1> DEFINE deal == [to |-> [d \in {view.botId} |-> view.hand], rest |-> Unseen(view)]
<1>1. Unseen(view) \in SUBSET Card
  BY FiniteHands
<1>2. deal.to \in [{view.botId} -> SUBSET Card] /\ {view.botId} \in SUBSET Devices
  BY DEF Holds
<1>3. deal \in Deals
  <2> DEFINE to == [d \in {view.botId} |-> view.hand]
  <2>1. to \in UNION {[T -> SUBSET Card] : T \in SUBSET Devices}
    BY <1>2
  <2> HIDE DEF to
  <2>2. [to |-> to, rest |-> Unseen(view)] \in Deals
    BY <1>1, <2>1 DEF Deals
  <2> QED BY <2>2 DEF to
<1>4. HeldLater(real, order, 0, n) \subseteq Unseen(view)
  <2>1. \A i \in 1..n : real[order[i]] \subseteq Unseen(view)
    BY DEF Lists, Holds
  <2> QED BY <2>1 DEF HeldLater
<1>5. AssignmentsFeasible(view, Unseen(view), Later(order, 0))
  <2>1. 0 \in 0..n
    OBVIOUS
  <2> QED BY <1>1, <1>4, <2>1, RealIsFeasible
<1>6. 1..0 = {}
  OBVIOUS
<1>7. GoodDeal(view, order, deal, 0)
  BY <1>3, <1>5, <1>6 DEF GoodDeal
<1> QED BY <1>7 DEF NoDeal
\* Steps lead from deals to deals.
LEMMA StepsAreDeals ==
  ASSUME NEW view, NEW real, Holds(view, real), NEW n \in Nat, NEW order,
         Lists(order, n, Opponents(view)), NEW k \in 1..n, NEW x \in SUBSET Deals
  PROVE  AssignStep(view, order, x, k) \in SUBSET Deals /\ FillStep(view, order, x, k) \in SUBSET Deals
<1> DEFINE h == view.handCounts[order[k]]
<1>1. order[k] \in Devices
  BY DEF Lists, Holds
<1>2. ASSUME NEW deal \in x, NEW p \in SUBSET deal.rest
      PROVE  Give(deal, order[k], p) \in Deals
  <2>1. deal \in Deals
    OBVIOUS
  <2>2. p \in SUBSET Card
    BY <2>1, DealIs
  <2> QED BY <1>1, <2>1, <2>2, GiveIs
<1>3. \A deal : \A p \in WholeHands(view, order, deal, k) \cup Picks(view, order, deal, k, h) : p \in SUBSET deal.rest
  BY DEF WholeHands, Picks, kSubset, Eligible
<1>4. AssignStep(view, order, x, k) \in SUBSET Deals
  BY <1>2, <1>3 DEF AssignStep
<1>5. Drawn(view, order, x, k, h) \in SUBSET Deals
  BY <1>2, <1>3 DEF Drawn
<1>6. FillStep(view, order, x, k) = Drawn(view, order, x, k, h)
  BY FillIs
<1> QED BY <1>4, <1>5, <1>6

\* A fold goes through the sets of deals one after the other.
Passes(some, h, n, base, step) ==
  /\ some[0] = base /\ some[n] = h[1..n]
  /\ \A k \in 1..n : some[k] = step[<<some[k - 1], k>>]

\* Whatever the steps are, their results are the entries of a table.
LEMMA StepByStep ==
  ASSUME NEW n \in Nat, NEW P, NEW base \in P, NEW step \in [P \X (1..n) -> P],
         NEW h, h[{}] = base,
         \A k \in 1..n : h[1..(k - 1)] \in P => h[1..k] = step[<<h[1..(k - 1)], k>>]
  PROVE  \E some \in [0..n -> P] : Passes(some, h, n, base, step)
<1> DEFINE G == {k \in 0..n : h[1..k] \in P}
<1>1. 1..0 = {} /\ 0 \in 0..n
  OBVIOUS
<1>2. 0 \in G
  BY <1>1
<1>3. ASSUME NEW k \in 1..n, k - 1 \in G
      PROVE  k \in G
  <2>1. h[1..(k - 1)] \in P
    BY <1>3
  <2>2. h[1..k] = step[<<h[1..(k - 1)], k>>]
    BY <2>1
  <2>3. step[<<h[1..(k - 1)], k>>] \in P
    BY <2>1
  <2>4. k \in 0..n
    OBVIOUS
  <2> QED BY <2>2, <2>3, <2>4
<1>4. \A k \in 0..n : h[1..k] \in P
  <2>1. 0..n \subseteq G
    <3> HIDE DEF G
    <3> QED BY <1>2, <1>3, CountUp
  <2> QED BY <2>1
<1> DEFINE some == [k \in 0..n |-> h[1..k]]
<1>5. some \in [0..n -> P]
  BY <1>4
<1>6. some[0] = base /\ some[n] = h[1..n]
  BY <1>1
<1>7. ASSUME NEW k \in 1..n
      PROVE  some[k] = step[<<some[k - 1], k>>]
  <2>1. k - 1 \in 0..n /\ k \in 0..n
    OBVIOUS
  <2>2. some[k] = h[1..k] /\ some[k - 1] = h[1..(k - 1)]
    BY <2>1
  <2> QED BY <1>4, <2>1, <2>2
<1> HIDE DEF some
<1> QED BY <1>5, <1>6, <1>7 DEF Passes

\* The turns of the opponents.
Turns(view) == [k \in 1..Len(OpponentsByConstraint(view)) |-> k]

\* The fold of enumerateEndgameDeals, as an equation.
AssignsInTurn(view, f) ==
  f = [T \in SUBSET (DOMAIN Turns(view)) |->
         IF T = {} THEN NoDeal(view)
         ELSE AssignStep(view, OpponentsByConstraint(view), f[T \ {Max(T)}], Turns(view)[Max(T)])]

\* Its solution gives the deals.
LEMMA EnumerateDealsIs ==
  ASSUME NEW view
  PROVE  EnumerateDeals(view) = {deal.to : deal \in (CHOOSE f : AssignsInTurn(view, f))[DOMAIN Turns(view)]}
BY Zenon DEF EnumerateDeals, FoldLeft, MapThenFoldSet, AssignsInTurn, Turns, AssignStep, WholeHands, Later

\* The enumeration deals to the opponents one after the other.
LEMMA EnumeratedAlong ==
  ASSUME NEW view, NEW real, Holds(view, real), NEW n \in Nat, NEW order,
         order = OpponentsByConstraint(view), Lists(order, n, Opponents(view))
  PROVE  \E some \in [0..n -> SUBSET Deals] :
           /\ some[0] = NoDeal(view)
           /\ \A k \in 1..n : some[k] = AssignStep(view, order, some[k - 1], k)
           /\ EnumerateDeals(view) = {deal.to : deal \in some[n]}
<1> DEFINE base == NoDeal(view)
           step == [y \in (SUBSET Deals) \X (1..n) |-> AssignStep(view, order, y[1], y[2])]
<1>1. DOMAIN Turns(view) = 1..n /\ \A k \in 1..n : Turns(view)[k] = k
  <2>1. Len(order) = n
    BY DEF Lists
  <2> QED BY <2>1 DEF Turns
<1> DEFINE h == CHOOSE f : AssignsInTurn(view, f)
<1>2. EnumerateDeals(view) = {deal.to : deal \in h[1..n]}
  BY <1>1, EnumerateDealsIs
<1> HIDE DEF h
<1>3. base \in SUBSET Deals
  BY NoDealIsGood DEF GoodDeal
<1>4. step \in [(SUBSET Deals) \X (1..n) -> SUBSET Deals]
  <2>1. \A x \in SUBSET Deals, k \in 1..n : AssignStep(view, order, x, k) \in SUBSET Deals
    BY StepsAreDeals
  <2> QED BY <2>1
<1>5. \A x \in SUBSET Deals, k \in 1..n : step[<<x, k>>] = AssignStep(view, order, x, k)
  OBVIOUS
<1> HIDE DEF base, step
<1>6. PICK f \in [SUBSET (1..n) -> SUBSET Deals] : FoldsTo(f, n, base, step)
  BY <1>3, <1>4, FoldExists
<1>7. AssignsInTurn(view, f)
  <2>1. ASSUME NEW T \in SUBSET (1..n), T # {}
        PROVE  f[T] = AssignStep(view, order, f[T \ {Max(T)}], Turns(view)[Max(T)])
    <3>1. Max(T) \in 1..n
      BY <2>1, LastPosition
    <3>2. T \ {Max(T)} \in SUBSET (1..n)
      OBVIOUS
    <3>3. f[T \ {Max(T)}] \in SUBSET Deals
      BY <1>6, <3>2
    <3>4. f[T] = step[<<f[T \ {Max(T)}], Max(T)>>]
      BY <1>6, <2>1 DEF FoldsTo
    <3>5. Turns(view)[Max(T)] = Max(T)
      BY <1>1, <3>1
    <3>6. step[<<f[T \ {Max(T)}], Max(T)>>] = AssignStep(view, order, f[T \ {Max(T)}], Max(T))
      BY <1>5, <3>1, <3>3
    <3> QED BY <3>4, <3>5, <3>6
  <2>2. f[{}] = base
    BY <1>6 DEF FoldsTo
  <2> QED BY <1>1, <1>6, <2>1, <2>2 DEF AssignsInTurn, base
<1>8. AssignsInTurn(view, h)
  BY <1>7 DEF h
<1>9. h[{}] = base /\ \A T \in SUBSET (1..n) : T # {} =>
        h[T] = AssignStep(view, order, h[T \ {Max(T)}], Turns(view)[Max(T)])
  <2>1. {} \in SUBSET (1..n)
    OBVIOUS
  <2> QED BY <1>1, <1>8, <2>1 DEF AssignsInTurn, base
<1>11. \A k \in 1..n : h[1..(k - 1)] \in SUBSET Deals => h[1..k] = step[<<h[1..(k - 1)], k>>]
  <2> TAKE k \in 1..n
  <2> HAVE h[1..(k - 1)] \in SUBSET Deals
  <2> DEFINE first == 1..k
  <2>1. first \in SUBSET (1..n) /\ first # {} /\ Max(first) = k /\ first \ {k} = 1..(k - 1)
    BY FirstPositions
  <2> HIDE DEF first
  <2>2. h[first] = AssignStep(view, order, h[first \ {Max(first)}], Turns(view)[Max(first)])
    BY <1>9, <2>1
  <2>3. h[first] = AssignStep(view, order, h[1..(k - 1)], k)
    BY <1>1, <2>1, <2>2
  <2> QED BY <1>5, <2>3 DEF first
<1>12. PICK some \in [0..n -> SUBSET Deals] : Passes(some, h, n, base, step)
  <2>1. h[{}] = base
    BY <1>9
  <2> QED BY <1>3, <1>4, <1>11, <2>1, StepByStep
<1>13. \A k \in 1..n : some[k] = AssignStep(view, order, some[k - 1], k)
  <2> TAKE k \in 1..n
  <2>1. some[k - 1] \in SUBSET Deals
    OBVIOUS
  <2> QED BY <1>5, <1>12, <2>1 DEF Passes
<1> QED BY <1>2, <1>12, <1>13 DEF base, Passes

\* The fold of sampleDeal, as an equation.
FillsInTurn(view, f) ==
  f = [T \in SUBSET (DOMAIN Turns(view)) |->
         IF T = {} THEN NoDeal(view)
         ELSE FillStep(view, OpponentsByConstraint(view), f[T \ {Max(T)}], Turns(view)[Max(T)])]

\* Its solution gives the deals.
LEMMA SampleDealsIs ==
  ASSUME NEW view
  PROVE  SampleDeals(view) = {deal.to : deal \in (CHOOSE f : FillsInTurn(view, f))[DOMAIN Turns(view)]}
BY Zenon DEF SampleDeals, FoldLeft, MapThenFoldSet, FillsInTurn, Turns, FillStep, DrawStep, Viable, Later

\* So does the drawing of cards.
LEMMA SampledAlong ==
  ASSUME NEW view, NEW real, Holds(view, real), NEW n \in Nat, NEW order,
         order = OpponentsByConstraint(view), Lists(order, n, Opponents(view))
  PROVE  \E some \in [0..n -> SUBSET Deals] :
           /\ some[0] = NoDeal(view)
           /\ \A k \in 1..n : some[k] = FillStep(view, order, some[k - 1], k)
           /\ SampleDeals(view) = {deal.to : deal \in some[n]}
<1> DEFINE base == NoDeal(view)
           step == [y \in (SUBSET Deals) \X (1..n) |-> FillStep(view, order, y[1], y[2])]
<1>1. DOMAIN Turns(view) = 1..n /\ \A k \in 1..n : Turns(view)[k] = k
  <2>1. Len(order) = n
    BY DEF Lists
  <2> QED BY <2>1 DEF Turns
<1> DEFINE h == CHOOSE f : FillsInTurn(view, f)
<1>2. SampleDeals(view) = {deal.to : deal \in h[1..n]}
  BY <1>1, SampleDealsIs
<1> HIDE DEF h
<1>3. base \in SUBSET Deals
  BY NoDealIsGood DEF GoodDeal
<1>4. step \in [(SUBSET Deals) \X (1..n) -> SUBSET Deals]
  <2>1. \A x \in SUBSET Deals, k \in 1..n : FillStep(view, order, x, k) \in SUBSET Deals
    BY StepsAreDeals
  <2> QED BY <2>1
<1>5. \A x \in SUBSET Deals, k \in 1..n : step[<<x, k>>] = FillStep(view, order, x, k)
  OBVIOUS
<1> HIDE DEF base, step
<1>6. PICK f \in [SUBSET (1..n) -> SUBSET Deals] : FoldsTo(f, n, base, step)
  BY <1>3, <1>4, FoldExists
<1>7. FillsInTurn(view, f)
  <2>1. ASSUME NEW T \in SUBSET (1..n), T # {}
        PROVE  f[T] = FillStep(view, order, f[T \ {Max(T)}], Turns(view)[Max(T)])
    <3>1. Max(T) \in 1..n
      BY <2>1, LastPosition
    <3>2. T \ {Max(T)} \in SUBSET (1..n)
      OBVIOUS
    <3>3. f[T \ {Max(T)}] \in SUBSET Deals
      BY <1>6, <3>2
    <3>4. f[T] = step[<<f[T \ {Max(T)}], Max(T)>>]
      BY <1>6, <2>1 DEF FoldsTo
    <3>5. Turns(view)[Max(T)] = Max(T)
      BY <1>1, <3>1
    <3>6. step[<<f[T \ {Max(T)}], Max(T)>>] = FillStep(view, order, f[T \ {Max(T)}], Max(T))
      BY <1>5, <3>1, <3>3
    <3> QED BY <3>4, <3>5, <3>6
  <2>2. f[{}] = base
    BY <1>6 DEF FoldsTo
  <2> QED BY <1>1, <1>6, <2>1, <2>2 DEF FillsInTurn, base
<1>8. FillsInTurn(view, h)
  BY <1>7 DEF h
<1>9. h[{}] = base /\ \A T \in SUBSET (1..n) : T # {} =>
        h[T] = FillStep(view, order, h[T \ {Max(T)}], Turns(view)[Max(T)])
  <2>1. {} \in SUBSET (1..n)
    OBVIOUS
  <2> QED BY <1>1, <1>8, <2>1 DEF FillsInTurn, base
<1>11. \A k \in 1..n : h[1..(k - 1)] \in SUBSET Deals => h[1..k] = step[<<h[1..(k - 1)], k>>]
  <2> TAKE k \in 1..n
  <2> HAVE h[1..(k - 1)] \in SUBSET Deals
  <2> DEFINE first == 1..k
  <2>1. first \in SUBSET (1..n) /\ first # {} /\ Max(first) = k /\ first \ {k} = 1..(k - 1)
    BY FirstPositions
  <2> HIDE DEF first
  <2>2. h[first] = FillStep(view, order, h[first \ {Max(first)}], Turns(view)[Max(first)])
    BY <1>9, <2>1
  <2>3. h[first] = FillStep(view, order, h[1..(k - 1)], k)
    BY <1>1, <2>1, <2>2
  <2> QED BY <1>5, <2>3 DEF first
<1>12. PICK some \in [0..n -> SUBSET Deals] : Passes(some, h, n, base, step)
  <2>1. h[{}] = base
    BY <1>9
  <2> QED BY <1>3, <1>4, <1>11, <2>1, StepByStep
<1>13. \A k \in 1..n : some[k] = FillStep(view, order, some[k - 1], k)
  <2> TAKE k \in 1..n
  <2>1. some[k - 1] \in SUBSET Deals
    OBVIOUS
  <2> QED BY <1>5, <1>12, <2>1 DEF Passes
<1> QED BY <1>2, <1>12, <1>13 DEF base, Passes

\* The real deal, as far as the first k opponents.
RealDeal(view, real, order, k) ==
  [to |-> [e \in {view.botId} \cup {order[i] : i \in 1..k} |-> IF e = view.botId THEN view.hand ELSE real[e]],
   rest |-> Unseen(view) \ UNION {real[order[i]] : i \in 1..k}]

\* Nobody has got cards in it at first, and dealing to one more opponent what he holds
\* is a step of the enumeration.
LEMMA RealDealStarts ==
  ASSUME NEW view, NEW real, NEW order
  PROVE  RealDeal(view, real, order, 0) \in NoDeal(view)
<1> DEFINE to == [e \in {view.botId} \cup {order[i] : i \in 1..0} |->
                    IF e = view.botId THEN view.hand ELSE real[e]]
<1>1. 1..0 = {}
  OBVIOUS
<1>2. to = [e \in {view.botId} |-> view.hand]
  BY <1>1
<1>3. Unseen(view) \ UNION {real[order[i]] : i \in 1..0} = Unseen(view)
  BY <1>1
<1>4. RealDeal(view, real, order, 0) = [to |-> to, rest |-> Unseen(view) \ UNION {real[order[i]] : i \in 1..0}]
  BY DEF RealDeal
<1> HIDE DEF to
<1> QED BY <1>2, <1>3, <1>4 DEF NoDeal

\* The hand the next opponent holds is one the enumeration can give.
LEMMA RealHandIsWhole ==
  ASSUME NEW view, NEW real, Holds(view, real), NEW n \in Nat, NEW order,
         Lists(order, n, Opponents(view)), NEW k \in 1..n
  PROVE  real[order[k]] \in WholeHands(view, order, RealDeal(view, real, order, k - 1), k)
<1> DEFINE hand == real[order[k]]
           rest == Unseen(view) \ UNION {real[order[i]] : i \in 1..(k - 1)}
<1>1. RealDeal(view, real, order, k - 1).rest = rest
  BY DEF RealDeal
<1>2. \A i \in 1..n : order[i] \in Opponents(view)
  BY DEF Lists
<1>3. \A i, j \in 1..n : i # j => real[order[i]] \cap real[order[j]] = {}
  BY <1>2 DEF Lists, Holds
<1>4. /\ hand \subseteq Unseen(view) /\ view.handCounts[order[k]] = Cardinality(hand)
      /\ \A c \in hand : c.suit \notin view.voidSuits[order[k]]
  BY <1>2 DEF Holds
<1>5. hand \subseteq rest
  <2>1. \A i \in 1..(k - 1) : i \in 1..n /\ i # k
    OBVIOUS
  <2> QED BY <1>3, <1>4, <2>1
<1>6. hand \in kSubset(view.handCounts[order[k]], Eligible(view, order[k], rest))
  BY <1>4, <1>5 DEF kSubset, Eligible
<1>7. HeldLater(real, order, k, n) \subseteq rest \ hand
  <2>1. ASSUME NEW i \in (k + 1)..n
        PROVE  real[order[i]] \subseteq rest \ hand
    <3>1. i \in 1..n /\ i # k /\ \A j \in 1..(k - 1) : j \in 1..n /\ j # i
      OBVIOUS
    <3>2. real[order[i]] \subseteq Unseen(view)
      BY <1>2, <3>1 DEF Holds
    <3> QED BY <1>3, <3>1, <3>2
  <2> HIDE DEF rest, hand
  <2> QED BY <2>1 DEF HeldLater
<1>8. rest \ hand \in SUBSET Card /\ k \in 0..n
  BY FiniteHands
<1> HIDE DEF rest, hand
<1>9. AssignmentsFeasible(view, rest \ hand, Later(order, k))
  BY <1>7, <1>8, RealIsFeasible
<1>10. hand \in WholeHands(view, order, RealDeal(view, real, order, k - 1), k)
  BY <1>1, <1>6, <1>9 DEF WholeHands
<1> QED BY <1>10 DEF hand

\* With it the real deal goes on.
LEMMA RealDealGrows ==
  ASSUME NEW view, NEW real, Holds(view, real), NEW n \in Nat, NEW order,
         Lists(order, n, Opponents(view)), NEW k \in 1..n
  PROVE  RealDeal(view, real, order, k)
           = Give(RealDeal(view, real, order, k - 1), order[k], real[order[k]])
<1> DEFINE D == {view.botId} \cup {order[i] : i \in 1..(k - 1)}
           E == {view.botId} \cup {order[i] : i \in 1..k}
           Got(e) == IF e = view.botId THEN view.hand ELSE real[e]
           U == UNION {real[order[i]] : i \in 1..(k - 1)}
           before == RealDeal(view, real, order, k - 1)
<1>1. 1..k = (1..(k - 1)) \cup {k}
  OBVIOUS
<1>2. E = D \cup {order[k]}
  BY <1>1
<1>3. UNION {real[order[i]] : i \in 1..k} = U \cup real[order[k]]
  <2>1. \A c : c \in UNION {real[order[i]] : i \in 1..k} <=> \E i \in 1..k : c \in real[order[i]]
    OBVIOUS
  <2>2. \A c : c \in U <=> \E i \in 1..(k - 1) : c \in real[order[i]]
    OBVIOUS
  <2> HIDE DEF U
  <2> QED BY <1>1, <2>1, <2>2
<1>4. before.rest = Unseen(view) \ U /\ before.to = [e \in D |-> Got(e)] /\ DOMAIN before.to = D
  BY DEF RealDeal
<1>5. order[k] \notin D /\ Got(order[k]) = real[order[k]]
  <2>1. order[k] # view.botId
    BY DEF Lists, Opponents
  <2>2. \A i \in 1..(k - 1) : i \in 1..n /\ i # k
    OBVIOUS
  <2> QED BY <2>1, <2>2 DEF Lists
<1>6. RealDeal(view, real, order, k) = [to |-> [e \in E |-> Got(e)],
                                        rest |-> Unseen(view) \ (U \cup real[order[k]])]
  BY <1>3 DEF RealDeal
<1>7. Give(before, order[k], real[order[k]])
        = [to |-> [e \in D \cup {order[k]} |->
                     IF e = order[k]
                     THEN real[order[k]] \cup (IF order[k] \in D THEN before.to[order[k]] ELSE {})
                     ELSE before.to[e]],
           rest |-> (Unseen(view) \ U) \ real[order[k]]]
  <2> HIDE DEF before, D, U
  <2> QED BY <1>4 DEF Give
<1>8. \A e \in D \cup {order[k]} :
        Got(e) = IF e = order[k]
                 THEN real[order[k]] \cup (IF order[k] \in D THEN before.to[order[k]] ELSE {})
                 ELSE before.to[e]
  <2> HIDE DEF before, D, Got
  <2> QED BY <1>4, <1>5
<1>9. (Unseen(view) \ U) \ real[order[k]] = Unseen(view) \ (U \cup real[order[k]])
  OBVIOUS
<1> HIDE DEF before, D, E, U, Got
<1>10. RealDeal(view, real, order, k) = Give(before, order[k], real[order[k]])
  BY <1>2, <1>6, <1>7, <1>8, <1>9
<1> QED BY <1>10 DEF before

\* Both ways of dealing come to the same deals, all of them good, and the real one is
\* among them.
LEMMA DealsAreRight ==
  ASSUME NEW view, NEW real, Holds(view, real), NEW n \in Nat, NEW order,
         order = OpponentsByConstraint(view), Lists(order, n, Opponents(view))
  PROVE  /\ SampleDeals(view) = EnumerateDeals(view)
         /\ \A to \in EnumerateDeals(view), d \in Opponents(view) :
              to[d] \subseteq Unseen(view) /\ Cardinality(to[d]) = view.handCounts[d]
         /\ [e \in {view.botId} \cup Opponents(view) |-> IF e = view.botId THEN view.hand ELSE real[e]]
              \in EnumerateDeals(view)
<1>1. PICK E \in [0..n -> SUBSET Deals] :
        /\ E[0] = NoDeal(view)
        /\ \A k \in 1..n : E[k] = AssignStep(view, order, E[k - 1], k)
        /\ EnumerateDeals(view) = {deal.to : deal \in E[n]}
  BY EnumeratedAlong
<1>2. PICK F \in [0..n -> SUBSET Deals] :
        /\ F[0] = NoDeal(view)
        /\ \A k \in 1..n : F[k] = FillStep(view, order, F[k - 1], k)
        /\ SampleDeals(view) = {deal.to : deal \in F[n]}
  BY SampledAlong
<1> DEFINE G == {k \in 0..n : /\ F[k] = E[k] /\ RealDeal(view, real, order, k) \in E[k]
                              /\ \A deal \in E[k] : GoodDeal(view, order, deal, k)}
<1>3. 0 \in G
  <2>1. 0 \in 0..n
    OBVIOUS
  <2> QED BY <1>1, <1>2, <2>1, RealDealStarts, NoDealIsGood
<1>4. ASSUME NEW k \in 1..n, k - 1 \in G
      PROVE  k \in G
  <2> DEFINE x == E[k - 1]
  <2>1. /\ F[k - 1] = x /\ RealDeal(view, real, order, k - 1) \in x
        /\ \A deal \in x : GoodDeal(view, order, deal, k - 1)
    BY <1>4
  <2>2. x \in SUBSET Deals /\ k \in 0..n
    BY <1>1
  <2>3. E[k] = AssignStep(view, order, x, k) /\ F[k] = FillStep(view, order, x, k)
    BY <1>1, <1>2, <2>1
  <2> HIDE DEF x
  <2>4. FillStep(view, order, x, k) = Drawn(view, order, x, k, view.handCounts[order[k]])
    BY <2>2, FillIs
  <2>5. Drawn(view, order, x, k, view.handCounts[order[k]]) = AssignStep(view, order, x, k)
    BY <2>1, DrawnIsWhole
  <2>6. F[k] = E[k]
    BY <2>3, <2>4, <2>5
  <2>7. RealDeal(view, real, order, k) \in E[k]
    <3>1. real[order[k]] \in WholeHands(view, order, RealDeal(view, real, order, k - 1), k)
      BY RealHandIsWhole
    <3>2. RealDeal(view, real, order, k) = Give(RealDeal(view, real, order, k - 1), order[k], real[order[k]])
      BY RealDealGrows
    <3> QED BY <2>1, <2>3, <3>1, <3>2 DEF AssignStep
  <2>8. \A deal \in E[k] : GoodDeal(view, order, deal, k)
    <3>1. \A deal \in x : \A p \in WholeHands(view, order, deal, k) :
            GoodDeal(view, order, Give(deal, order[k], p), k)
      BY <2>1, AssigningKeepsGood
    <3> QED BY <2>3, <3>1 DEF AssignStep
  <2> QED BY <2>2, <2>6, <2>7, <2>8
<1>5. n \in G
  <2>1. n \in 0..n
    OBVIOUS
  <2> HIDE DEF G
  <2>2. 0..n \subseteq G
    BY <1>3, <1>4, CountUp
  <2> QED BY <2>1, <2>2
<1>6. /\ F[n] = E[n] /\ RealDeal(view, real, order, n) \in E[n]
      /\ \A deal \in E[n] : GoodDeal(view, order, deal, n)
  BY <1>5
<1>7. SampleDeals(view) = EnumerateDeals(view)
  BY <1>1, <1>2, <1>6
<1>8. ASSUME NEW to \in EnumerateDeals(view), NEW d \in Opponents(view)
      PROVE  to[d] \subseteq Unseen(view) /\ Cardinality(to[d]) = view.handCounts[d]
  <2>1. PICK deal \in E[n] : to = deal.to
    BY <1>1
  <2>2. PICK i \in 1..n : order[i] = d
    BY DEF Lists
  <2> QED BY <1>6, <2>1, <2>2 DEF GoodDeal
<1>9. RealDeal(view, real, order, n).to
        = [e \in {view.botId} \cup Opponents(view) |-> IF e = view.botId THEN view.hand ELSE real[e]]
  <2>1. {order[i] : i \in 1..n} = Opponents(view)
    BY DEF Lists
  <2> QED BY <2>1 DEF RealDeal
<1>10. RealDeal(view, real, order, n).to \in EnumerateDeals(view)
  BY <1>1, <1>6
<1> QED BY <1>7, <1>8, <1>9, <1>10

-------------------------------------------------------------------------------
(* The deals at the table.                                                 *)

\* Who is to play has a seat.
LEMMA ToPlaySeated ==
  ASSUME IInv, Playing
  PROVE  /\ IsSeating(seatOrder) /\ Len(seatOrder) \in Nat /\ Len(seatOrder) >= 2
         /\ turnSeat \in 0..(Len(seatOrder) - 1) /\ ToPlay \in Seated
<1> DEFINE n == Len(seatOrder)
           k == Len(currentTrick)
<1>1. IsSeating(seatOrder) /\ n \in Nat /\ n >= 2 /\ k \in Nat
  BY BidOrderSeating DEF Playing, IInv, TypeOK
<1>2. PICK leader \in 0..(n - 1) : turnSeat = IF k < n THEN (leader + k) % n ELSE -1
  BY DEF IInv, PileFollowsSeats, Playing
<1>3. turnSeat \in 0..(n - 1)
  <2>1. turnSeat >= 0
    BY DEF Playing
  <2> HIDE DEF n, k
  <2>2. turnSeat = (leader + k) % n
    BY <1>2, <2>1
  <2>3. leader + k \in Int /\ n \in Int /\ n > 0
    BY <1>1
  <2> QED BY <2>2, <2>3, ModRange
<1>4. turnSeat + 1 \in 1..n
  BY <1>1, <1>3
<1> QED BY <1>1, <1>3, <1>4, SeatOfPosition DEF ToPlay, Seated

\* What the seat to play sees allows what the others hold.
LEMMA OthersHold ==
  ASSUME RInv, VoidSuitsSound, Playing, NEW view, view = View(ToPlay)
  PROVE  /\ Holds(view, hands) /\ IsSeating(view.seatOrder)
         /\ Opponents(view) = Seated \ {ToPlay} /\ ToPlay \in Seated
         /\ \A d \in Opponents(view) : /\ IsFiniteSet(view.voidSuits[d])
                                       /\ view.handCounts[d] = Cardinality(hands[d])
<1>1. IInv /\ CardsConserved
  BY DEF RInv
<1>2. IsSeating(seatOrder) /\ ToPlay \in Seated
  BY <1>1, ToPlaySeated
<1>3. /\ view.botId = ToPlay /\ view.hand = hands[ToPlay] /\ view.seatOrder = seatOrder
      /\ view.trick = currentTrick /\ view.plays = plays /\ view.voidSuits = voidSuits
  BY ViewIs
<1>4. view.handCounts = [e \in Seated |-> Cardinality(hands[e])]
  BY DEF View
<1> HIDE DEF View
<1>5. Opponents(view) = Seated \ {ToPlay}
  BY <1>3 DEF Opponents, Seated
<1>6. hands \in [Seated -> SUBSET Card] /\ voidSuits \in [Seated -> SUBSET Suits] /\ Seated \subseteq Devices
  <2>1. seatOrder \in Seq(Devices)
    BY <1>2 DEF IsSeating
  <2>2. \A i \in 1..Len(seatOrder) : seatOrder[i] \in Devices
    BY <2>1
  <2>3. Seated \subseteq Devices
    BY <2>2 DEF Seated, SeatsOf
  <2>4. hands \in [Seated -> SUBSET Card] /\ voidSuits \in [Seated -> SUBSET Suits]
    BY <1>1 DEF IInv, TypeOK
  <2> QED BY <2>3, <2>4
<1>7. IsFiniteSet(Seated)
  <2>1. IsFiniteSet(1..Len(seatOrder))
    BY <1>2, FS_Interval DEF IsSeating
  <2>2. Seated = {seatOrder[i] : i \in 1..Len(seatOrder)}
    BY DEF Seated, SeatsOf
  <2> QED BY <1>2, <2>1, <2>2, SliceCounts DEF IsSeating
<1>8. IsFiniteSet(Opponents(view))
  BY <1>5, <1>7, FS_Subset
<1>9. ASSUME NEW d \in Opponents(view)
      PROVE  /\ hands[d] \subseteq Unseen(view) /\ view.handCounts[d] = Cardinality(hands[d])
             /\ \A c \in hands[d] : c.suit \notin view.voidSuits[d]
             /\ IsFiniteSet(view.voidSuits[d])
  <2>1. d \in Seated /\ d # ToPlay
    BY <1>5
  <2>2. hands[d] \subseteq Card /\ hands[d] \cap hands[ToPlay] = {}
    BY <1>1, <1>2, <1>6, <2>1 DEF CardsConserved
  <2>3. \A i \in 1..Len(plays) : plays[i].card \notin hands[d]
    BY <1>1, <2>1 DEF CardsConserved
  <2>4. \A i \in 1..Len(currentTrick) : currentTrick[i].card \notin hands[d]
    <3> TAKE i \in 1..Len(currentTrick)
    <3>1. PICK j \in 1..Len(plays) : plays[j].card = currentTrick[i].card
      BY <1>1 DEF CardsConserved
    <3> QED BY <2>3, <3>1
  <2>5. hands[d] \subseteq Unseen(view)
    BY <1>3, <2>2, <2>3, <2>4 DEF Unseen, CardsOf
  <2>6. \A c \in hands[d] : c.suit \notin view.voidSuits[d]
    BY <1>1, <1>3, <2>1 DEF VoidSuitsSound
  <2>7. IsFiniteSet(view.voidSuits[d])
    <3>1. voidSuits[d] \in SUBSET Suits /\ IsFiniteSet(Suits)
      BY <1>6, <2>1, FiniteSuits
    <3> QED BY <1>3, <3>1, FS_Subset
  <2> QED BY <1>4, <2>1, <2>5, <2>6, <2>7
<1>10. \A d, e \in Opponents(view) : d # e => hands[d] \cap hands[e] = {}
  BY <1>1, <1>5 DEF CardsConserved
<1>11. view.botId \in Devices /\ view.hand \subseteq Card /\ Opponents(view) \subseteq Devices
  BY <1>2, <1>3, <1>5, <1>6
<1> QED BY <1>2, <1>3, <1>5, <1>8, <1>9, <1>10, <1>11 DEF Holds

\* There are at least as many unseen cards as the opponents hold.
LEMMA SlotsFit ==
  ASSUME NEW view, NEW real, Holds(view, real)
  PROVE  OpponentSlots(view) <= Cardinality(Unseen(view))
<1> DEFINE S == Opponents(view)
           held == UNION {real[d] : d \in S}
<1>1. \A d \in S : real[d] \in SUBSET Unseen(view) /\ IsFiniteSet(real[d])
  BY FiniteHands DEF Holds
<1>2. OpponentSlots(view) = Cardinality(held)
  <2> DEFINE f == view.handCounts
             Eq(t) == t = [T \in SUBSET S |->
                             IF T = {} THEN 0
                             ELSE f[CHOOSE x \in T : TRUE] + t[T \ {CHOOSE x \in T : TRUE}]]
             u == [T \in SUBSET S |-> Cardinality(UNION {real[x] : x \in T})]
  <2>1. OpponentSlots(view) = (CHOOSE t : Eq(t))[S]
    BY DEF OpponentSlots, MapThenSumSet, MapThenFoldSet
  <2>2. \A t : Eq(t) <=> TotalsOf(t, f, S)
    BY DEF TotalsOf
  <2>3. /\ IsFiniteSet(S) /\ \A d, e \in S : d # e => real[d] \cap real[e] = {}
        /\ \A d \in S : f[d] = Cardinality(real[d])
    BY DEF Holds
  <2>4. \A d \in S : IsFiniteSet(real[d])
    BY <1>1
  <2>5. u[S] = Cardinality(held)
    OBVIOUS
  <2> HIDE DEF Eq, f, S, held
  <2>6. TotalsOf(u, f, S)
    BY <2>3, <2>4, UnionCounts
  <2> HIDE DEF u
  <2>7. TotalsOf(CHOOSE t : Eq(t), f, S)
    BY <2>2, <2>6
  <2>8. (CHOOSE t : Eq(t)) = u
    BY <2>3, <2>6, <2>7, TotalsUnique
  <2> QED BY <2>1, <2>5, <2>8
<1>3. held \in SUBSET Unseen(view)
  BY <1>1
<1>4. IsFiniteSet(Unseen(view))
  BY FiniteHands
<1> HIDE DEF held
<1> QED BY <1>2, <1>3, <1>4, FS_Subset

\* Who still plays to the pile is who has no card in it yet, whoever is asked.
LEMMA WhoPlaysLater ==
  ASSUME IInv, Playing, NEW view, view = View(ToPlay)
  PROVE  OpponentsAfter(view)
           = Seated \ ({ToPlay} \cup {currentTrick[i].deviceId : i \in 1..Len(currentTrick)})
<1> DEFINE n == Len(seatOrder)
           k == Len(currentTrick)
<1>1. /\ IsSeating(seatOrder) /\ seatOrder \in Seq(Devices) /\ n \in Nat /\ n >= 2 /\ k \in Nat
      /\ turnSeat \in 0..(n - 1)
  BY ToPlaySeated DEF IInv, TypeOK
<1>2. PICK leader \in 0..(n - 1) :
        /\ k <= n /\ turnSeat = IF k < n THEN (leader + k) % n ELSE -1
        /\ \A i \in 1..k : currentTrick[i].deviceId = OrderFrom(seatOrder, leader)[i]
  BY DEF IInv, PileFollowsSeats, Playing
<1>3. view.seatOrder = seatOrder /\ view.turnSeat = turnSeat /\ view.trick = currentTrick /\ view.botId = ToPlay
  BY ViewIs
<1> HIDE DEF View
<1> DEFINE At(from, i) == IF from + i <= n THEN from + i ELSE from + i - n
<1>4. \A from \in 0..(n - 1), i \in 1..n : OrderFrom(seatOrder, from)[i] = seatOrder[At(from, i)]
  <2> TAKE from \in 0..(n - 1), i \in 1..n
  <2>1. from \in 0..n
    BY <1>1
  <2> QED BY <1>1, <2>1, RotationAt
<1>5. OpponentsAfter(view) = {OrderFrom(seatOrder, turnSeat)[i + 1] : i \in 1..(n - k - 1)} \ {ToPlay}
  BY <1>3 DEF OpponentsAfter
<1>6. ToPlay = seatOrder[turnSeat + 1]
  BY DEF ToPlay
<1>7. \A i, j \in 1..n : seatOrder[i] = seatOrder[j] => i = j
  BY <1>1 DEF IsSeating
<1>8. Seated = {seatOrder[i] : i \in 1..n}
  BY DEF Seated, SeatsOf
<1> HIDE DEF n, k
<1>9. k < n /\ turnSeat = IF leader + k < n THEN leader + k ELSE leader + k - n
  <2>1. k < n /\ turnSeat = (leader + k) % n
    BY <1>1, <1>2
  <2>2. leader + k \in Nat /\ leader + k < 2 * n /\ n > 0
    BY <1>1, <2>1
  <2> QED BY <2>1, <2>2, <1>1, ModSmall, ModOver
<1>10. \A i \in 1..n : /\ At(leader, i) \in 1..n
                       /\ i > k + 1 => At(leader, i) = At(turnSeat, i - k)
                       /\ i = k + 1 => At(leader, i) = turnSeat + 1
  BY <1>1, <1>9
<1>11. \A s \in 1..n : \E i \in 1..n : At(leader, i) = s
  <2> TAKE s \in 1..n
  <2>1. CASE s > leader
    <3>1. s - leader \in 1..n /\ At(leader, s - leader) = s
      BY <1>1, <2>1
    <3> QED BY <3>1
  <2>2. CASE s <= leader
    <3>1. s - leader + n \in 1..n /\ At(leader, s - leader + n) = s
      BY <1>1, <2>2
    <3> QED BY <3>1
  <2> QED BY <1>1, <2>1, <2>2
<1>12. \A i, j \in 1..n : At(leader, i) = At(leader, j) => i = j
  BY <1>1
<1>13. \A i \in 1..k : i \in 1..n /\ currentTrick[i].deviceId = seatOrder[At(leader, i)]
  <2> TAKE i \in 1..k
  <2>1. i \in 1..n
    BY <1>1, <1>9
  <2> HIDE DEF At
  <2> QED BY <1>2, <1>4, <2>1
<1>14. \A i \in 1..(n - k - 1) : /\ i + 1 \in 1..n /\ k + i + 1 \in 1..n /\ k + i + 1 > k + 1
                                 /\ (k + i + 1) - k = i + 1
  BY <1>1, <1>9
<1>15. \A i \in 1..(n - k - 1) : OrderFrom(seatOrder, turnSeat)[i + 1] = seatOrder[At(leader, k + i + 1)]
  <2> TAKE i \in 1..(n - k - 1)
  <2>1. OrderFrom(seatOrder, turnSeat)[i + 1] = seatOrder[At(turnSeat, i + 1)]
    BY <1>1, <1>4, <1>14
  <2>2. At(leader, k + i + 1) = At(turnSeat, i + 1)
    BY <1>10, <1>14
  <2> HIDE DEF At
  <2> QED BY <2>1, <2>2
<1> HIDE DEF At
<1>16. \A i, j \in 1..n : seatOrder[At(leader, i)] = seatOrder[At(leader, j)] => i = j
  BY <1>7, <1>10, <1>12
<1>17. \A d \in Seated : \E i \in 1..n : seatOrder[At(leader, i)] = d
  BY <1>8, <1>11
<1>18. k + 1 \in 1..n /\ ToPlay = seatOrder[At(leader, k + 1)]
  <2>1. k + 1 \in 1..n
    BY <1>1, <1>9
  <2> QED BY <1>6, <1>10, <2>1
<1>19. ASSUME NEW d \in OpponentsAfter(view)
       PROVE  d \in Seated /\ d # ToPlay /\ \A j \in 1..k : d # currentTrick[j].deviceId
  <2>1. PICK i \in 1..(n - k - 1) : d = seatOrder[At(leader, k + i + 1)]
    BY <1>5, <1>15
  <2>2. k + i + 1 \in 1..n /\ k + i + 1 > k + 1
    BY <1>14
  <2>3. d \in Seated
    BY <1>8, <1>10, <2>1, <2>2
  <2>4. \A j \in 1..k : j # k + i + 1
    BY <1>1, <2>2
  <2>5. \A j \in 1..k : d # currentTrick[j].deviceId
    BY <1>13, <1>16, <2>1, <2>2, <2>4
  <2> QED BY <1>5, <2>3, <2>5
<1>20. ASSUME NEW d \in Seated, d # ToPlay, \A j \in 1..k : d # currentTrick[j].deviceId
       PROVE  d \in OpponentsAfter(view)
  <2>1. PICK i \in 1..n : seatOrder[At(leader, i)] = d
    BY <1>17
  <2>2. i # k + 1 /\ i \notin 1..k
    BY <1>13, <1>18, <1>20, <2>1
  <2> DEFINE j == i - k - 1
  <2>3. j \in 1..(n - k - 1) /\ k + j + 1 = i
    BY <1>1, <1>9, <2>2
  <2> HIDE DEF j
  <2>4. d = OrderFrom(seatOrder, turnSeat)[j + 1]
    BY <1>15, <2>1, <2>3
  <2> QED BY <1>5, <1>20, <2>3, <2>4
<1> QED BY <1>19, <1>20 DEF k

\* The real deal is among the deals a bot thinks possible when it enumerates them and when
\* it draws cards, and none of those contradicts what everybody has seen; it knows who
\* still plays to the pile and counts enough unseen cards (knowledge.ts,
\* enumerateEndgameDeals in search.ts, sampleDeal in advancedRollout.ts): at any table,
\* with any deck, whichever seats changed and whenever the server was restarted, from
\* snapshots with and without voids.  The one exception is a pile whose leader was removed
\* before the voids were rebuilt from it, until the next deal: see VoidSuitsSound.
THEOREM BotsSeeTheTruth == RSpec => []BotsPlanOnTheTruthUnlessLeaderLeft
<1> SUFFICES ASSUME RInv, VoidSuitsSound, Playing PROVE BotsPlanOnTheTruth
  <2>1. RInv => BotsPlanOnTheTruthUnlessLeaderLeft
    BY DEF BotsPlanOnTheTruthUnlessLeaderLeft, BotsPlanOnTheTruth, RInv, VoidSuitsSoundUnlessLeaderLeft
  <2> QED BY <2>1, RestoredInvariant, PTL
<1> DEFINE view == View(ToPlay)
<1>1. /\ Holds(view, hands) /\ IsSeating(view.seatOrder)
      /\ Opponents(view) = Seated \ {ToPlay} /\ ToPlay \in Seated
      /\ \A d \in Opponents(view) : /\ IsFiniteSet(view.voidSuits[d])
                                    /\ view.handCounts[d] = Cardinality(hands[d])
  BY OthersHold
<1>2. view.botId = ToPlay /\ view.hand = hands[ToPlay] /\ view.plays = plays
  BY ViewIs
<1>3. IInv
  BY DEF RInv
<1>4. OpponentsAfter(view)
        = Seated \ ({ToPlay} \cup {currentTrick[i].deviceId : i \in 1..Len(currentTrick)})
  BY <1>3, WhoPlaysLater
<1> HIDE DEF view
<1>5. PICK n \in Nat : Lists(OpponentsByConstraint(view), n, Opponents(view))
  BY <1>1, OpponentsListed
<1> DEFINE order == OpponentsByConstraint(view)
<1>6. Lists(order, n, Opponents(view)) /\ order = OpponentsByConstraint(view)
  BY <1>5
<1> HIDE DEF order
<1>7. /\ SampleDeals(view) = EnumerateDeals(view)
      /\ \A to \in EnumerateDeals(view), d \in Opponents(view) :
           to[d] \subseteq Unseen(view) /\ Cardinality(to[d]) = view.handCounts[d]
      /\ [e \in {view.botId} \cup Opponents(view) |-> IF e = view.botId THEN view.hand ELSE hands[e]]
           \in EnumerateDeals(view)
  BY <1>1, <1>6, DealsAreRight
<1>8. [e \in {view.botId} \cup Opponents(view) |-> IF e = view.botId THEN view.hand ELSE hands[e]] = hands
  <2>1. hands = [e \in Seated |-> hands[e]]
    BY <1>3 DEF IInv, TypeOK
  <2>2. {view.botId} \cup Opponents(view) = Seated
    BY <1>1, <1>2
  <2> QED BY <1>2, <2>1, <2>2
<1>9. Unseen(view) \cap (hands[ToPlay] \cup CardsOf(plays)) = {}
  BY <1>2 DEF Unseen
<1>10. \A deal \in EnumerateDeals(view), d \in Opponents(view) :
         /\ Cardinality(deal[d]) = Cardinality(hands[d])
         /\ deal[d] \cap (hands[ToPlay] \cup CardsOf(plays)) = {}
  BY <1>1, <1>7, <1>9
<1>11. OpponentSlots(view) <= Cardinality(Unseen(view))
  BY <1>1, SlotsFit
<1> QED BY <1>4, <1>7, <1>8, <1>10, <1>11 DEF BotsPlanOnTheTruth, view

================================================================================
