----------------------------- MODULE BotKnowledge -----------------------------
(***************************************************************************)
(* What an automated seat knows and how it looks ahead: the view it is     *)
(* given (viewForBot in server/src/bots/strategy.ts), the deals it thinks  *)
(* possible (knowledge.ts, search.ts), the auction and the hands it plays  *)
(* through in its mind (rollout.ts, advancedRollout.ts, search.ts).  All   *)
(* of it duplicates rules of the engine, on a view without hidden cards.   *)
(*                                                                         *)
(* Which of its legal moves a bot prefers is heuristics and left out.  The *)
(* random order in which deals are drawn is left out: what matters is the  *)
(* set of deals that can come out.                                         *)
(***************************************************************************)
EXTENDS Engine, SequencesExt, TLC

\* viewForBot.
View(d) ==
  [botId |-> d, hand |-> hands[d], cardsThisRound |-> HandSize(round), trump |-> Trump(round),
   dealer |-> seatOrder[dealerSeat + 1], seatOrder |-> seatOrder, turnSeat |-> turnSeat,
   bids |-> bids, tricksWon |-> tricksWon, trick |-> currentTrick, plays |-> plays,
   voidSuits |-> voidSuits, handCounts |-> [e \in Seated |-> Cardinality(hands[e])],
   scores |-> scores]

CardsOf(played) == {played[i].card : i \in 1..Len(played)}
Opponents(view) == SeatsOf(view.seatOrder) \ {view.botId}

\* buildKnowledge.  createDeck() has every card.
Unseen(view) == Card \ (view.hand \cup CardsOf(view.plays) \cup CardsOf(view.trick))
OpponentSlots(view) == MapThenSumSet(LAMBDA d : view.handCounts[d], Opponents(view))
OpponentsAfter(view) ==
  {OrderFrom(view.seatOrder, view.turnSeat)[i + 1] :
     i \in 1..(Len(view.seatOrder) - Len(view.trick) - 1)} \ {view.botId}

\* higherCards
HigherCards(cards, card) == {c \in cards : c.suit = card.suit /\ c.rank > card.rank}
\* guaranteedTrumpCards: every higher trump is in the bot's hand or has been played.
GuaranteedTrumpCards(view) ==
  {c \in view.hand : c.suit = view.trump /\ HigherCards(Unseen(view), c) = {}}

\* legalFrom
LegalFrom(hand, trick) ==
  LET follows == {c \in hand : c.suit = trick[1].card.suit} IN
  IF trick = <<>> \/ follows = {} THEN hand ELSE follows
\* sanitizeCandidates: what search may choose from.
Candidates(view, supplied) == view.hand \cap supplied \cap LegalFrom(view.hand, view.trick)

-------------------------------------------------------------------------------
(* Bids.                                                                   *)

BidRange(view) == 0..(view.cardsThisRound + 1)
Total(some) == MapThenSumSet(LAMBDA d : IF some[d] = Null THEN 0 ELSE some[d], DOMAIN some)

\* (mutant) the last seat of the table is taken for the dealer.
LegalBidsOfLastSeat(view) ==
  IF view.botId # view.seatOrder[Len(view.seatOrder)] THEN BidRange(view)
  ELSE BidRange(view) \ {view.cardsThisRound - Total([view.bids EXCEPT ![view.botId] = Null])}
LegalBids(view) ==
  IF view.botId # view.dealer THEN BidRange(view)
  ELSE BidRange(view) \ {view.cardsThisRound - Total([view.bids EXCEPT ![view.botId] = Null])}

\* nearestLegalBid: the smaller one of two that are equally near.
NearestLegalBid(view, desired, prior) ==
  LET allowed == BidRange(view) \ {view.cardsThisRound - Total(prior)}
      Away(bid) == IF bid < desired THEN desired - bid ELSE bid - desired
      nearest == {b \in allowed : \A c \in allowed : Away(b) <= Away(c)}
  IN Min(nearest)

BiddingOrder(view) == OrderFrom(view.seatOrder, SeatOf(view.seatOrder, view.dealer) + 1)

\* quickBidForRollout: an estimate between the run of top trumps and all the hands.
QuickBids(view, hand) ==
  LET run == {c \in hand : c.suit = view.trump /\ \A r \in Ranks : r > c.rank => [c EXCEPT !.rank = r] \in hand}
  IN Cardinality(run)..view.cardsThisRound
WithBid(prior, d, bid) == [e \in DOMAIN prior \cup {d} |-> IF e = d THEN bid ELSE prior[e]]
\* projectRemainingBids: the auction as it stands, the bot's own bid, and what the
\* others would like to bid (desired, an estimate from the cards they are given).
ProjectRemainingBids(view, own, desired) ==
  LET Project(prior, d) ==
        LET wanted == IF d = view.botId THEN own ELSE desired[d]
            observed == d # view.botId /\ view.bids[d] # Null
        IN WithBid(prior, d, IF observed THEN view.bids[d]
                             ELSE IF d = view.dealer THEN NearestLegalBid(view, wanted, prior)
                             ELSE wanted)
  IN FoldLeft(Project, <<>>, BiddingOrder(view))

-------------------------------------------------------------------------------
(* Deals the bot thinks possible.                                          *)

\* opponentsByConstraint: who is void in more suits comes first.
OpponentsByConstraint(view) ==
  LET Voids(d) == Cardinality(view.voidSuits[d])
      Before(d, e) == \/ Voids(d) > Voids(e)
                      \/ Voids(d) = Voids(e) /\ SeatOf(view.seatOrder, d) < SeatOf(view.seatOrder, e)
  IN CHOOSE order \in [1..Cardinality(Opponents(view)) -> Opponents(view)] :
       \A i, j \in DOMAIN order : i < j => Before(order[i], order[j])

Eligible(view, d, available) == {c \in available : c.suit \notin view.voidSuits[d]}
Required(view, later) == MapThenSumSet(LAMBDA i : view.handCounts[later[i]], 1..Len(later))

\* (mutant) a card is always left over.
FeasibleWithSpare(view, available, later) ==
  /\ Cardinality(available) > Required(view, later)
  /\ \A i \in 1..Len(later) :
       Cardinality(Eligible(view, later[i], available)) >= view.handCounts[later[i]]
\* assignmentsFeasible, for the opponents that have no cards yet.
AssignmentsFeasible(view, available, later) ==
  /\ Cardinality(available) >= Required(view, later)
  /\ \A i \in 1..Len(later) :
       Cardinality(Eligible(view, later[i], available)) >= view.handCounts[later[i]]

\* A partial deal: who has got which cards, and the cards that are left.
NoDeal(view) == {[to |-> [d \in {view.botId} |-> view.hand], rest |-> Unseen(view)]}
Give(deal, d, cards) ==
  [to |-> [e \in DOMAIN deal.to \cup {d} |->
             IF e = d THEN cards \cup (IF d \in DOMAIN deal.to THEN deal.to[d] ELSE {})
             ELSE deal.to[e]],
   rest |-> deal.rest \ cards]

\* enumerateEndgameDeals: hand by hand, every combination of eligible cards.
EnumerateDeals(view) ==
  LET order == OpponentsByConstraint(view)
      Assign(deals, k) ==
        UNION {{Give(deal, order[k], picked) :
                  picked \in {p \in kSubset(view.handCounts[order[k]],
                                            Eligible(view, order[k], deal.rest)) :
                                AssignmentsFeasible(view, deal.rest \ p,
                                                    SubSeq(order, k + 1, Len(order)))}}
               : deal \in deals}
  IN {deal.to : deal \in FoldLeft(Assign, NoDeal(view), [k \in 1..Len(order) |-> k])}

\* sampleDeal and sampleOpponentHands: card by card, one that leaves the later
\* opponents enough.  An attempt that finds none is given up.
SampleDeals(view) ==
  LET order == OpponentsByConstraint(view)
      Viable(deal, k) ==
        {c \in Eligible(view, order[k], deal.rest) :
           AssignmentsFeasible(view, deal.rest \ {c}, SubSeq(order, k + 1, Len(order)))}
      Draw(deals, k) ==
        UNION {{Give(deal, order[k], {c}) : c \in Viable(deal, k)} : deal \in deals}
      Fill(deals, k) ==
        FoldLeft(Draw, {Give(deal, order[k], {}) : deal \in deals},
                 [i \in 1..view.handCounts[order[k]] |-> k])
  IN {deal.to : deal \in FoldLeft(Fill, NoDeal(view), [k \in 1..Len(order) |-> k])}

-------------------------------------------------------------------------------
(* Playing on in the mind.                                                 *)

\* initialState, with the hands of a deal.
InitialState(view, deal) ==
  [hands |-> deal, won |-> view.tricksWon, trick |-> view.trick, played |-> CardsOf(view.plays),
   voidSuits |-> view.voidSuits, turnSeat |-> view.turnSeat]

\* (mutant) a trump does not beat the led suit.
HighestOfLed(trick, trump) ==
  LET pool == {i \in 1..Len(trick) : trick[i].card.suit = trick[1].card.suit}
  IN trick[CHOOSE i \in pool : \A j \in pool : trick[j].card.rank <= trick[i].card.rank].deviceId
\* trickWinner
TrickWinner(trick, trump) ==
  LET InPile(s) == {i \in 1..Len(trick) : trick[i].card.suit = s}
      pool == IF InPile(trump) # {} THEN InPile(trump) ELSE InPile(trick[1].card.suit)
  IN trick[CHOOSE i \in pool : \A j \in pool : trick[j].card.rank <= trick[i].card.rank].deviceId

\* The hand is complete: unlike the engine, the bots resolve it at once.
HandEnds(state, view) ==
  LET winner == TrickWinner(state.trick, view.trump) IN
  [state EXCEPT !.won[winner] = @ + 1, !.trick = <<>>,
                !.turnSeat = SeatOf(view.seatOrder, winner)]

\* playInto
PlayInto(state, d, card, view) ==
  LET lead == IF state.trick = <<>> THEN card.suit ELSE state.trick[1].card.suit
      next == [state EXCEPT
                 !.hands[d] = @ \ {card},
                 !.trick = Append(@, [deviceId |-> d, card |-> card]),
                 !.played = @ \cup {card},
                 !.voidSuits[d] = IF card.suit = lead THEN @ ELSE @ \cup {lead},
                 !.turnSeat = (@ + 1) % Len(view.seatOrder)]
  IN IF Len(next.trick) = Len(view.seatOrder) THEN HandEnds(next, view) ELSE next

Terminal(state) == state.trick = <<>> /\ \A d \in DOMAIN state.hands : state.hands[d] = {}
\* search.ts has its own roundScore.
ImaginedRoundScore(bid, won) == IF bid = won THEN (bid + 1) * 10 + bid ELSE bid
\* outcomeFor: the scores the bot expects at the end.
FinalScore(state, view, d) == view.scores[d] + ImaginedRoundScore(view.bids[d], state.won[d])

-------------------------------------------------------------------------------
(* Properties.                                                             *)

Bidder == bidOrder[bidTurnIndex + 1]
ToPlay == seatOrder[turnSeat + 1]
Bidding == phase = "bidding"
Playing == phase = "trick" /\ turnSeat >= 0

\* A bot that chooses among what it takes for legal is never refused, and a human in
\* its place would have had no other choice: scheduleBotTurn does not try again after
\* a refusal, and searchBestCard throws without a candidate (the view's dealer and
\* void of seats that were removed or reassigned are the engine's).  The auction it
\* imagines is one that the engine could end with.
BotMovesAreAccepted ==
  /\ Bidding =>
       LET view == View(Bidder) IN
       /\ LegalBids(view) = {bid \in 0..MaxBid(round) : ~DealerRestricted(Bidder, bid)}
       /\ BiddingOrder(view) = bidOrder
       /\ \A own \in LegalBids(view), each \in UNION {QuickBids(view, hands[d]) : d \in Seated} :
            LET all == ProjectRemainingBids(view, own, [d \in Seated |-> each]) IN
            /\ \A d \in Seated : bids[d] # Null => all[d] = bids[d]
            /\ all[Bidder] = own
            /\ Total(all) # HandSize(round)
  /\ Playing => Candidates(View(ToPlay), LegalCards(ToPlay)) = LegalCards(ToPlay)

\* The real deal is among the deals a bot thinks possible, by enumeration and by
\* drawing cards one by one, and it thinks no deal possible that contradicts what
\* everybody has seen; it knows who still plays to the pile, and it never counts
\* fewer unseen cards than its opponents hold.
BotsPlanOnTheTruth ==
  Playing =>
    LET view == View(ToPlay)
        deals == EnumerateDeals(view)
    IN
    /\ hands \in deals
    /\ SampleDeals(view) = deals
    /\ \A deal \in deals, d \in Opponents(view) :
         /\ Cardinality(deal[d]) = Cardinality(hands[d])
         /\ deal[d] \cap (hands[ToPlay] \cup CardsOf(plays)) = {}
    /\ OpponentSlots(view) <= Cardinality(Unseen(view))
    /\ OpponentsAfter(view) = Seated \ ({ToPlay} \cup {currentTrick[i].deviceId : i \in 1..Len(currentTrick)})

\* What the bot would play through with the real hands.
Imagined ==
  LET view == View(seatOrder[1])
      state == InitialState(view, hands)
  IN IF IsTrickComplete THEN HandEnds(state, view) ELSE state

\* The bots' copies of the rules agree with the engine's: whatever is played, the
\* state a bot imagines changes as the engine's does, a bid or a resolved pile does not
\* change it, and a round ends where the imagined one does, with the same scores.  Seats
\* that change and a ledger that is rebuilt into a different one are not imagined.
SameTable ==
  /\ seatOrder' = seatOrder /\ round' = round
  /\ plays' = plays \/ Len(plays') > Len(plays)
ImaginedChanges ==
  IF Len(plays') = Len(plays) THEN Imagined' = Imagined
  ELSE LET play == plays'[Len(plays')]
       IN Imagined' = PlayInto(Imagined, play.deviceId, play.card, View(play.deviceId))
SimulationFollowsGame ==
  [][/\ SameTable /\ phase' = "trick" => ImaginedChanges
     /\ RoundEnds =>
          /\ Terminal(Imagined)
          /\ \A d \in Seated : scores'[d] = FinalScore(Imagined, View(d), d)]_vars
===============================================================================
