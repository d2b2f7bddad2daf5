------------------------------ MODULE BotPlayouts -----------------------------
(***************************************************************************)
(* How likely the bots think a card is to win the hand (strategy.ts,       *)
(* advancedRollout.ts) and the playouts they judge bids and cards by       *)
(* (rollout.ts, advancedRollout.ts).  Chances are numbers of draws out of  *)
(* all draws; left out are the scores that are made of them.  Between      *)
(* cards that are equally good the code takes the first of the hand, which *)
(* is a set here: CHOOSE takes one of them.                                *)
(***************************************************************************)
EXTENDS BotKnowledge

\* probabilityNone, times the number of draws: those without a dangerous card.
DrawsWithout(population, dangerous, draws) ==
  FoldLeft(LAMBDA product, i : product * Max({0, population - Max({0, dangerous}) - i + 1}),
           1, [i \in 1..draws |-> i])
OfSuit(cards, suit) == {c \in cards : c.suit = suit}

\* leadWinChance is 0, 1 or in between.  (The factor 0.88 of a cut changes neither.)
LeadWinChance(view, card) ==
  LET unseen == Unseen(view)
      population == Cardinality(unseen)
      DrawsFree(cards, draws) == DrawsWithout(population, Cardinality(cards), draws)
      higher == HigherCards(unseen, card)
      slots == Min({OpponentSlots(view), population})
      MayCut(d) ==
        /\ card.suit \in view.voidSuits[d] \/ DrawsFree(OfSuit(unseen, card.suit), view.handCounts[d]) > 0
        /\ view.trump \notin view.voidSuits[d]
        /\ OfSuit(unseen, view.trump) # {} /\ view.handCounts[d] > 0
  IN IF DrawsFree(higher, slots) = 0 THEN "never"
     ELSE IF /\ higher = {} \/ slots = 0
             /\ card.suit = view.trump \/ \A d \in Opponents(view) : ~MayCut(d)
     THEN "surely" ELSE "perhaps"

\* (mutant) who has not shown a void is taken to follow.
WinChanceIfAllFollow(view, card) ==
  LET unseen == Unseen(view)
      wins == TrickWinner(Append(view.trick, [deviceId |-> view.botId, card |-> card]), view.trump) = view.botId
  IN IF view.trick = <<>> THEN LeadWinChance(view, card)
     ELSE IF ~wins THEN "never"
     ELSE IF HigherCards(unseen, card) = {} THEN "surely" ELSE "perhaps"
\* winChanceNow: nobody who is still to play beats the card.  Only a trump beats a trump,
\* and only of one who cannot follow, or of everybody when trumps are led.
WinChanceNow(view, card) ==
  LET unseen == Unseen(view)
      population == Cardinality(unseen)
      lead == view.trick[1].card.suit
      wins == TrickWinner(Append(view.trick, [deviceId |-> view.botId, card |-> card]), view.trump) = view.botId
      higher == HigherCards(unseen, card)
      DrawsFree(d, cards) ==
        DrawsWithout(population, Cardinality(cards), Min({population, view.handCounts[d]}))
      With(d, cards) == DrawsFree(d, {}) - DrawsFree(d, cards)
      WithButNoLead(d, cards) ==
        DrawsFree(d, OfSuit(unseen, lead)) - DrawsFree(d, OfSuit(unseen, lead) \cup cards)
      Void(d, suit) == suit \in view.voidSuits[d]
      Threat(d) ==
        IF card.suit = view.trump
        THEN IF lead = view.trump \/ Void(d, lead) THEN With(d, higher) ELSE WithButNoLead(d, higher)
        ELSE (IF Void(d, lead) THEN 0 ELSE With(d, higher))
             + (IF Void(d, view.trump) THEN 0
                ELSE IF Void(d, lead) THEN With(d, OfSuit(unseen, view.trump))
                ELSE WithButNoLead(d, OfSuit(unseen, view.trump)))
  IN IF view.trick = <<>> THEN LeadWinChance(view, card)
     ELSE IF ~wins \/ \E d \in OpponentsAfter(view) : Threat(d) >= DrawsFree(d, {}) THEN "never"
     ELSE IF \A d \in OpponentsAfter(view) : Threat(d) = 0 THEN "surely" ELSE "perhaps"

-------------------------------------------------------------------------------
(* The deals and the policies of playouts.                                 *)

\* The look-ahead of these samplers does not count the cards that all the later opponents
\* need together, so that an attempt may fail that sampleDeal of search.ts completes.
RemainingAssignmentsFeasible(view, available, later) ==
  \A i \in 1..Len(later) :
    Cardinality(Eligible(view, later[i], available)) >= view.handCounts[later[i]]
\* sampleOpponentHands
SampleOpponentHands(view) ==
  LET order == OpponentsByConstraint(view)
      Viable(deal, k) ==
        {c \in Eligible(view, order[k], deal.rest) :
           RemainingAssignmentsFeasible(view, deal.rest \ {c}, SubSeq(order, k + 1, Len(order)))}
      Draw(deals, k) ==
        UNION {{Give(deal, order[k], {c}) : c \in Viable(deal, k)} : deal \in deals}
      Fill(deals, k) ==
        FoldLeft(Draw, {Give(deal, order[k], {}) : deal \in deals},
                 [i \in 1..view.handCounts[order[k]] |-> k])
  IN {deal.to : deal \in FoldLeft(Fill, NoDeal(view), [k \in 1..Len(order) |-> k])}

\* (mutant) the cards of everybody who played to the pile are counted.
OriginalHandFromPile(view, d, hand) ==
  hand \cup {view.plays[i].card : i \in {j \in 1..Len(view.plays) : view.plays[j].deviceId = d}}
       \cup CardsOf(view.trick)
\* The hand a bid was made from (observedBidWeight, reconstructOriginalHand): the cards of
\* a deal and those the player has played.
OriginalHand(view, d, hand) ==
  hand \cup {view.plays[i].card : i \in {j \in 1..Len(view.plays) : view.plays[j].deviceId = d}}
       \cup {view.trick[i].card : i \in {j \in 1..Len(view.trick) : view.trick[j].deviceId = d}}

\* rolloutCard, the policy of everybody in a playout.
RolloutCard(d, state, bid, view) ==
  LET Power(c) == c.rank + (IF c.suit = view.trump THEN 20 ELSE 0)
      Strongest(cards) == CHOOSE c \in cards : \A e \in cards : Power(e) <= Power(c)
      Weakest(cards) == CHOOSE c \in cards : \A e \in cards : Power(c) <= Power(e)
      legal == LegalFrom(state.hands[d], state.trick)
      winning == {c \in legal : TrickWinner(Append(state.trick, [deviceId |-> d, card |-> c]), view.trump) = d}
      losing == legal \ winning
      needed == bid - state.won[d]
      left == Cardinality(state.hands[d])
      wanted == needed > 0 /\ needed <= left /\ 100 * needed >= 45 * left
  IN IF state.trick = <<>> THEN IF wanted THEN Strongest(legal) ELSE Weakest(legal)
     ELSE IF wanted THEN Weakest(IF winning # {} THEN winning ELSE legal)
     ELSE IF losing # {} THEN Strongest(losing) ELSE Weakest(winning)

\* simulate, up to the score: it ends when nobody has a card, and early when the seat in
\* turn has none.
RECURSIVE Simulate(_, _, _)
Simulate(state, bidOf, view) ==
  LET d == view.seatOrder[state.turnSeat + 1] IN
  IF state.hands[d] = {} THEN state
  ELSE Simulate(PlayInto(state, d, RolloutCard(d, state, bidOf[d], view), view), bidOf, view)

-------------------------------------------------------------------------------
(* The policy of advancedRollout.ts, for the seat d in turn with its cards. *)

Followers(state, view) ==
  {view.seatOrder[((state.turnSeat + k) % Len(view.seatOrder)) + 1] :
     k \in 1..(Len(view.seatOrder) - Len(state.trick) - 1)}
UnseenBy(d, state) == Card \ (state.hands[d] \cup state.played)
\* Of AllDraws draws, one card each for those who follow, CardWinChance do not beat the card.
DrawsOfOneEach(d, state, view, dangerous) ==
  DrawsWithout(Cardinality(UnseenBy(d, state)), dangerous, Cardinality(Followers(state, view)))
AllDraws(d, state, view) == DrawsOfOneEach(d, state, view, 0)
CardWinChance(d, state, view, card) ==
  LET lead == IF state.trick = <<>> THEN card.suit ELSE state.trick[1].card.suit
      wins == TrickWinner(Append(state.trick, [deviceId |-> d, card |-> card]), view.trump) = d
      trumps == OfSuit(UnseenBy(d, state), view.trump)
      higher == HigherCards(UnseenBy(d, state), card)
      cutters == \E e \in Followers(state, view) : lead \in state.voidSuits[e]
      dangerous ==
        IF card.suit = view.trump THEN Cardinality(higher)
        ELSE Cardinality(trumps \cup (IF card.suit = lead THEN higher ELSE {}))
             - (IF cutters THEN 0 ELSE (65 * Cardinality(trumps)) \div 100)
  IN IF state.trick # <<>> /\ ~wins THEN 0 ELSE DrawsOfOneEach(d, state, view, dangerous)

\* controlledTrumpLead: the lowest trump that no unseen trump beats, if there is one.
ControlledTrumps(d, state, view) ==
  {c \in LegalFrom(state.hands[d], state.trick) :
     c.suit = view.trump /\ HigherCards(UnseenBy(d, state), c) = {}}

\* highestScoringOpponent
HighestScoringOpponent(d, bidOf, view) ==
  LET Ahead(e, f) ==
        \/ view.scores[e] > view.scores[f]
        \/ view.scores[e] = view.scores[f] /\ bidOf[e] > bidOf[f]
        \/ /\ view.scores[e] = view.scores[f] /\ bidOf[e] = bidOf[f]
           /\ SeatOf(view.seatOrder, e) < SeatOf(view.seatOrder, f)
  IN Head(SetToSortSeq(SeatsOf(view.seatOrder) \ {d}, Ahead))

\* discardValue, doubled
DiscardValue(card, hand, trump) ==
  LET length == Cardinality(OfSuit(hand, card.suit)) IN
  2 * card.rank
  + (IF length = 1 /\ card.suit # trump THEN 10 ELSE IF length = 2 THEN 3 ELSE 0)
  - (IF card.suit = trump THEN 16 ELSE 0)

\* The first of cards by one value and then by another.
Foremost(cards, First(_), Then(_)) ==
  CHOOSE c \in cards : \A e \in cards :
    First(c) > First(e) \/ (First(c) = First(e) /\ Then(c) >= Then(e))

\* chooseRolloutCard, of a seat that follows: Shaitaan (revenge) first sees to the leader.
Follow(d, revenge, state, bidOf, view) ==
  LET hand == state.hands[d]
      legal == LegalFrom(hand, state.trick)
      needed == bidOf[d] - state.won[d]
      broken == needed < 0 \/ needed > Cardinality(hand)
      all == AllDraws(d, state, view)
      Chance(c) == CardWinChance(d, state, view, c)
      LowChance(c) == -Chance(c)
      LowPower(c) == -(c.rank + (IF c.suit = view.trump THEN 20 ELSE 0))
      Discard(c) == DiscardValue(c, hand, view.trump)
      winning == {c \in legal : Chance(c) > 0}
      losing == legal \ winning
      likely == {c \in winning : 100 * Chance(c) >= 62 * all}
      target == HighestScoringOpponent(d, bidOf, view)
      aimed == revenge /\ TrickWinner(state.trick, view.trump) = target
      targetNeed == bidOf[target] - state.won[target]
      wanted == needed > 0 /\ ~broken
  IN IF aimed /\ targetNeed = 0 /\ losing # {} /\ needed <= 0 THEN Foremost(losing, Discard, LowPower)
     ELSE IF aimed /\ targetNeed > 0 /\ (broken \/ needed > 0) /\ winning # {}
     THEN Foremost(winning, LowChance, LowPower)
     ELSE IF wanted /\ likely # {} THEN Foremost(likely, LowPower, Chance)
     ELSE IF wanted /\ 2 * needed >= Cardinality(hand) /\ winning # {}
     THEN Foremost(winning, Chance, LowPower)
     ELSE Foremost(IF losing # {} THEN losing ELSE winning, Discard, LowPower)

\* chooseRolloutCard, of a seat that leads.
Lead(d, state, bidOf, view) ==
  LET hand == state.hands[d]
      needed == bidOf[d] - state.won[d]
      wanted == needed > 0 /\ needed <= Cardinality(hand)
      all == AllDraws(d, state, view)
      Chance(c) == CardWinChance(d, state, view, c)
      LowChance(c) == -Chance(c)
      LowPower(c) == -(c.rank + (IF c.suit = view.trump THEN 20 ELSE 0))
      Discard(c) == DiscardValue(c, hand, view.trump)
      controlled == ControlledTrumps(d, state, view)
      sideHonor == \E c \in hand : c.suit # view.trump /\ c.rank >= Max(Ranks) - 1
      likely == {c \in hand : 100 * Chance(c) >= 62 * all}
      certain == {c \in likely : 100 * Chance(c) >= 96 * all}
      singletons == {c \in hand : c.suit # view.trump /\ OfSuit(hand, c.suit) = {c}}
      shed == Foremost(singletons, Chance, Discard)
  IN IF wanted /\ controlled # {} /\ (needed >= 2 \/ sideHonor)
     THEN CHOOSE c \in controlled : \A e \in controlled : c.rank <= e.rank
     ELSE IF wanted /\ likely # {}
     THEN Foremost(IF certain # {} THEN certain ELSE likely, LowPower, Chance)
     ELSE IF singletons # {} /\ 100 * Chance(shed) < 55 * all THEN shed
     ELSE Foremost(hand, LowChance, Discard)

ChooseRolloutCard(d, revenge, state, bidOf, view) ==
  LET legal == LegalFrom(state.hands[d], state.trick) IN
  IF Cardinality(legal) = 1 THEN CHOOSE c \in legal : TRUE
  ELSE IF state.trick # <<>> THEN Follow(d, revenge, state, bidOf, view)
  ELSE Lead(d, state, bidOf, view)

\* simulate of advancedRollout.ts, up to the score.
RECURSIVE SimulateFurther(_, _, _, _)
SimulateFurther(state, shaitaan, bidOf, view) ==
  LET d == view.seatOrder[state.turnSeat + 1]
      revenge == shaitaan /\ d = view.botId
  IN IF state.hands[d] = {} THEN state
     ELSE SimulateFurther(PlayInto(state, d, ChooseRolloutCard(d, revenge, state, bidOf, view), view),
                          shaitaan, bidOf, view)

-------------------------------------------------------------------------------
(* Properties.                                                             *)

Deciding == Bidding \/ Playing
Decider == IF Bidding THEN Bidder ELSE ToPlay

\* The reference: every state in which a round can end, and in which a hand can.
RECURSIVE Playouts(_, _)
Playouts(state, view) ==
  LET d == view.seatOrder[state.turnSeat + 1] IN
  IF state.hands[d] = {} THEN {state}
  ELSE UNION {Playouts(PlayInto(state, d, card, view), view) :
                card \in LegalFrom(state.hands[d], state.trick)}
RECURSIVE Winners(_, _)
Winners(state, view) ==
  LET d == view.seatOrder[state.turnSeat + 1] IN
  IF state.trick = <<>> THEN {d}
  ELSE UNION {Winners(PlayInto(state, d, card, view), view) :
                card \in LegalFrom(state.hands[d], state.trick)}

\* The playouts a move is judged by are rounds the engine could play: their deals are the
\* possible ones, each hand of them is the whole hand that its player bid from, and every
\* playout comes to the end of the round with each hand won by somebody, though simulate
\* stops as soon as the seat in turn has no card.
PlayoutsArePossibleRounds ==
  Deciding =>
    LET view == View(Decider)
        deals == SampleOpponentHands(view)
        Ended(end) ==
          /\ Terminal(end)
          /\ MapThenSumSet(LAMBDA d : end.won[d], Seated) = HandSize(round)
    IN
    /\ deals = EnumerateDeals(view)
    /\ \A deal \in deals :
         /\ \A d \in Seated : Cardinality(OriginalHand(view, d, deal[d])) = HandSize(round)
         /\ LET start == InitialState(view, deal)
                auction == ProjectRemainingBids(view, Bid(Decider), [d \in Seated |-> Min(QuickBids(view, deal[d]))])
                ends == Playouts(start, view)
            IN /\ Simulate(start, auction, view) \in ends
               /\ \A shaitaan \in BOOLEAN : SimulateFurther(start, shaitaan, auction, view) \in ends
               /\ \A end \in ends : Ended(end)

\* What a bot takes for certain is certain: a card that surely wins the hand wins it in
\* every deal the bot thinks possible, whatever the others play, and one that never does
\* can be beaten in all of them.  So is what a floor under a bid and the lead of a
\* controlled trump rest on: with an empty table a seat wins at least as many more hands
\* as it has guaranteed trumps, and a controlled trump it leads wins.
CertaintiesHold ==
  Deciding =>
    LET view == View(Decider)
        deals == EnumerateDeals(view)
        WinnersAfter(deal, card) == Winners(PlayInto(InitialState(view, deal), Decider, card, view), view)
    IN
    /\ currentTrick = <<>> =>
         \A deal \in deals : \A end \in Playouts(InitialState(view, deal), view) :
           end.won[Decider] - tricksWon[Decider] >= Cardinality(GuaranteedTrumpCards(view))
    /\ Playing =>
         \A card \in LegalCards(ToPlay) :
           LET chance == WinChanceNow(view, card) IN
           \A deal \in deals :
             /\ chance = "surely" => WinnersAfter(deal, card) = {ToPlay}
             /\ chance = "never" => WinnersAfter(deal, card) # {ToPlay}
             /\ (currentTrick = <<>> /\ card \in ControlledTrumps(ToPlay, InitialState(view, deal), view)) =>
                  WinnersAfter(deal, card) = {ToPlay}
===============================================================================
