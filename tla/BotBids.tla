------------------------------- MODULE BotBids --------------------------------
(***************************************************************************)
(* How a bot chooses a bid (server/src/bots/strategy.ts).  What the scores *)
(* prefer is left out: modelled is what they cannot override, the cards    *)
(* that are bound to win and Ustaad's ceiling.                             *)
(***************************************************************************)
EXTENDS BotKnowledge

MinimumSensible(view) == Min({Cardinality(GuaranteedTrumpCards(view)), view.cardsThisRound})

\* chooseBidHeuristic: a bid below the floor loses more points than all the rest of the
\* score can bring, and Bhola's blunder keeps to the floor as well.
HeuristicBids(view) == {bid \in LegalBids(view) : bid >= MinimumSensible(view)}
\* chooseBidWithoutConfidenceCeiling: the bid above, or the one with the best estimate
\* of those at or above the floor.
BidsWithoutCeiling(view) ==
  HeuristicBids(view) \cup {bid \in LegalBids(view) : bid >= MinimumSensible(view)}

\* (mutant) no bid above what the cards promise.
CeilingsWithoutExcess(view) ==
  {Max({Cardinality(GuaranteedTrumpCards(view)), expected}) :
     expected \in Cardinality(GuaranteedTrumpCards(view))..Cardinality(view.hand)}
\* The ceiling: the hands expected, which are between the guaranteed ones and the whole
\* hand, and 1.25 more, rounded up.
Ceilings(view) ==
  {Max({Cardinality(GuaranteedTrumpCards(view)), expected + 2}) :
     expected \in Cardinality(GuaranteedTrumpCards(view))..Cardinality(view.hand)}

\* chooseBidWithConfidenceCeiling, of Ustaad.
UnderCeiling(view, original, ceiling) ==
  LET alternatives == {bid \in LegalBids(view) : bid <= ceiling} IN
  IF original <= ceiling \/ alternatives = {} THEN original ELSE Max(alternatives)
\* chooseBid: what a bot may bid, Ustaad or not.
ChooseBids(view) ==
  BidsWithoutCeiling(view) \cup
  {UnderCeiling(view, original, ceiling) :
     original \in BidsWithoutCeiling(view), ceiling \in Ceilings(view)}

-------------------------------------------------------------------------------
\* "Guaranteed top-trump hands remain a hard floor and dealer-restricted bids are never
\* reintroduced" (strategy.ts:482-483): whatever the estimates say, a bot has a bid, the
\* engine accepts it, and it is not below the hands that are bound to be won.
BidsKeepTheFloor ==
  Bidding =>
    LET view == View(Bidder) IN
    /\ ChooseBids(view) # {}
    /\ \A bid \in ChooseBids(view) :
         /\ bid \in 0..MaxBid(round) /\ ~DealerRestricted(Bidder, bid)
         /\ bid >= Cardinality(GuaranteedTrumpCards(view))
===============================================================================
