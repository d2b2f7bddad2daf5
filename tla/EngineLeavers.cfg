CONSTANTS
  d1 = d1
  d2 = d2
  d3 = d3
  d4 = d4
  Null = Null
  Devices = {d1, d2, d3, d4}
  Leavers = {d1, d2, d3, d4}
  SeatOrders <- ThreeSeats
  TrumpRotation <- TwoSuits
  Ranks <- ThreeRanks
  Decks <- PairDeals
  Rounds = 1
  MaxHand = 2
  BidInput <- UpToTwo
  MaxScore = 0
CHECK_DEADLOCK FALSE
SPECIFICATION OneGameSpec
INVARIANTS
  TypeOK
  VoidSuitsSound
  CardsConserved
  DealerBidsLast
  PileFollowsSeats
  ActorCanMove
