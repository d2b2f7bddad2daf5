CONSTANTS
  d1 = d1
  d2 = d2
  d3 = d3
  d4 = d4
  Null = Null
  Devices = {d1, d2, d3}
  Leavers = {}
  SeatOrders <- ThreeThenTwo
  TrumpRotation <- TwoSuits
  Ranks <- ThreeRanks
  Decks <- SomeDeals
  Rounds = 1
  MaxHand = 2
  BidInput <- UpToTwo
  MaxScore = 0
  Kinds = {"bhola", "shaitaan", "ustaad"}
  SearchOptions <- Options
  TreeNodes = 15
  TreeIterations = 3
CHECK_DEADLOCK FALSE
SPECIFICATION BSpec
INVARIANTS
  BidsKeepTheFloor
  PlayoutsArePossibleRounds
  CertaintiesHold
  CompleteIsExact
  TreeAddsUp
