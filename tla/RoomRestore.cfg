CONSTANTS
  d1 = d1
  d2 = d2
  d3 = d3
  d4 = d4
  Null = Null
  Devices = {d1, d2, d3, d4}
  Leavers = {d1, d3}
  SeatOrders <- ThreeThenTwo
  TrumpRotation <- TwoSuits
  Ranks <- ThreeRanks
  Decks <- TwoShuffles
  Rounds = 2
  MaxHand = 2
  BidInput <- ZeroOne
  LegacySnapshots = TRUE
  MaxScore = 2
CHECK_DEADLOCK FALSE
SPECIFICATION RSpec
INVARIANTS
  RestoreIsIdentity
  LedgerCompleteUnlessWinnerLeft
  HandNumbersMarkHands
  ScoresheetAddsUp
  BotMovesAreAccepted
  BotsPlanOnTheTruthUnlessLeaderLeft
  ClientAgreesWithEngine
PROPERTIES
  ImplementsTable
  SomeoneMissesBidAtFullTable
  SimulationFollowsGame
