SPECIFICATION FairSpec
CONSTANTS
  h1 = h1  h2 = h2  b1 = b1  b2 = b2
  Humans = {h1, h2}
  Bots = {b1, b2}
  Devices = {h1, h2, b1, b2}
  SeatOrders <- Orders
  Rounds = 1
  MaxHand = 2
  MaxDeals = 2
  MaxOwing = 1
  NoTimer = NoTimer
INVARIANTS TypeOK AutomationArmed
PROPERTIES TimerPlaysItsTurn TableProgresses
CHECK_DEADLOCK FALSE
