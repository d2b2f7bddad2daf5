CONSTANTS
  x = x
  y = y
  b = b
  x1 = x1
  x2 = x2
  y1 = y1
  Nobody = Nobody
  Humans = {x, y}
  Bots = {b}
  Sockets = {x1, x2, y1}
  DeviceOf <- TwoTabs
  MaxPlayers = 3
  MaxActive = 1
  MaxRooms = 2
  MaxWaiting = 1
CHECK_DEADLOCK FALSE
SPECIFICATION FairSpec
INVARIANTS
  TypeOK
  SeatsAreGameSeats
  OfferedSeatIsFree
  DepartedStayOut
PROPERTIES
  ConnectedPlayersKeepSeats
  AbandonedRoomsGo
