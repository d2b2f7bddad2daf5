CONSTANTS
  x = x
  y = y
  b = b
  x1 = x1
  x2 = x2
  y1 = y1
  Nobody = Nobody
  Humans = {x, y}
  Bots = {}
  Sockets = {x1, y1}
  DeviceOf <- TwoTabs
  MaxPlayers = 2
  MaxActive = 2
  MaxRooms = 2
  MaxWaiting = 1
CHECK_DEADLOCK FALSE
SPECIFICATION FairSpec
PROPERTIES
  AbandonedGamesGo
