SPECIFICATION Spec
CONSTANTS
  Initiator = lo
  Polite = hi
  NoPeer = NoPeer
  MaxFaults = 1
  MaxDescriptions = 4
INVARIANT SettledIsConnected
CHECK_DEADLOCK FALSE
