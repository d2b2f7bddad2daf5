SPECIFICATION Spec
CONSTANTS
  k1 = k1  k2 = k2
  Members = {k1, k2}
  AddressOf <- TwoAddresses
  TTL = 3
  CacheTime = 2
  FailureTime = 1
  HourWindow = 2
  HourlyLimit = 1
  DayWindow = 3
  DailyLimit = 2
  NoEntry = NoEntry
  NoCounter = NoCounter
  Fallback = Fallback
  MaxTime = 4
  MaxRequests = 3
INVARIANTS AllowanceIsKept CacheServesLiveCredentials
CHECK_DEADLOCK FALSE
