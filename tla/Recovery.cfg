SPECIFICATION FairSpec
CONSTANTS
  None = None
  NoRecord = NoRecord
  NoHash = NoHash
  Tabs = {t1}
  Nobody = Nobody
  Ghost = Ghost
  MaxHandlers = 2
  MaxVisits = 1
  MaxEvents = 3
INVARIANTS TypeOK SeatReclaimable WritesInOrder ExitedRoomIsForgotten
PROPERTIES MemoryIsNotUndone MembersAreAnswered
CHECK_DEADLOCK FALSE
