SPECIFICATION Spec
CONSTANTS
  None = None
  NoRecord = NoRecord
  NoHash = NoHash
  Tabs = {t1, t2}
  Nobody = Nobody
  Ghost = Ghost
  MaxHandlers = 2
  MaxVisits = 2
  MaxEvents = 1
INVARIANT SupersededTabStaysOut
CHECK_DEADLOCK FALSE
