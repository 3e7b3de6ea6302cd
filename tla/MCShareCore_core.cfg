SPECIFICATION FairCoreSpec
CONSTANTS
  r1 = r1
  None = None
  Rooms = {r1}
  CloseReports = TRUE
  MaxFaults = 3
INVARIANTS
  IdleIsClosed
  LossIsPending
  NothingLeaks
  OnAirIsLive
PROPERTIES
  LockIsReturned
  LossEnds
CHECK_DEADLOCK FALSE
