SPECIFICATION FairSpec
CONSTANTS
  Capacity = 3
  Batch = 2
INVARIANTS
  BufferOutlivesThread
  SelfDeadlockOnlyAfterCut
PROPERTIES
  ReadGetsLock
  ClosesDown
CHECK_DEADLOCK FALSE
