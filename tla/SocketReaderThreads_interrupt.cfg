SPECIFICATION FairSpec
CONSTANTS
  Capacity = 3
  Batch = 2
PROPERTY ExitsNicely
CHECK_DEADLOCK FALSE
