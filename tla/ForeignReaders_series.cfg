SPECIFICATION FairSpec
CONSTANTS
  ForeignLists <- Series
  Byte <- MCByte
  Uninitialized <- MCUninitialized
PROPERTY ReadingEnds
CHECK_DEADLOCK FALSE
