SPECIFICATION Spec
CONSTANTS
  BufferLength = 32
  RecordLengths <- MCRecordLengths
  Requests <- MCRequests
  MaxWords = 79
INVARIANTS
  FifoContents
  FaithfulCopy
PROPERTIES
  NoOverwrite
  OverrunOnlyWhenFull
CHECK_DEADLOCK FALSE
