SPECIFICATION Spec
CONSTANTS
  BufferLength = 32
  RecordLengths <- MCRecordLengths
  Requests <- MCRequests
  MaxWords = 63
INVARIANT NoOverrun
CHECK_DEADLOCK FALSE
