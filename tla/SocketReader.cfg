SPECIFICATION FairSpec
CONSTANTS
  BufferLength = 32
  RecordLengths <- MCRecordLengths
  Requests <- MCRequests
  Cuts <- MCCuts
  MaxRecords = 4
  MaxWords = 52
PROPERTIES
  ImplementsStream
  DeliversAll
CHECK_DEADLOCK FALSE
