SPECIFICATION FairSpec
CONSTANTS
  NProcessors = 2
  DataIdOf <- MCDataIdOf
  DataIds = {"adc"}
  StartCodes = {0, 1, 2}
  RecordCodes = {0, 3}
  EndCodes = {0, 1}
  HeaderFaults = {"xml", "runControl"}
  Modes = {FALSE}
  Lossy = FALSE
  QueueLength = 1
  Numbers = 2
INVARIANTS
  RecordsInStartedRuns
  RightRun
PROPERTIES
  StartsPaired
  
CHECK_DEADLOCK FALSE
