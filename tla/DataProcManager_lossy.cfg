SPECIFICATION Spec
CONSTANTS
  NProcessors = 2
  DataIdOf <- MCDataIdOf
  DataIds = {"adc"}
  StartCodes = {0, 1, 2}
  RecordCodes = {0, 2, 3}
  EndCodes = {0, 1}
  HeaderFaults = {"xml", "runControl"}
  Modes = {FALSE, TRUE}
  Lossy = TRUE
  QueueLength = 1
  Numbers = 1
INVARIANTS
  SwappedOnce
  NoRunLeftOpen
CHECK_DEADLOCK FALSE
