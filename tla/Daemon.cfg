SPECIFICATION FairSpec
CONSTANTS
  Pids = {p1, p2}
  MaxConnections = 1
  MaxInterrupts = 3
  MaxStops = 2
INVARIANTS
  RecordExact
  AtMostMax
PROPERTY InterruptEndsDaemon
CHECK_DEADLOCK FALSE
