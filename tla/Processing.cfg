SPECIFICATION AnySpec
CONSTANTS
  ForeignLists <- MCForeignLists
  Byte <- MCByte
  Uninitialized <- MCUninitialized
  Lists <- MCLists
  MaxLength = 2
  Setups <- MCSetups
  SubRuns = {0, 1}
  MaxRuns = 2
  MaxRecords = 5
  Channels = {"a", "b"}
  DeadChannels = {"b"}
  Cut = 1
  Period = 2
  MaxTime = 5
  MaxShapers = 3
  Offers <- MCOffers
  MaxRequests = 3
INVARIANTS
  AllInOrder
  RecordsOfForeignFile
  EventRows
  PairedRows
  FileOfOwnRun
  NoiseIsCut
  RateOfOnePeriod
  AnswersMatch
  ResultsFromOwnInputs
CHECK_DEADLOCK FALSE
