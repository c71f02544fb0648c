SPECIFICATION MCSpec
CONSTANTS
  Page = 16
  Samples = 2
  Longest = 4
  Arriving <- MCArriving
  Chains <- MCChains
  KnownMisread <- MCKnownMisread
  KnownNarrow <- MCKnownNarrow
  KnownUnswapped <- MCKnownUnswapped
  NCards = 2
  NChannels = 2
  Blocks <- MCBlocks
  LastEvent = 3
  Runs = 2
  Channels = {"a", "b", "c"}
  TotalOf <- MCTotalOf
  Waveforms = 2
  MaxFragment = 2
  Lossy = {"b"}
  MaxWords = 4
  Values = {0, 1, 2, 5}
  EventHead = 1
  ChanHead = 1
INVARIANTS
  RecordsRead
  RecordsSwapped
  ColumnsFilled
  MultiCardTree
  RowsOfOneCard
  FragmentsCollected
  EventsFound
  SettingsFound
CHECK_DEADLOCK FALSE
