SPECIFICATION PcSpec
CONSTANTS
  Backlogs <- Layouts
  RecLen = 2
  BlobMax = 12
  AskEvery = 2
  Quiet = 5
  Timeout = 10
  AirMax = 2
  MaxMissed = 2
  MaxRecords = 6
INVARIANTS
  PcPromptReadCompletes
PROPERTIES
  PcKeepsHistoryRead
CHECK_DEADLOCK FALSE
