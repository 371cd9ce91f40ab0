SPECIFICATION Spec
CONSTANTS
  Backlogs <- Layouts
  RecLen = 2
  BlobMax = 8
  AskEvery = 2
  Quiet = 5
  Timeout = 10
  AirMax = 2
  MaxMissed = 2
INVARIANTS
  TypeOK
  AckCoversChunk
  PromptReadCompletes
PROPERTIES
  KeepsHistoryRead
CHECK_DEADLOCK FALSE
