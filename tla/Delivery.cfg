SPECIFICATION Spec
CONSTANTS
  MaxRetry = 1
  MaxDrops = 1
  OutboxMax = 2
  MaxAttempt = 3
  MaxBatch = 2
  MaxMade = 4
INVARIANTS
  TypeOK
  StartOkMeansIp
  FailIsEarned
  QuietAfterStop
  WatchdogFed
PROPERTIES
  KeepsPromise
  Delivered
