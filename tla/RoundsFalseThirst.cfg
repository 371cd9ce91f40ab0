SPECIFICATION Spec
CONSTANTS
  DaySec = 6
  SettleSec = 2
  PollSec = 2
  RecordLag = 1
  ThirstSec = 3
  EscalateSec = 6
  UnreachableSec = 6
  MaxVisits = 5
  MaxMsg = 8
  StreakMax = 3
  FirstPoll <- Starts
  OldRecords <- Old
  MaxTime = 21
  MaxDrinks = 2
  MaxFails = 2
  MaxShorts = 1
  MaxSyncs = 1
  Readings <- Healthy
INVARIANTS
  ThirstAlwaysTrue
CHECK_DEADLOCK FALSE
