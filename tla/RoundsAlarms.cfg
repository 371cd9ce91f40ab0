SPECIFICATION Spec
CONSTANTS
  DaySec = 6
  SettleSec = 2
  PollSec = 2
  RecordLag = 1
  ThirstSec = 3
  EscalateSec = 6
  UnreachableSec = 6
  MaxVisits = 5
  MaxMsg = 8
  StreakMax = 3
  FirstPoll <- Starts
  OldRecords <- Old
  MaxTime = 19
  MaxDrinks = 1
  MaxFails = 4
  MaxShorts = 4
  MaxSyncs = 0
  Readings <- Troubles
INVARIANTS
  TypeOK
  MessagesAreEdges
  ReceiptExact
  BlindIsSilentAndLoud
CHECK_DEADLOCK FALSE
