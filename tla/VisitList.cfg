SPECIFICATION Spec
CONSTANTS
  DaySec = 3
  SettleSec = 0
  PollSec = 1
  RecordLag = 0
  ThirstSec = 1
  EscalateSec = 2
  UnreachableSec = 3
  MaxVisits = 3
  MaxMsg = 8
  StreakMax = 3
  Horizon = 8
  Word = 16
INVARIANTS
  SortedWindow
  DaySlicesExact
  LoopsMatchSets
