SPECIFICATION Spec
CONSTANTS
  DaySec = 4
  SettleSec = 1
  PollSec = 1
  RecordLag = 0
  ThirstSec = 2
  EscalateSec = 4
  UnreachableSec = 3
  MaxVisits = 4
  MaxMsg = 8
  StreakMax = 3
  Start = 9
  OutboxMax = 2
  UpdatesLimit = 1
  MaxDown = 2
  MaxTime = 13
  Budgets <- Trouble
  Readings <- Empties
INVARIANTS
  TypeOK
  AlarmNotRepeated
  VisitsDurable
  ReportCompleteAfterRestart
  ReportsNotSkipped
  SavedCommandsAnswered
CHECK_DEADLOCK FALSE
