SPECIFICATION Spec
CONSTANTS
  Requests = 3
  KindOf <- OneProject
  Scenarios <- OnlyReturning
  PageSize = 2
  MaxLogs = 3
  MaxBuffer = 2
  MaxPending = 1
INVARIANTS
  ScrollGoesOn
CHECK_DEADLOCK FALSE
