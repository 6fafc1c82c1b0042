SPECIFICATION FairSpec
CONSTANTS
  Requests = 5
  KindOf <- Projects2
  Scenarios <- ScrollingOrWatching
  PageSize = 2
  MaxLogs = 4
  MaxBuffer = 2
  MaxPending = 1
INVARIANTS
  TypeOK
  ListIsExact
  ScrollReachesAll
  EndedNotPending
PROPERTIES
  BecomesReady
CHECK_DEADLOCK FALSE
