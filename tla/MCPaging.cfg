SPECIFICATION PagingSpec
CONSTANTS
  Ids = {1, 2, 3, 4}
  Times = {0, 1, 3}
  Tick = 3
  ChartRange = 2
  Attr <- MCAttr
  Filters <- MCFilters
  None = None
  BarCount = 1
  MaxProxies = 2
  MaxHosts = 2
  MaxEntries = 3
  Batch = 2
  MaxClientLogs = 3
  Ages = {0, 4}
INVARIANTS
  PagingTypeOK
  ExportExact
  FiguresTrue
CHECK_DEADLOCK FALSE
