SPECIFICATION FairSpec
CONSTANTS
  c1 = c1
  c2 = c2
  c4 = c4
  c5 = c5
  p1 = p1
  p2 = p2
  f1 = f1
  f2 = f2
  k1 = k1
  k2 = k2
  Unset = Unset
  Calls = {c1, c4}
  Ids <- MCIds
  RowId <- MCRowId
  Projects = {p1}
  ProjectOf <- MCProjectOf
  TimeOf <- MCTimeOf
  Bad = {c4}
  Flights = {f1, f2}
  Clears = {k1}
  Scopes <- AllOrScoped
  Readers = {}
  Faults = TRUE
  FlushMax = 2
  CleanupInterval = 1
  MaxPerProject = 0
  TrimBatch = 1
PROPERTIES
  EverythingEnds
CHECK_DEADLOCK FALSE
