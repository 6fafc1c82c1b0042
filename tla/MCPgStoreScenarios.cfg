SPECIFICATION ScenarioSpec
CONSTANTS
  c1 = c1
  c2 = c2
  c4 = c4
  c5 = c5
  p1 = p1
  p2 = p2
  f1 = f1
  f2 = f2
  k1 = k1
  k2 = k2
  Unset = Unset
  Calls = {c1, c2, c4, c5}
  Ids <- MCIds
  RowId <- MCRowId
  Projects = {p1, p2}
  ProjectOf <- MCProjectOf
  TimeOf <- MCTimeOf
  Bad = {c4}
  Flights = {f1, f2}
  Clears = {k1, k2}
  Scopes <- AllOrScoped
  Readers = {r1}
  Faults = TRUE
  FlushMax = 2
  CleanupInterval = 10
  MaxPerProject = 10
  TrimBatch = 1
SYMMETRY Perms
INVARIANTS
  TypeOK
  TimerCovers
  OnePlace
  Durable
  ClearIsFinal
PROPERTIES
  ImplementsLogStore
CHECK_DEADLOCK FALSE
