SPECIFICATION MCSpec
CONSTANTS
  Sockets = {s1, s2}
  MaxQueued = 0
  Faults = TRUE
  MaxSessions = 2
  MaxEvents = 2
INVARIANTS
  TypeOK
  HeartbeatCovers
  NoOrphan
  Gapless
PROPERTIES
  GoneLeave
CHECK_DEADLOCK FALSE
