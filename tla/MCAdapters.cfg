SPECIFICATION FairSpec
CONSTANTS
  Fetches = {f1, f2}
  Axios = Axios
  Cycle = Cycle
  Native = Native
  None = None
  Calls = {c1}
  Projects = {p1, p2}
  MaxChanges = 4
INVARIANTS
  TypeOK
  HostUnharmed
  EndFollowsStart
PROPERTIES
  StartIsEnded
CHECK_DEADLOCK FALSE
