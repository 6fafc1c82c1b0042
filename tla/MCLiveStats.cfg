SPECIFICATION Spec
CONSTANTS
  Params = {p1, p2}
  Slots = {s1, s2}
  Interval = 3
  TTL = 2
  MaxAnswer = 1
  None = None
SYMMETRY Symmetry
INVARIANTS
  TypeOK
  AnswersQuestion
  UpToDate
CHECK_DEADLOCK FALSE
