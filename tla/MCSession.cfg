SPECIFICATION Spec
CONSTANTS
  Tabs = {t1, t2}
  Browsers = {b1, b2}
  Emails = {e1}
  None = None
  Lifetime = 0
  Faults = TRUE
  MaxNow = 1
  MaxForms = 2
  MaxRequests = 2
SYMMETRY Symmetry
INVARIANTS
  TypeOK
  VerdictWasTrue
  GivenWasStored
CHECK_DEADLOCK FALSE
