SPECIFICATION FairSpec
CONSTANTS
  Tabs = {t1, t2}
  Browsers = {b1}
  Emails = {e1}
  None = None
  Lifetime = 0
  Faults = FALSE
  MaxNow = 1
  MaxForms = 1
  MaxRequests = 2
PROPERTIES
  BadTokenOut
CHECK_DEADLOCK FALSE
