SPECIFICATION FairSpec
CONSTANTS
  MaxBuffer = 2
  MaxQueued = 0
  FirstDelay = 1
  MaxDelay = 3
  MaxSent = 5
INVARIANTS
  TypeOK
  Accounted
  OneRecovery
  InOrder
PROPERTIES
  ImplementsLink
CHECK_DEADLOCK FALSE
