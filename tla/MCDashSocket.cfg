SPECIFICATION FairSpec
CONSTANTS
  MaxMounts = 2
  MaxSockets = 3
  Base = 2
  Limit = 3
INVARIANTS
  TypeOK
  OneTrueSocket
PROPERTIES
  ImplementsLink
  BadTokenLeaves
CHECK_DEADLOCK FALSE
