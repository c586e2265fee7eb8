SPECIFICATION FairSpec
CONSTANTS
  MaxAttempts = 2
  LogCap = 2
  Said = {"port", "data", "other"}
  MaxTimeouts = 2
  MaxLines = 2
  MaxWindows = 2
INVARIANTS
  TypeOK
  NoOrphanServer
  BindFailureNamed
PROPERTIES
  NeverHangs
CHECK_DEADLOCK FALSE
