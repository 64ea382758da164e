CONSTANTS
  T = 4
  MaxVersion = 2
  Timeout = 1
  MaxTime = 6
  LastSubmit = 2
  MaxQueue = 3
  MaxFaults = 2
  ServerKeys = 2
  Restarts = TRUE
SPECIFICATION FairSpec
INVARIANTS
  TypeOK
  ClientNeverAhead
  NeverLockedOut
  RolledBackTogether
PROPERTIES
  RotationCompletes
CHECK_DEADLOCK FALSE
