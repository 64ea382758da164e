CONSTANTS
  T = 4
  MaxVersion = 3
  Timeout = 9
  MaxTime = 8
  LastSubmit = 5
  MaxQueue = 1
  MaxFaults = 0
  ServerKeys = 1
  Restarts = FALSE
SPECIFICATION Spec
INVARIANTS
  ReplacementPossible
CHECK_DEADLOCK FALSE
