CONSTANTS
  T = 4
  MaxVersion = 3
  Interval = 1
  MaxTime = 11
  MaxStarts = 2
  MaxFailures = 0
SPECIFICATION Spec
INVARIANTS
  ActiveKeysHeld
CHECK_DEADLOCK FALSE
