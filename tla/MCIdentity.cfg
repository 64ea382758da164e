CONSTANTS
  T = 14
  MaxVersion = 4
  Interval = 2
  MaxTime = 44
  MaxStarts = 3
  MaxFailures = 1
SPECIFICATION Spec
INVARIANTS
  TypeOK
  RowsConsistent
  KeysMatchRows
  NeverExpires
  KeysHeldWhileUp
PROPERTIES
  FullCoverage
  RefusedInPassing
CHECK_DEADLOCK FALSE
