CONSTANTS
  T = 4
  MaxVersion = 3
  Conns = {c1, c2}
  MaxTime = 5
SPECIFICATION Spec
INVARIANTS
  TypeOK
  EnrolledOnce
  RelaysOnFresh
PROPERTIES
  CacheAdvances
CHECK_DEADLOCK FALSE
