CONSTANTS
  T = 2
  MaxVersion = 2
  Threads = {t1, t2}
  Tokens = {k1}
  TokenTTL = 2
  MaxTime = 4
SPECIFICATION Spec
PROPERTIES
  RevocationHolds
CHECK_DEADLOCK FALSE
