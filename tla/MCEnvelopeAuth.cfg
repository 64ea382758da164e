CONSTANTS
  Envelopes = {e1,e2,e3}
  Threads = {t1,t2,t3}
  MaxEntries = 2
  Window = 0
  MaxTime = 2
  MaxArrivals = 2
  MaxRestarts = 1
SPECIFICATION Spec
SYMMETRY Symmetry
INVARIANTS
  TypeOK
  LastSeenKept
  AcceptedOnce
CHECK_DEADLOCK FALSE
