CONSTANTS
  T = 4
  MaxVersion = 2
  Timeout = 20
  MaxTime = 9
  LastSubmit = 1
  MaxQueue = 2
  MaxFaults = 1
  ServerKeys = 1
  Restarts = FALSE
SPECIFICATION FairSpec
PROPERTIES
  RetriesDecide
CHECK_DEADLOCK FALSE
