CONSTANTS
  T = 4
  MaxVersion = 4
  MaxTime = 11
  LastSubmit = 5
SPECIFICATION FairSpec
INVARIANTS
  TypeOK
  WindowWellFormed
  FallbackCovered
  LifetimeBounded
PROPERTIES
  NoRevival
  ImplementsWindow
  SuccessorResolved
