CONSTANTS
  Sessions = {s1, s2}
  Readers = {r1}
  Size = 3
  MaxAttempts = 4
  MaxTimeouts = 2
  MaxPolicies = 2
SPECIFICATION Spec
SYMMETRY Symmetry
INVARIANTS
  TypeOK
  SealedIntact
  WithdrawnStops
PROPERTIES
  ImplementsStore
CHECK_DEADLOCK FALSE
