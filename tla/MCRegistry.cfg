CONSTANTS
  T = 2
  MaxVersion = 3
  Threads = {t1, t2}
  Tokens = {k1, k2}
  TokenTTL = 1
  MaxTime = 5
SPECIFICATION Spec
SYMMETRY ThreadSymmetry
CONSTRAINT LastVersionAlone
INVARIANTS
  TypeOK
  RecoveryCutsOff
  TokensPayForCredentials
  OneEnrollment
PROPERTIES
  RowsImplementWindow
  RowsSurvive
CHECK_DEADLOCK FALSE
