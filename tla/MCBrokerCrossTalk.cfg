CONSTANTS
  NoSession = NoSession
  Session = {s1, s2, s3, s4}
  MaxGo = 2
  MaxOut = 1
SPECIFICATION Spec
INVARIANT NoForeignBestmove
SYMMETRY Interchangeable
CONSTRAINT Abrupt
CHECK_DEADLOCK FALSE
