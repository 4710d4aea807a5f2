CONSTANTS
  Client = {a, b}
  Rate = 1
  Capacity = 2
  MaxBuckets = 1
  Kept = 1
  IdleLimit = 2
  Locked = TRUE
  MaxBody = 9
  Lengths = {2, 10}
  NoLength = NoLength
  Horizon = 5
SPECIFICATION AdmissionSpec
SYMMETRY Interchangeable
CONSTRAINT FewEvictions
INVARIANT PassedKeepsTheRate
CHECK_DEADLOCK FALSE
