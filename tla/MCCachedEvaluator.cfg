CONSTANTS
  NoFlight = NoFlight
  NoValue = NoValue
  Garbage = Garbage
  Request = {r1, r2, r3}
  Key = {k1, k2}
  L1Size = 1
SPECIFICATION MCSpec
INVARIANTS MemoryBackedByDisk AnswersMatchTheirKey
PROPERTIES NoRedundantSearch RequestsEnd
CHECK_DEADLOCK FALSE
