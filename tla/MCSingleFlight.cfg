CONSTANTS
  NoFlight = NoFlight
  Request = {r1, r2, r3, r4}
  Key = {k1, k2}
SPECIFICATION FairSpec
INVARIANTS OneProducerPerKey WaitersShareTheFlight
PROPERTY WaitersEnd
CHECK_DEADLOCK FALSE
