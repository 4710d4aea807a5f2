CONSTANTS
  NoFlight = NoFlight
  NoEntry = NoEntry
  Request = {r1, r2, r3}
  Key = {k1}
  Ttl = 2
  MaxTime = 2
SPECIFICATION Spec
SYMMETRY Interchangeable
INVARIANT HitsAreFresh
CHECK_DEADLOCK FALSE
