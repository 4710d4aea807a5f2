\* Two requests share a pool of two engines.  Six identities are enough
\* for the two counted engines, a fresh one per request, one of the healer and
\* one that a failed creation left running.
CONSTANTS
  NoEngine = NoEngine
  Caller = {c1, c2}
  Engine = {e1, e2, e3, e4, e5, e6}
  Target = 2
  MaxStray = 1
SPECIFICATION FairSpec
INVARIANTS SlotsAccounted NoOrphanEngine TaintedNeverServes
PROPERTIES ClosedPoolNeverGrows QuietPoolRefills CloseTerminates
