CONSTANTS
  g1 = g1  g2 = g2  s1 = s1  p1 = p1  p2 = p2  p3 = p3
  Gather = {g1, g2}
  Single = {s1}
  Position = {p1, p2, p3}
  Boards <- MCGames
  Wanted <- MCWanted
  Short <- MCShort
  PoolSize = 3
  Permits = 3
  NoTask = NoTask
  MaxRetries = 1
  Threshold = 2
  Window = 1
  Cooldown = 1
SPECIFICATION FairSpec
INVARIANTS NothingLeaks
PROPERTIES KeepsPromise TasksEnd
CHECK_DEADLOCK FALSE
