CONSTANTS
  NoSession = NoSession
  Session = {s1, s2}
  MaxGo = 2
  MaxOut = 2
SPECIFICATION FairSpec
INVARIANTS OneSessionAtTheEngine ReadyokSeparatesSearches SearchesRunUnderOwnOptions
PROPERTIES StopHitsItsTarget SearchesEnd
CHECK_DEADLOCK FALSE
