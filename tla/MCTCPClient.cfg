CONSTANTS
  Call = {c1}
  MultiPVs = {1, 3}
  MaxRetries = 1
  Threshold = 3
  Window = 5
  Cooldown = 2
  Horizon = 9
SPECIFICATION ClientSpec
INVARIANT SearchesRunAsAsked
PROPERTIES AnswersAreOwn RefusalsFollowABurst
CHECK_DEADLOCK FALSE
