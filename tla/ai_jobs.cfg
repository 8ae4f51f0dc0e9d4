SPECIFICATION FairSpec
CONSTANTS
  Jobs = {j1, j2}
  Limit = 1
  RateLimit = 1
  MaxAttempts = 2
  MaxDelays = 1
  MaxStalls = 1
  MaxCrashes = 1
  SlowAgent = FALSE
INVARIANTS WithinLimit TextsCounted
PROPERTY JobsEnd
CHECK_DEADLOCK FALSE
