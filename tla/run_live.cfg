SPECIFICATION FairSpec
CONSTANTS
  w1 = w1
  w2 = w2
  c1 = c1
  c2 = c2
  Nobody = Nobody
  MaxRuns = 1
  Workers <- TwoWorkers
  Callers <- OneCaller
  MaxResumeAttempts = 1
  NumNodes = 2
  Durable = FALSE
  PoisonedSessions = TRUE
CHECK_DEADLOCK FALSE
PROPERTIES
  LockReleased
  RunningEnds
