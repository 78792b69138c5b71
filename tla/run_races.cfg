SPECIFICATION Spec
CONSTANTS
  w1 = w1
  w2 = w2
  c1 = c1
  c2 = c2
  Nobody = Nobody
  MaxRuns = 2
  Workers <- TwoWorkers
  Callers <- TwoCallers
  MaxResumeAttempts = 1
  NumNodes = 2
  Durable = TRUE
  PoisonedSessions = FALSE
SYMMETRY Symmetry
CONSTRAINT FirstRow
CHECK_DEADLOCK FALSE
INVARIANTS
  ExclusiveExecution
  OneDraftPerRun
  CompletedHasResult
  ResumeBudget
PROPERTIES
  CompletedIsSealed
  ImplementsExclusiveOutput
  StaleWorkerCannotFail
