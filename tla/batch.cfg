SPECIFICATION FairSpec
CONSTANTS
  NumSteps = 2
  MaxRuns = 2
  Retries = 1
  MaxResumes = 1
CHECK_DEADLOCK FALSE
INVARIANTS
  TypeOK
  OneRunningStep
  CountersAgree
  CompletedStepHasOutput
PROPERTIES
  BatchEnds
  CancelIsFinal
