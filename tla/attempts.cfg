SPECIFICATION Spec
CONSTANTS
  a1 = a1
  a2 = a2
  q1 = q1
  q2 = q2
  c1 = c1
  c2 = c2
  Attempts <- TwoAttempts
  Questions <- OneQuestion
  Callers <- TwoCallers
  MaxHint = 1
SYMMETRY Symmetry
INVARIANTS
  OneInProgress
  NothingInvented
  ScoreWithinOne
PROPERTIES
  LockedStays
CHECK_DEADLOCK FALSE
