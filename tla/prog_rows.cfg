SPECIFICATION Spec
CONSTANTS
  top = top
  sub = sub
  q1 = q1
  q2 = q2
  a1 = a1
  a2 = a2
  c1 = c1
  c2 = c2
  NoNode = NoNode
  NoQuiz = NoQuiz
  Nodes <- Alone
  Parent <- NoParent
  Quizzes <- OneQuiz
  Home <- AtAlone
  AttemptIds <- TwoAttempts
  Callers <- TwoCallers
  Full = 2
  MaxScore = 2
  Failures = TRUE
SYMMETRY RowSymmetry
CONSTRAINT OverlapAtRow
INVARIANTS
  LedgerAgrees
  PassedMeetsBar
  CachedNeverOverclaims
PROPERTIES
  ReadNeverRegresses
