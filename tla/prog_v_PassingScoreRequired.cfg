SPECIFICATION Spec
CONSTANTS
  top = top
  sub = sub
  q1 = q1
  q2 = q2
  a1 = a1
  a2 = a2
  c1 = c1
  c2 = c2
  NoNode = NoNode
  NoQuiz = NoQuiz
  Nodes <- Pair
  Parent <- PairParent
  Quizzes <- TwoQuizzes
  Home <- AtTop
  AttemptIds <- TwoAttempts
  Callers <- OneCaller
  Full = 1
  MaxScore = 1
  Failures = FALSE
INVARIANTS
  PassingScoreRequired
