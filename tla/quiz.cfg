SPECIFICATION Spec
CONSTANTS
  q1 = q1
  q2 = q2
  s1 = s1
  s2 = s2
  r1 = r1
  r2 = r2
  m1 = m1
  m2 = m2
  NoQuiz = NoQuiz
  Quizzes <- TwoQuizzes
  Slots <- OneSlot
  Runs <- TwoRuns
  Mentors <- TwoMentors
SYMMETRY Symmetry
CONSTRAINT TwoQuizzesOrTwoRuns
INVARIANTS
  OnePublished
  PublishedComplete
  OneQuizPerRun
PROPERTIES
  NoStaleHints
