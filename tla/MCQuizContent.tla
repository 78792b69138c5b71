---------------------------- MODULE MCQuizContent ----------------------------
(* QuizContent with two quizzes or two runs, and two publications at a time.  *)
EXTENDS QuizContent, TLC

CONSTANTS q1, q2, s1, s2, r1, r2, m1, m2

TwoQuizzes == {q1, q2}
OneSlot    == {s1}
TwoSlots   == {s1, s2}
TwoRuns    == {r1, r2}
TwoMentors == {m1, m2}

\* Two quizzes (a swap) and one run, or one quiz and two runs that meet on it:
\* runs of different quizzes share nothing.
TwoQuizzesOrTwoRuns ==
  Cardinality(Exists) + Cardinality({r \in Runs : run[r].kind # "none"}) <= 3

Symmetry == Permutations(Quizzes) \cup Permutations(Slots) \cup Permutations(Runs) \cup Permutations(Mentors)
=============================================================================
