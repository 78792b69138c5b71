-------------------------- MODULE MCTraineeAttempts --------------------------
(* TraineeAttempts with small sets of attempts, questions and requests. *)
EXTENDS TraineeAttempts, TLC

CONSTANTS a1, a2, q1, q2, c1, c2

OneAttempt  == {a1}
TwoAttempts == {a1, a2}
OneQuestion == {q1}
TwoQuestions == {q1, q2}
TwoCallers  == {c1, c2}

Symmetry ==
  Permutations(Attempts) \cup Permutations(Questions) \cup Permutations(Callers)
=============================================================================
