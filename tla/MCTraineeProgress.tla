------------------------- MODULE MCTraineeProgress -------------------------
(* Instances of TraineeProgress: a parent with a child, and a node alone.  *)
EXTENDS TraineeProgress, TLC
CONSTANTS top, sub, q1, q2, a1, a2, c1, c2

Pair == {top, sub}
PairParent == (top :> NoNode @@ sub :> top)
TwoQuizzes == {q1, q2}
AtTop == (q1 :> top @@ q2 :> top)
OneAttempt == {a1}
OneCaller == {c1}
TwoCallers == {c1, c2}
\* What the overlap is about: two requests meet before the child has been
\* opened, and the child has no material without its parent (the gate).
OverlapAtParent ==
  (\A c \in Callers : req[c] # Idle) =>
    row[sub] = NoRow /\ (material # {} => top \in material)
OverlapSymmetry == Permutations({q1, q2}) \cup Permutations({a1, a2}) \cup Permutations({c1, c2})
\* Everything but stale, which no step and no property of that run reads.
OverlapView == <<content, attempt, row, grants, req, finished>>

Alone == {top}
NoParent == (top :> NoNode)
OneQuiz == {q1}
AtAlone == (q1 :> top)
TwoAttempts == {a1, a2}
\* What this overlap is about: two requests meet that have still to write the
\* row, until a second fact of the row is stale.
OverlapAtRow ==
  /\ Cardinality(stale) <= 1
  /\ (\A c \in Callers : req[c] # Idle) =>
       \A c \in Callers : req[c].op \in {"scroll", "submit", "record", "reset", "sync"}
RowSymmetry == Permutations({a1, a2}) \cup Permutations({c1, c2})
=============================================================================
