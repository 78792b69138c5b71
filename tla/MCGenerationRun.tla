--------------------------- MODULE MCGenerationRun ---------------------------
(* GenerationRun with finite sets of workers and requests.                 *)
EXTENDS GenerationRun, TLC

CONSTANTS w1, w2, c1, c2

OneWorker  == {w1}
TwoWorkers == {w1, w2}
OneCaller  == {c1}
TwoCallers == {c1, c2}

\* Workers are interchangeable, and so are requests.
Symmetry == Permutations(Workers) \cup Permutations(Callers)

\* A second row is created (beside a request for it that is refused), and its
\* run is not followed: it is a run like the first.
FirstRow == lastRun < MaxRuns

=============================================================================
