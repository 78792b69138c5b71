-------------------------- MODULE MCMaterialVersions --------------------------
(* MaterialVersions with one request at a time, or two.                      *)
EXTENDS MaterialVersions, TLC

CONSTANTS c1, c2

OneCaller  == {c1}
TwoCallers == {c1, c2}

\* Requests are interchangeable.
Symmetry == Permutations(Callers)

\* Requests overlap as long as the topic is in order; what follows an anomaly
\* is explored with one request at a time.
OverlapInOrder == (\A c \in Callers : call[c].op # "idle") => doubled = {}

\* The last version is created, which may make one too many; what becomes of it is not followed.
LastVersionEndsIt == Unused = {} => \A c \in Callers : call[c].op = "idle"
=============================================================================
