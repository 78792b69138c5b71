--------------------------- MODULE ExclusiveOutput ---------------------------
(***************************************************************************)
(* What the execution lock and the settle check promise together, without  *)
(* rows, jobs or requests: a run's output is produced only by the worker   *)
(* that owns the resource, and at most once until it is discarded.         *)
(***************************************************************************)
EXTENDS Naturals

CONSTANTS Workers, Runs, Nobody

VARIABLES
  owner,   \* the worker that owns the resource
  output   \* output[r]: 1 when run r has a visible version, else 0

vars == <<owner, output>>

Init == owner = Nobody /\ output = [r \in Runs |-> 0]

\* A worker takes the free resource.
Acquire(w) == owner = Nobody /\ owner' = w /\ UNCHANGED output

\* The owner gives it back, or dies.
Release == owner # Nobody /\ owner' = Nobody /\ UNCHANGED output

\* The owner produces the output of a run that has none.
Produce(w, r) ==
  /\ owner = w
  /\ output[r] = 0
  /\ output' = [output EXCEPT ![r] = 1]
  /\ UNCHANGED owner

\* The user discards the output; no ownership is asked for.
Discard(r) ==
  /\ output[r] = 1
  /\ output' = [output EXCEPT ![r] = 0]
  /\ UNCHANGED owner

Next ==
  \/ \E w \in Workers : Acquire(w) \/ \E r \in Runs : Produce(w, r)
  \/ Release
  \/ \E r \in Runs : Discard(r)

Spec == Init /\ [][Next]_vars

=============================================================================
