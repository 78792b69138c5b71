---------------------------- MODULE BatchJobProofs ----------------------------
(***************************************************************************)
(* For any number of steps, runs and retries: one step runs at a time, the *)
(* counters are the steps until a cancellation, a completed step has its   *)
(* output, and a cancellation is final but for one job.                    *)
(***************************************************************************)
EXTENDS BatchJob, FiniteSetTheorems, WellFoundedInduction, TLAPS

-----------------------------------------------------------------------------
(* Sets of steps.                                                          *)

(* A set of steps has a first one, which is what First returns.            *)
LEMMA FirstIsIn ==
  ASSUME NEW S \in SUBSET Nat, S # {}
  PROVE  First(S) \in S /\ \A t \in S : First(S) <= t
<1> DEFINE R == OpToRel(<, Nat)
<1>1. IsWellFoundedOn(R, Nat)
  BY NatLessThanWellFounded
<1>2. \A x, y \in Nat : y < x => <<y, x>> \in R
  BY DEF OpToRel
<1> HIDE DEF R
<1>3. PICK x \in S : \A y \in S : ~ (<<y, x>> \in R)
  BY <1>1, WFMin
<1>4. \A y \in S : x <= y
  <2> TAKE y \in S
  <2>1. x \in Nat /\ y \in Nat
    OBVIOUS
  <2>2. ~(y < x)
    BY <1>2, <1>3, <2>1
  <2> QED
    BY <2>1, <2>2
<1>5. \E s \in S : \A t \in S : s <= t
  BY <1>4
<1> QED
  BY <1>5 DEF First

LEMMA StepsFinite ==
  ASSUME NEW S \in SUBSET Steps
  PROVE  IsFiniteSet(S) /\ Cardinality(S) \in 0..NumSteps /\ S \in SUBSET Nat
<1>1. 1 \in Int /\ NumSteps \in Int /\ NumSteps > 0
  BY BatchAssumption
<1>2. IsFiniteSet(1..NumSteps) /\ Cardinality(1..NumSteps) = NumSteps
  BY <1>1, FS_Interval
<1>3. IsFiniteSet(S) /\ Cardinality(S) <= NumSteps
  BY <1>2, FS_Subset DEF Steps
<1>4. Cardinality(S) \in Nat
  BY <1>3, FS_CardinalityType
<1>5. Steps \subseteq Nat
  BY <1>1 DEF Steps
<1> QED
  BY <1>1, <1>3, <1>4, <1>5

LEMMA WithInSteps ==
  \A st, status : /\ WithIn(st, status) \in SUBSET Steps
                  /\ IsFiniteSet(WithIn(st, status))
                  /\ Cardinality(WithIn(st, status)) \in 0..NumSteps
BY StepsFinite DEF WithIn

(* Disjoint sets of steps: their sizes add up to no more than all steps.   *)
LEMMA DisjointSteps ==
  ASSUME NEW S \in SUBSET Steps, NEW T \in SUBSET Steps, S \cap T = {}
  PROVE  /\ Cardinality(S \cup T) = Cardinality(S) + Cardinality(T)
         /\ Cardinality(S) + Cardinality(T) \in 0..NumSteps
<1>1. IsFiniteSet(S) /\ IsFiniteSet(T) /\ Cardinality(S) \in Nat /\ Cardinality(T) \in Nat
  BY StepsFinite
<1>2. Cardinality(S \cup T) = Cardinality(S) + Cardinality(T) - Cardinality(S \cap T)
  BY <1>1, FS_Union
<1>3. Cardinality(S \cap T) = 0
  BY FS_EmptySet
<1>4. Cardinality(S \cup T) \in 0..NumSteps
  BY StepsFinite
<1> QED
  BY <1>1, <1>2, <1>3, <1>4

(* A step that is in another status leaves room for one more.              *)
LEMMA Room ==
  ASSUME NEW st, NEW s \in Steps, NEW status, st[s] # status
  PROVE  Cardinality(WithIn(st, status)) < NumSteps
<1>1. {s} \in SUBSET Steps /\ Cardinality({s}) = 1
  BY FS_Singleton
<1>2. WithIn(st, status) \in SUBSET Steps /\ WithIn(st, status) \cap {s} = {}
  BY DEF WithIn
<1>3. Cardinality(WithIn(st, status)) \in 0..NumSteps
  BY <1>2, StepsFinite
<1>4. Cardinality(WithIn(st, status)) + Cardinality({s}) \in 0..NumSteps
  BY <1>1, <1>2, DisjointSteps
<1> QED
  BY <1>1, <1>3, <1>4, BatchAssumption

(* At most one step runs if all running steps are the same.                *)
LEMMA AtMostOneStep ==
  ASSUME NEW S \in SUBSET Steps, NEW s, \A t \in S : t = s
  PROVE  Cardinality(S) <= 1
<1>1. CASE S = {}
  BY <1>1, FS_EmptySet
<1>2. CASE S # {}
  <2>1. S = {s}
    BY <1>2
  <2> QED
    BY <2>1, FS_Singleton
<1> QED
  BY <1>1, <1>2

LEMMA FewerSteps ==
  ASSUME NEW S \in SUBSET Steps, NEW T \in SUBSET S, Cardinality(S) <= 1
  PROVE  Cardinality(T) <= 1
<1>1. IsFiniteSet(S) /\ Cardinality(S) \in Nat /\ Cardinality(T) \in Nat
  BY StepsFinite
<1>2. Cardinality(T) <= Cardinality(S)
  BY <1>1, FS_Subset
<1> QED
  BY <1>1, <1>2

-----------------------------------------------------------------------------
(* Rows and counters.                                                      *)

\* The counters are numbers of steps.
Counters(row) == /\ row.completed \in 0..NumSteps /\ row.failed \in 0..NumSteps
                 /\ row.skipped \in 0..NumSteps

LEMMA Constants ==
  /\ NumSteps \in Nat \ {0} /\ 1 \in Steps /\ 0 \in 0..NumSteps
  /\ NewBatch \in Rows /\ NewBatch.completed = 0 /\ NewBatch.failed = 0 /\ NewBatch.skipped = 0
<1>1. NumSteps \in Nat \ {0} /\ 0 \in 0..NumSteps
  BY BatchAssumption
<1> QED
  BY <1>1 DEF Steps, NewBatch, Rows, BatchStatuses

LEMMA CountedInRange ==
  ASSUME NEW row, NEW st, CountedBy(row, st)
  PROVE  Counters(row)
BY WithInSteps DEF CountedBy, Counters

(* The counter of its outcome rises with a step that was not settled.      *)
LEMMA CountedOnce ==
  ASSUME NEW row \in Rows, NEW st \in [Steps -> StepStatuses], CountedBy(row, st),
         NEW s \in Steps, st[s] \notin Settled, NEW outcome \in {"completed", "failed"}
  PROVE  /\ CountedBy(Count(row, outcome), [st EXCEPT ![s] = outcome])
         /\ Count(row, outcome) \in Rows /\ Count(row, outcome).status = row.status
<1> DEFINE after == [st EXCEPT ![s] = outcome]
<1>1. \A t \in Steps : after[t] = IF t = s THEN outcome ELSE st[t]
  OBVIOUS
<1> HIDE DEF after
<1>2. WithIn(after, outcome) = WithIn(st, outcome) \cup {s} /\ s \notin WithIn(st, outcome)
  BY <1>1 DEF WithIn, Settled
<1>3. \A status \in Settled : status # outcome => WithIn(after, status) = WithIn(st, status)
  BY <1>1 DEF WithIn, Settled
<1>4. IsFiniteSet(WithIn(st, outcome))
  BY WithInSteps
<1>5. Cardinality(WithIn(after, outcome)) = Cardinality(WithIn(st, outcome)) + 1
  BY <1>2, <1>4, FS_AddElement
<1>6. /\ Count(row, outcome).status = row.status
      /\ Count(row, outcome).skipped = row.skipped
      /\ Count(row, outcome).completed = IF outcome = "completed" THEN row.completed + 1 ELSE row.completed
      /\ Count(row, outcome).failed = IF outcome = "failed" THEN row.failed + 1 ELSE row.failed
  BY DEF Count, Rows
<1>7. CountedBy(Count(row, outcome), after)
  BY <1>3, <1>5, <1>6 DEF CountedBy, Settled
<1>8. Counters(Count(row, outcome))
  BY <1>7, CountedInRange
<1>9. Count(row, outcome) \in Rows
  <2>1. outcome = "completed" => Count(row, outcome) = [row EXCEPT !.completed = row.completed + 1]
    BY DEF Count
  <2>2. outcome = "failed" => Count(row, outcome) = [row EXCEPT !.failed = row.failed + 1]
    BY DEF Count
  <2>3. CASE outcome = "completed"
    <3>1. row.completed + 1 \in 0..NumSteps
      BY <1>6, <1>8, <2>3 DEF Counters
    <3> QED
      BY <2>1, <2>3, <3>1 DEF Rows
  <2>4. CASE outcome = "failed"
    <3>1. row.failed + 1 \in 0..NumSteps
      BY <1>6, <1>8, <2>4 DEF Counters
    <3> QED
      BY <2>2, <2>4, <3>1 DEF Rows
  <2> QED
    BY <2>3, <2>4
<1> QED
  BY <1>6, <1>7, <1>9 DEF after

(* What an UPDATE of the columns that changed leaves.                      *)
LEMMA MergeFields ==
  ASSUME batch \in Rows, NEW row \in Rows, NEW new \in Rows
  PROVE  /\ Merge(row, new) \in Rows
         /\ SameCounters(row, batch) => SameCounters(Merge(row, new), new)
         /\ SameCounters(row, new) => SameCounters(Merge(row, new), batch)
         /\ new.status = row.status => Merge(row, new).status = batch.status
<1> DEFINE s == IF new.status # row.status THEN new.status ELSE batch.status
           c == IF new.completed # row.completed THEN new.completed ELSE batch.completed
           f == IF new.failed # row.failed THEN new.failed ELSE batch.failed
           k == IF new.skipped # row.skipped THEN new.skipped ELSE batch.skipped
<1>1. s \in BatchStatuses /\ c \in 0..NumSteps /\ f \in 0..NumSteps /\ k \in 0..NumSteps
  BY DEF Rows
<1>2. Merge(row, new) = [batch EXCEPT !.status = s, !.completed = c, !.failed = f, !.skipped = k]
  BY DEF Merge
<1> HIDE DEF s, c, f, k
<1>3. /\ Merge(row, new) \in Rows /\ Merge(row, new).status = s /\ Merge(row, new).completed = c
      /\ Merge(row, new).failed = f /\ Merge(row, new).skipped = k
  BY <1>1, <1>2 DEF Rows
<1> QED
  BY <1>3 DEF SameCounters, s, c, f, k

LEMMA SameCounted ==
  ASSUME NEW row, NEW other, NEW st, SameCounters(row, other)
  PROVE  CountedBy(row, st) <=> CountedBy(other, st)
BY DEF SameCounters, CountedBy

-----------------------------------------------------------------------------
(* The steps that a claim passes over.                                     *)

LEMMA JobFields ==
  ASSUME IInv
  PROVE  /\ job \in JobStates /\ job.row \in Rows /\ job.step \in Steps /\ job.run \in RunIds \cup {0}
         /\ job.seen \in StepStatuses /\ job.outcome \in RunStatuses /\ job.tries \in 0..Retries
         /\ batch \in Rows /\ step \in [Steps -> StepStatuses]
         /\ attached \in [Steps -> RunIds \cup {0}] /\ run \in [RunIds -> RunStatuses \cup {"none"}]
BY DEF IInv, TypeOK, JobStates

(* When the cancellation has written its last commit, no step is left.     *)
LEMMA ClosedIsSettled ==
  ASSUME IInv, ~Open
  PROVE  \A s \in Steps : step[s] \in Settled
BY JobFields DEF Open, Unsettled, Settled, StepStatuses

LEMMA PassedSteps ==
  ASSUME IInv, NEW passed \in Passed
  PROVE  LET after == AfterPassing(passed)
         IN /\ after \in [Steps -> StepStatuses]
            /\ DOMAIN passed \subseteq With("pending")
            /\ \A s \in DOMAIN passed : passed[s] \in {"skipped", "failed"}
            /\ \A s \in Steps : after[s] = IF s \in DOMAIN passed THEN passed[s] ELSE step[s]
<1>1. PICK P : P \subseteq With("pending") /\ passed \in [P -> {"skipped", "failed"}]
  BY DEF Passed
<1>2. DOMAIN passed \subseteq With("pending") /\ \A s \in DOMAIN passed : passed[s] \in {"skipped", "failed"}
  BY <1>1
<1>3. \A s \in Steps : AfterPassing(passed)[s] = IF s \in DOMAIN passed THEN passed[s] ELSE step[s]
  BY DEF AfterPassing
<1>4. AfterPassing(passed) \in [Steps -> StepStatuses]
  <2>1. \A s \in Steps : (IF s \in DOMAIN passed THEN passed[s] ELSE step[s]) \in StepStatuses
    BY <1>2, JobFields DEF StepStatuses
  <2> QED
    BY <2>1 DEF AfterPassing
<1> QED
  BY <1>2, <1>3, <1>4

(* The sizes change by the number of steps passed over.                    *)
LEMMA PassedSizes ==
  ASSUME IInv, NEW passed \in Passed
  PROVE  LET after == AfterPassing(passed)
         IN /\ \A status \in {"skipped", "failed"} :
                 /\ Cardinality(WithIn(after, status)) = Cardinality(With(status)) + Howmany(passed, status)
                 /\ Howmany(passed, status) \in 0..NumSteps
                 /\ DOMAIN passed = {} => Howmany(passed, status) = 0
            /\ WithIn(after, "completed") = With("completed")
            /\ WithIn(after, "running") = With("running")
            /\ WithIn(after, "pending") = With("pending") \ DOMAIN passed
<1> DEFINE after == AfterPassing(passed)
<1>1. /\ DOMAIN passed \subseteq With("pending")
      /\ \A s \in DOMAIN passed : passed[s] \in {"skipped", "failed"}
      /\ \A s \in Steps : after[s] = IF s \in DOMAIN passed THEN passed[s] ELSE step[s]
  BY PassedSteps
<1> HIDE DEF after
<1>2. ASSUME NEW status \in {"skipped", "failed"}
      PROVE  /\ Cardinality(WithIn(after, status)) = Cardinality(With(status)) + Howmany(passed, status)
             /\ Howmany(passed, status) \in 0..NumSteps
             /\ DOMAIN passed = {} => Howmany(passed, status) = 0
  <2> DEFINE T == {s \in DOMAIN passed : passed[s] = status}
  <2>1. T \in SUBSET Steps /\ With(status) \in SUBSET Steps /\ With(status) \cap T = {}
    BY <1>1, <1>2 DEF With, WithIn
  <2>2. WithIn(after, status) = With(status) \cup T
    BY <1>1, <1>2 DEF With, WithIn
  <2>3. Howmany(passed, status) = Cardinality(T)
    BY DEF Howmany
  <2>4. DOMAIN passed = {} => T = {}
    OBVIOUS
  <2> HIDE DEF T
  <2>5. Cardinality(With(status) \cup T) = Cardinality(With(status)) + Cardinality(T)
    BY <2>1, DisjointSteps
  <2>6. Cardinality(T) \in 0..NumSteps
    BY <2>1, StepsFinite
  <2>7. DOMAIN passed = {} => Cardinality(T) = 0
    BY <2>4, FS_EmptySet
  <2> QED
    BY <2>2, <2>3, <2>5, <2>6, <2>7
<1>3. /\ WithIn(after, "completed") = With("completed")
      /\ WithIn(after, "running") = With("running")
      /\ WithIn(after, "pending") = With("pending") \ DOMAIN passed
  BY <1>1 DEF With, WithIn
<1> QED
  BY <1>2, <1>3 DEF after

(* The row that a claim writes counts the steps it has passed over.        *)
LEMMA PassedRow ==
  ASSUME IInv, job.pc = "claim", NEW passed \in Passed
  PROVE  LET row == RowAfterPassing(passed)
         IN /\ row \in Rows
            /\ Open => CountedBy(row, AfterPassing(passed))
            /\ ~Open => SameCounters(job.row, row)
            /\ job.row.status \in TerminalBatch => row.status = job.row.status
<1> DEFINE row == RowAfterPassing(passed)
           k == Howmany(passed, "skipped")
           f == Howmany(passed, "failed")
<1>1. /\ Cardinality(WithIn(AfterPassing(passed), "skipped")) = Cardinality(With("skipped")) + k
      /\ Cardinality(WithIn(AfterPassing(passed), "failed")) = Cardinality(With("failed")) + f
      /\ WithIn(AfterPassing(passed), "completed") = With("completed")
      /\ k \in 0..NumSteps /\ f \in 0..NumSteps
      /\ DOMAIN passed = {} => k = 0 /\ f = 0
  BY PassedSizes
<1> DEFINE s == IF job.row.status = "pending" THEN "running" ELSE job.row.status
<1>2. row = [job.row EXCEPT !.status = s, !.skipped = job.row.skipped + k, !.failed = job.row.failed + f]
  BY DEF RowAfterPassing
<1>3. job.row \in Rows
  BY JobFields
<1>4. s \in BatchStatuses
  BY <1>3 DEF Rows, BatchStatuses
<1>5. Open => CountedBy(job.row, step)
  <2>1. Open => SameCounters(job.row, batch) /\ CountedBy(batch, step)
    BY DEF IInv, JobKnown, CountersHold
  <2> QED
    BY <2>1, SameCounted
<1>6. ~Open => k = 0 /\ f = 0
  <2>1. ~Open => With("pending") = {}
    BY ClosedIsSettled DEF With, WithIn, Settled
  <2>2. ~Open => DOMAIN passed = {}
    BY <2>1, PassedSteps
  <2> QED
    BY <1>1, <2>2
<1>7. job.row.status \in TerminalBatch => s = job.row.status
  BY DEF TerminalBatch
<1>8. \A status : Cardinality(WithIn(AfterPassing(passed), status)) \in 0..NumSteps
  BY WithInSteps
<1>9. job.row.skipped + k \in 0..NumSteps /\ job.row.failed + f \in 0..NumSteps
  <2>1. CASE Open
    <3>1. job.row.skipped = Cardinality(With("skipped")) /\ job.row.failed = Cardinality(With("failed"))
      BY <1>5, <2>1 DEF CountedBy, With
    <3> HIDE DEF k, f
    <3> QED
      BY <1>1, <1>8, <3>1
  <2>2. CASE ~Open
    <3>1. job.row.skipped \in 0..NumSteps /\ job.row.failed \in 0..NumSteps
      BY <1>3 DEF Rows
    <3> HIDE DEF k, f
    <3> QED
      BY <1>6, <2>2, <3>1, Constants
  <2> QED
    BY <2>1, <2>2
<1> HIDE DEF row, k, f, s
<1>10. /\ row \in Rows /\ row.status = s /\ row.completed = job.row.completed
       /\ row.skipped = job.row.skipped + k /\ row.failed = job.row.failed + f
  BY <1>2, <1>3, <1>4, <1>9 DEF Rows
<1>11. Open => CountedBy(row, AfterPassing(passed))
  BY <1>1, <1>5, <1>10 DEF CountedBy, With
<1>12. ~Open => SameCounters(job.row, row)
  BY <1>3, <1>6, <1>10 DEF SameCounters, Rows
<1> QED
  BY <1>7, <1>10, <1>11, <1>12 DEF row

-----------------------------------------------------------------------------
(* Steps of the job.                                                       *)

Lefts == {"active", "ended", "paused", "exhausted", "lost"}

\* A run that has completed has done so for good, a started one stays started.
RunsGoOn ==
  /\ completed_at' \in SUBSET RunIds /\ completed_at \subseteq completed_at' /\ Completions'
  /\ resume' \in [Requests -> ResumeStates]
  /\ \A r \in RunIds : run[r] # "none" => run'[r] # "none"

LEMMA RunsStay ==
  ASSUME IInv, UNCHANGED <<run, requests>>
  PROVE  RunsGoOn
BY DEF IInv, TypeOK, RunsGoOn, Completions, requests

(* A run that gets a status which is not completed, or completes.          *)
LEMMA RunMoves ==
  ASSUME IInv, NEW r \in RunIds, NEW status \in RunStatuses, Becomes(r, status),
         resume' \in [Requests -> ResumeStates]
  PROVE  run' \in [RunIds -> RunStatuses \cup {"none"}] /\ RunsGoOn
<1>1. /\ run' = [run EXCEPT ![r] = status] /\ run \in [RunIds -> RunStatuses \cup {"none"}]
      /\ completed_at' = IF status = "completed" THEN completed_at \cup {r} ELSE completed_at
      /\ completed_at \in SUBSET RunIds /\ Completions
  BY DEF IInv, TypeOK, Becomes
<1>2. \A q \in RunIds : run'[q] = IF q = r THEN status ELSE run[q]
  BY <1>1
<1>3. Completions'
  BY <1>1, <1>2 DEF Completions
<1>4. status # "none"
  BY DEF RunStatuses
<1>5. run' \in [RunIds -> RunStatuses \cup {"none"}]
  BY <1>1
<1> QED
  BY <1>1, <1>2, <1>3, <1>4, <1>5 DEF RunsGoOn

(* While the batch is open no settled step changes, and counters that were *)
(* loaded before the steps still count no more than those.                 *)
LEMMA SettledCounts ==
  ASSUME NEW st, NEW after, NEW row \in Rows, CountsNoMore(row, st),
         \A s \in Steps : st[s] \in Settled => after[s] = st[s]
  PROVE  CountsNoMore(row, after)
<1>1. ASSUME NEW status \in Settled
      PROVE  Cardinality(WithIn(st, status)) <= Cardinality(WithIn(after, status))
  <2>1. WithIn(st, status) \subseteq WithIn(after, status)
    BY DEF WithIn
  <2>2. IsFiniteSet(WithIn(after, status))
    BY WithInSteps
  <2> QED
    BY <2>1, <2>2, FS_Subset
<1>2. \A status : /\ Cardinality(WithIn(st, status)) \in Nat
                  /\ Cardinality(WithIn(after, status)) \in Nat
  BY WithInSteps
<1>3. row.completed \in Nat /\ row.failed \in Nat /\ row.skipped \in Nat
  BY DEF Rows
<1> QED
  BY <1>1, <1>2, <1>3 DEF CountsNoMore, Settled

LEMMA OpenBefore ==
  ASSUME IInv, cancel' = cancel, \A s \in Steps : step[s] \in Settled => step'[s] \in Settled, Open'
  PROVE  Open
BY JobFields DEF Open, Unsettled, Settled, StepStatuses

(* A step that leaves the cancellation alone and keeps what it must.       *)
LEMMA JobStepKeeps ==
  ASSUME IInv, cancel' = cancel, batch' \in Rows, step' \in [Steps -> StepStatuses],
         attached' \in [Steps -> RunIds \cup {0}], run' \in [RunIds -> RunStatuses \cup {"none"}],
         topic' \in [RunIds -> Steps], job' \in JobStates, left' \in Lefts, RunsGoOn,
         \A s \in Steps : step[s] \in Settled => step'[s] \in Settled,
         Open => \A s \in Steps : step[s] \in Settled => step'[s] = step[s],
         Open /\ Open' => CountedBy(batch', step'),
         Cardinality(WithIn(step', "running")) <= 1,
         \A s \in Steps : step'[s] = "completed" =>
           \/ step[s] = "completed" /\ attached'[s] = attached[s]
           \/ attached'[s] # 0 /\ attached'[s] \in completed_at',
         \A s \in Steps : attached'[s] \in {0, attached[s]} \/ run'[attached'[s]] # "none",
         JobKnown'
  PROVE  IInv'
<1>1. TypeOK' /\ Completions'
  BY DEF IInv, TypeOK, Lefts, RunsGoOn
<1>2. OneRunningStep'
  BY DEF OneRunningStep, With
<1>3. \A s \in Steps : attached[s] \in RunIds \cup {0}
  BY JobFields
<1>4. CompletedStepHasOutput'
  <2>1. ASSUME NEW s \in Steps, step'[s] = "completed"
        PROVE  attached'[s] # 0 /\ attached'[s] \in completed_at'
    <3>1. step[s] = "completed" => attached[s] # 0 /\ attached[s] \in completed_at
      BY DEF IInv, CompletedStepHasOutput, With, WithIn
    <3> QED
      BY <1>3, <2>1, <3>1 DEF RunsGoOn
  <2> QED
    BY <2>1 DEF CompletedStepHasOutput, With, WithIn
<1>5. CountersHold'
  <2>1. Open' => Open
    BY OpenBefore
  <2> QED
    BY <2>1 DEF CountersHold
<1>6. RunsStarted'
  <2>1. \A s \in Steps : attached[s] # 0 => run[attached[s]] # "none"
    BY DEF IInv, RunsStarted
  <2> QED
    BY <1>3, <2>1 DEF RunsStarted, RunsGoOn
<1>7. CancelKnown'
  <2>1. cancel.pc = "batch" => CountsNoMore(cancel.row, step')
    <3>1. cancel.pc = "batch" => Open /\ CountsNoMore(cancel.row, step)
      BY DEF Open, IInv, CancelKnown
    <3>2. cancel.row \in Rows
      BY DEF IInv, TypeOK, CancelStates
    <3> QED
      BY <3>1, <3>2, SettledCounts
  <2> QED
    BY <2>1 DEF IInv, CancelKnown
<1> QED
  BY <1>1, <1>2, <1>4, <1>5, <1>6, <1>7 DEF IInv

(* Where the job goes when it holds nothing any more.                      *)
LEMMA JobLetsGo ==
  ASSUME job'.pc \in {"none", "queued", "chain"}
  PROVE  JobKnown'
BY DEF JobKnown

LEMMA NoJobFields ==
  ASSUME NEW pc \in {"none", "queued", "chain"}, NEW tries \in 0..Retries
  PROVE  LET x == [NoJob EXCEPT !.pc = pc, !.tries = tries] IN x \in JobStates /\ x.pc = pc
<1>1. NoJob.row \in Rows /\ NoJob.step \in Steps
  BY Constants DEF NoJob
<1> QED
  BY <1>1 DEF NoJob, JobStates, StepStatuses, RunStatuses

LEMMA ReturnFields ==
  ASSUME IInv, NEW why \in Lefts, Return(why)
  PROVE  job' \in JobStates /\ job'.pc \in {"none", "queued", "chain"} /\ left' \in Lefts
<1>1. 0 \in 0..Retries /\ NewBatch \in Rows /\ 1 \in Steps
  BY Constants, BatchAssumption
<1>2. NoJob \in JobStates /\ NoJob.pc = "none"
  BY <1>1 DEF NoJob, JobStates, StepStatuses, RunStatuses
<1> QED
  BY <1>2 DEF Return

LEMMA RaiseFields ==
  ASSUME IInv, Raise
  PROVE  job' \in JobStates /\ job'.pc \in {"none", "queued", "chain"} /\ left' \in Lefts
<1>1. left \in Lefts
  BY DEF IInv, TypeOK, Lefts
<1>2. CASE job.tries < Retries
  <2>1. job.tries + 1 \in 0..Retries
    BY <1>2, JobFields, BatchAssumption
  <2> DEFINE t == job.tries + 1
  <2>2. job' = [NoJob EXCEPT !.pc = "queued", !.tries = t] /\ left' = left
    BY <1>2 DEF Raise
  <2> HIDE DEF t
  <2>3. LET x == [NoJob EXCEPT !.pc = "queued", !.tries = t] IN x \in JobStates /\ x.pc = "queued"
    BY <2>1, NoJobFields DEF t
  <2> QED
    BY <1>1, <2>2, <2>3
<1>3. CASE ~(job.tries < Retries)
  BY <1>3, ReturnFields DEF Raise, Lefts
<1> QED
  BY <1>2, <1>3

LEMMA ChainFields ==
  ASSUME IInv, GoTo("chain")
  PROVE  job' \in JobStates /\ job'.pc \in {"none", "queued", "chain"} /\ left' \in Lefts
BY JobFields DEF GoTo, JobStates, IInv, TypeOK, Lefts

(* Only the job and runs move.                                             *)
LEMMA OnlyJobMoves ==
  ASSUME IInv, UNCHANGED <<batch, step, attached, cancel>>,
         run' \in [RunIds -> RunStatuses \cup {"none"}], topic' \in [RunIds -> Steps],
         job' \in JobStates, left' \in Lefts, RunsGoOn, JobKnown'
  PROVE  IInv'
<1>1. batch' \in Rows /\ step' \in [Steps -> StepStatuses] /\ attached' \in [Steps -> RunIds \cup {0}]
  BY JobFields
<1>2. Open => CountedBy(batch', step')
  BY DEF IInv, CountersHold
<1>3. Cardinality(WithIn(step', "running")) <= 1
  BY DEF IInv, OneRunningStep, With
<1> QED
  BY <1>1, <1>2, <1>3, JobStepKeeps

LEMMA OnlyJob ==
  ASSUME IInv, UNCHANGED <<batch, step, attached, run, topic, cancel, requests>>,
         job' \in JobStates, left' \in Lefts, JobKnown'
  PROVE  IInv'
<1>1. run' \in [RunIds -> RunStatuses \cup {"none"}] /\ topic' \in [RunIds -> Steps]
  BY DEF IInv, TypeOK
<1>2. RunsGoOn
  BY RunsStay
<1> QED
  BY <1>1, <1>2, OnlyJobMoves

(* Only runs move: what the job knows of its run stays true.               *)
LEMMA OnlyRuns ==
  ASSUME IInv, UNCHANGED <<batch, step, attached, job, left, cancel>>,
         run' \in [RunIds -> RunStatuses \cup {"none"}], topic' \in [RunIds -> Steps], RunsGoOn
  PROVE  IInv'
<1>1. JobKnown'
  BY JobFields DEF IInv, JobKnown, RunsGoOn, Open
<1>2. job' \in JobStates /\ left' \in Lefts
  BY DEF IInv, TypeOK, Lefts
<1> QED
  BY <1>1, <1>2, OnlyJobMoves

LEMMA StepLoad ==
  ASSUME IInv, Load
  PROVE  IInv'
<1>1. UNCHANGED <<batch, step, attached, run, topic, cancel, requests>>
  BY DEF Load
<1>2. CASE batch.status \in TerminalBatch
  <2>1. Return("ended") /\ "ended" \in Lefts
    BY <1>2 DEF Load, Lefts
  <2> QED
    BY <1>1, <2>1, ReturnFields, JobLetsGo, OnlyJob
<1>3. CASE batch.status \notin TerminalBatch
  <2>1. job' = [job EXCEPT !.pc = "claim", !.row = batch] /\ left' = left
    BY <1>3 DEF Load
  <2>2. job' \in JobStates /\ job'.pc = "claim" /\ job'.row = batch
    BY <2>1, JobFields DEF JobStates
  <2>3. JobKnown'
    BY <1>1, <2>2 DEF JobKnown, SameCounters
  <2>4. left' \in Lefts
    BY <2>1 DEF IInv, TypeOK, Lefts
  <2> QED
    BY <1>1, <2>2, <2>3, <2>4, OnlyJob
<1> QED
  BY <1>2, <1>3

(* The row a job writes in the session that loaded it for the claim.       *)
LEMMA ClaimRow ==
  ASSUME IInv, job.pc = "claim", NEW new \in Rows, NEW after,
         Open => CountedBy(new, after)
  PROVE  Merge(job.row, new) \in Rows /\ (Open => CountedBy(Merge(job.row, new), after))
<1>1. Open => SameCounters(job.row, batch)
  BY DEF IInv, JobKnown
<1>2. /\ Merge(job.row, new) \in Rows
      /\ SameCounters(job.row, batch) => SameCounters(Merge(job.row, new), new)
  BY JobFields, MergeFields
<1> QED
  BY <1>1, <1>2, SameCounted

LEMMA FinalizedFields ==
  ASSUME NEW row \in Rows, NEW st
  PROVE  LET new == [row EXCEPT !.status = MaybeFinalize(row, st)]
         IN /\ new \in Rows /\ SameCounters(new, row)
            /\ row.status \in TerminalBatch => new.status = row.status
            /\ Counters(new)
<1>1. MaybeFinalize(row, st) \in BatchStatuses
  BY DEF MaybeFinalize, Rows, BatchStatuses
<1> QED
  BY <1>1 DEF Rows, SameCounters, MaybeFinalize, Counters

LEMMA StepClaimNothing ==
  ASSUME IInv, ClaimNothing
  PROVE  IInv'
<1>1. PICK passed \in Passed :
        /\ DOMAIN passed = With("pending")
        /\ LET row == RowAfterPassing(passed)
           IN /\ step' = AfterPassing(passed)
              /\ batch' = Merge(job.row, [row EXCEPT !.status = MaybeFinalize(row, AfterPassing(passed))])
  BY DEF ClaimNothing
<1> DEFINE after == AfterPassing(passed)
           row == RowAfterPassing(passed)
           new == [row EXCEPT !.status = MaybeFinalize(row, after)]
<1>2. job.pc = "claim" /\ Return("ended") /\ UNCHANGED <<attached, run, topic, cancel, requests>> /\ "ended" \in Lefts
  BY DEF ClaimNothing, Lefts
<1>3. row \in Rows /\ (Open => CountedBy(row, after))
  BY <1>2, PassedRow
<1>4. /\ after \in [Steps -> StepStatuses]
      /\ DOMAIN passed \subseteq With("pending")
      /\ \A s \in DOMAIN passed : passed[s] \in {"skipped", "failed"}
      /\ \A s \in Steps : after[s] = IF s \in DOMAIN passed THEN passed[s] ELSE step[s]
  BY PassedSteps
<1>5. WithIn(after, "running") = With("running")
  BY PassedSizes
<1> HIDE DEF after, row
<1>6. new \in Rows /\ (Open => CountedBy(new, after))
  <2>1. new \in Rows /\ SameCounters(new, row)
    BY <1>3, FinalizedFields
  <2> QED
    BY <1>3, <2>1, SameCounted
<1> HIDE DEF new
<1>7. batch' = Merge(job.row, new) /\ step' = after
  BY <1>1 DEF new, row, after
<1>8. batch' \in Rows /\ (Open => CountedBy(batch', step'))
  BY <1>2, <1>6, <1>7, ClaimRow
<1>9. /\ \A s \in Steps : step[s] \in Settled => step'[s] = step[s]
      /\ \A s \in Steps : step'[s] = "completed" => step[s] = "completed"
  BY <1>4, <1>7 DEF Settled, With, WithIn
<1>10. job' \in JobStates /\ left' \in Lefts /\ JobKnown'
  BY <1>2, ReturnFields, JobLetsGo
<1>11. Cardinality(WithIn(step', "running")) <= 1
  BY <1>5, <1>7 DEF IInv, OneRunningStep
<1>12. /\ attached' \in [Steps -> RunIds \cup {0}] /\ run' \in [RunIds -> RunStatuses \cup {"none"}]
       /\ topic' \in [RunIds -> Steps] /\ RunsGoOn /\ cancel' = cancel /\ attached' = attached
  BY <1>2, RunsStay DEF IInv, TypeOK
<1> QED
  BY <1>4, <1>7, <1>8, <1>9, <1>10, <1>11, <1>12, JobStepKeeps

(* Superseding completes no run.                                           *)
LEMMA SupersededRuns ==
  ASSUME IInv, NEW s \in Steps, UNCHANGED requests
  PROVE  /\ Superseded(s) \in [RunIds -> RunStatuses \cup {"none"}]
         /\ run' = Superseded(s) => RunsGoOn
         /\ \A r \in RunIds : run' = [Superseded(s) EXCEPT ![r] = "running"] =>
              run' \in [RunIds -> RunStatuses \cup {"none"}] /\ RunsGoOn
<1> DEFINE after == Superseded(s)
<1>1. \A r \in RunIds : run[r] \in RunStatuses \cup {"none"}
  BY JobFields
<1>2. /\ after \in [RunIds -> RunStatuses \cup {"none"}]
      /\ \A r \in RunIds : /\ after[r] = "completed" => run[r] = "completed"
                           /\ run[r] # "none" => after[r] # "none"
  BY <1>1 DEF Superseded, RunStatuses
<1>3. /\ completed_at' = completed_at /\ completed_at \in SUBSET RunIds /\ Completions
      /\ resume' = resume /\ resume \in [Requests -> ResumeStates]
  BY DEF IInv, TypeOK, requests
<1> HIDE DEF after
<1>4. run' = after => RunsGoOn
  BY <1>2, <1>3 DEF RunsGoOn, Completions
<1>5. ASSUME NEW r \in RunIds, run' = [after EXCEPT ![r] = "running"]
      PROVE  run' \in [RunIds -> RunStatuses \cup {"none"}] /\ RunsGoOn
  <2>1. \A q \in RunIds : run'[q] = IF q = r THEN "running" ELSE after[q]
    BY <1>2, <1>5
  <2> QED
    BY <1>2, <1>3, <1>5, <2>1 DEF RunsGoOn, Completions, RunStatuses
<1> QED
  BY <1>2, <1>4, <1>5 DEF after

(* The claimed step is pending, and not among those passed over.           *)
LEMMA ClaimedStep ==
  ASSUME IInv, NEW passed \in Passed, NEW s \in With("pending"),
         With("pending") # DOMAIN passed, Claims(passed, s)
  PROVE  s \in Steps /\ step[s] = "pending" /\ s \notin DOMAIN passed /\ AfterPassing(passed)[s] = "pending"
<1>1. s \in Steps /\ step[s] = "pending"
  BY DEF With, WithIn
<1>2. DOMAIN passed \subseteq With("pending") /\ AfterPassing(passed)[s] = IF s \in DOMAIN passed THEN passed[s] ELSE step[s]
  BY <1>1, PassedSteps
<1>3. With("pending") \ DOMAIN passed \in SUBSET Nat /\ With("pending") \ DOMAIN passed # {}
  <2>1. With("pending") \in SUBSET Steps
    BY DEF With, WithIn
  <2> QED
    BY <1>2, <2>1, StepsFinite
<1>4. s \in With("pending") \ DOMAIN passed
  BY <1>3, FirstIsIn DEF Claims
<1> QED
  BY <1>1, <1>2, <1>4

LEMMA StepClaimAndStart ==
  ASSUME IInv, ClaimAndStart
  PROVE  IInv'
<1>1. PICK passed \in Passed, s \in With("pending"), r \in Unused :
        /\ With("pending") # DOMAIN passed /\ Claims(passed, s)
        /\ RunsOf(s, "running") = {}
        /\ \A q \in Unused : r <= q
        /\ step' = [AfterPassing(passed) EXCEPT ![s] = "running"]
        /\ batch' = Merge(job.row, RowAfterPassing(passed))
        /\ run' = [Superseded(s) EXCEPT ![r] = "running"]
        /\ topic' = [topic EXCEPT ![r] = s]
        /\ job' = [job EXCEPT !.pc = "attach", !.step = s, !.run = r, !.row = NewBatch]
  BY DEF ClaimAndStart
<1> DEFINE after == AfterPassing(passed)
           row == RowAfterPassing(passed)
<1>2. job.pc = "claim" /\ ~HasRunning /\ UNCHANGED <<attached, left, cancel, requests>>
  BY DEF ClaimAndStart
<1>3. s \in Steps /\ step[s] = "pending" /\ after[s] = "pending"
  BY <1>1, ClaimedStep
<1>4. row \in Rows /\ (Open => CountedBy(row, after))
  BY <1>2, PassedRow
<1>5. /\ after \in [Steps -> StepStatuses]
      /\ DOMAIN passed \subseteq With("pending")
      /\ \A t \in DOMAIN passed : passed[t] \in {"skipped", "failed"}
      /\ \A t \in Steps : after[t] = IF t \in DOMAIN passed THEN passed[t] ELSE step[t]
  BY PassedSteps
<1>6. WithIn(after, "running") = {}
  BY <1>2, PassedSizes DEF HasRunning
<1> HIDE DEF after, row
<1>7. step' = [after EXCEPT ![s] = "running"] /\ batch' = Merge(job.row, row)
  BY <1>1 DEF after, row
<1>8. \A t \in Steps : step'[t] = IF t = s THEN "running" ELSE after[t]
  BY <1>3, <1>5, <1>7
<1>9. \A row2 : CountedBy(row2, after) => CountedBy(row2, step')
  <2>1. \A status \in Settled : WithIn(step', status) = WithIn(after, status)
    BY <1>3, <1>8 DEF WithIn, Settled
  <2> QED
    BY <2>1 DEF CountedBy, Settled
<1>10. batch' \in Rows /\ (Open => CountedBy(batch', step'))
  BY <1>2, <1>4, <1>7, <1>9, ClaimRow
<1>11. /\ \A t \in Steps : step[t] \in Settled => step'[t] = step[t]
       /\ \A t \in Steps : step'[t] = "completed" => step[t] = "completed"
  BY <1>3, <1>5, <1>8 DEF Settled, With, WithIn
<1>12. Cardinality(WithIn(step', "running")) <= 1
  <2>1. WithIn(step', "running") \in SUBSET Steps /\ \A t \in WithIn(step', "running") : t = s
    BY <1>6, <1>8 DEF WithIn
  <2> QED
    BY <2>1, AtMostOneStep
<1>13. r \in RunIds /\ r # 0 /\ run[r] = "none"
  BY BatchAssumption DEF Unused, RunIds
<1>14. run' \in [RunIds -> RunStatuses \cup {"none"}] /\ RunsGoOn /\ run'[r] = "running"
  <2> DEFINE before == Superseded(s)
  <2>1. before \in [RunIds -> RunStatuses \cup {"none"}] /\ run' = [before EXCEPT ![r] = "running"]
    BY <1>1, <1>2, <1>3, SupersededRuns
  <2>2. run' \in [RunIds -> RunStatuses \cup {"none"}] /\ RunsGoOn
    BY <1>1, <1>2, <1>3, <1>13, SupersededRuns
  <2> HIDE DEF before
  <2> QED
    BY <1>13, <2>1, <2>2
<1>15. topic' \in [RunIds -> Steps] /\ attached' \in [Steps -> RunIds \cup {0}] /\ left' \in Lefts
       /\ cancel' = cancel /\ attached' = attached
  BY <1>1, <1>2, <1>3, <1>13 DEF IInv, TypeOK, Lefts
<1>16. job' \in JobStates /\ job'.pc = "attach" /\ job'.step = s /\ job'.run = r
  BY <1>1, <1>3, <1>13, JobFields, Constants DEF JobStates
<1>17. JobKnown'
  BY <1>3, <1>8, <1>13, <1>14, <1>16 DEF JobKnown
<1>18. step' \in [Steps -> StepStatuses]
  BY <1>5, <1>7 DEF StepStatuses
<1> QED
  BY <1>10, <1>11, <1>12, <1>14, <1>15, <1>16, <1>17, <1>18, JobStepKeeps

LEMMA StepClaimConflict ==
  ASSUME IInv, ClaimConflict
  PROVE  IInv'
<1>1. PICK passed \in Passed, s \in With("pending"), locked \in BOOLEAN :
        /\ With("pending") # DOMAIN passed /\ Claims(passed, s)
        /\ locked \/ RunsOf(s, "running") # {}
        /\ step' = AfterPassing(passed)
        /\ batch' = Merge(job.row, RowAfterPassing(passed))
        /\ attached' = [attached EXCEPT ![s] = 0]
        /\ run' = IF locked THEN run ELSE Superseded(s)
  BY DEF ClaimConflict
<1> DEFINE after == AfterPassing(passed)
           row == RowAfterPassing(passed)
<1>2. job.pc = "claim" /\ Raise /\ UNCHANGED <<topic, cancel, requests>>
  BY DEF ClaimConflict
<1>3. s \in Steps /\ step[s] = "pending" /\ after[s] = "pending"
  BY <1>1, ClaimedStep
<1>4. row \in Rows /\ (Open => CountedBy(row, after))
  BY <1>2, PassedRow
<1>5. /\ after \in [Steps -> StepStatuses]
      /\ DOMAIN passed \subseteq With("pending")
      /\ \A t \in DOMAIN passed : passed[t] \in {"skipped", "failed"}
      /\ \A t \in Steps : after[t] = IF t \in DOMAIN passed THEN passed[t] ELSE step[t]
  BY PassedSteps
<1>6. WithIn(after, "running") = With("running")
  BY PassedSizes
<1>7. step' = after /\ batch' = Merge(job.row, row)
  BY <1>1
<1> HIDE DEF after, row
<1>8. batch' \in Rows /\ (Open => CountedBy(batch', step'))
  BY <1>2, <1>4, <1>7, ClaimRow
<1>9. /\ \A t \in Steps : step[t] \in Settled => step'[t] = step[t]
      /\ \A t \in Steps : step'[t] = "completed" => step[t] = "completed" /\ t # s
  BY <1>3, <1>5, <1>7 DEF Settled, With, WithIn
<1>10. Cardinality(WithIn(step', "running")) <= 1
  BY <1>6, <1>7 DEF IInv, OneRunningStep
<1>11. /\ attached' \in [Steps -> RunIds \cup {0}]
       /\ \A t \in Steps : attached'[t] = IF t = s THEN 0 ELSE attached[t]
  BY <1>1, <1>3, JobFields
<1>12. run' \in [RunIds -> RunStatuses \cup {"none"}] /\ RunsGoOn
  <2>1. CASE run' = run
    BY <1>2, <2>1, RunsStay, JobFields DEF requests
  <2>2. CASE run' = Superseded(s)
    BY <1>2, <1>3, <2>2, SupersededRuns
  <2> QED
    BY <1>1, <2>1, <2>2
<1>13. job' \in JobStates /\ left' \in Lefts /\ JobKnown'
  BY <1>2, RaiseFields, JobLetsGo
<1>14. topic' \in [RunIds -> Steps] /\ cancel' = cancel
  BY <1>2 DEF IInv, TypeOK
<1>15. /\ \A t \in Steps : step'[t] = "completed" => step[t] = "completed" /\ attached'[t] = attached[t]
       /\ \A t \in Steps : attached'[t] \in {0, attached[t]}
  BY <1>9, <1>11
<1> QED
  BY <1>5, <1>7, <1>8, <1>9, <1>10, <1>11, <1>12, <1>13, <1>14, <1>15, JobStepKeeps

LEMMA StepClaimFails ==
  ASSUME IInv, ClaimFails
  PROVE  IInv'
<1>1. PICK passed \in Passed, s \in With("pending") :
        LET after == [AfterPassing(passed) EXCEPT ![s] = "failed"]
            row == Count(RowAfterPassing(passed), "failed")
        IN /\ With("pending") # DOMAIN passed /\ Claims(passed, s)
           /\ step' = after
           /\ batch' = Merge(job.row, [row EXCEPT !.status = MaybeFinalize(row, after)])
  BY DEF ClaimFails
<1> DEFINE before == AfterPassing(passed)
           after == [before EXCEPT ![s] = "failed"]
           row == Count(RowAfterPassing(passed), "failed")
           new == [row EXCEPT !.status = MaybeFinalize(row, after)]
<1>2. job.pc = "claim" /\ GoTo("chain") /\ UNCHANGED <<attached, run, topic, cancel, requests>>
  BY DEF ClaimFails
<1>3. s \in Steps /\ step[s] = "pending" /\ before[s] = "pending"
  BY <1>1, ClaimedStep
<1>4. Open
  BY <1>3 DEF Open, Unsettled
<1>5. RowAfterPassing(passed) \in Rows /\ CountedBy(RowAfterPassing(passed), before)
  BY <1>2, <1>4, PassedRow
<1>6. /\ before \in [Steps -> StepStatuses]
      /\ DOMAIN passed \subseteq With("pending")
      /\ \A t \in DOMAIN passed : passed[t] \in {"skipped", "failed"}
      /\ \A t \in Steps : before[t] = IF t \in DOMAIN passed THEN passed[t] ELSE step[t]
  BY PassedSteps
<1>7. WithIn(before, "running") = With("running")
  BY PassedSizes
<1>8. step' = after /\ batch' = Merge(job.row, new)
  BY <1>1
<1> HIDE DEF before
<1>9. CountedBy(row, after) /\ row \in Rows
  <2>1. "failed" \in {"completed", "failed"} /\ before[s] \notin Settled
    BY <1>3 DEF Settled
  <2> QED
    BY <1>3, <1>5, <1>6, <2>1, CountedOnce
<1>10. after \in [Steps -> StepStatuses] /\ \A t \in Steps : after[t] = IF t = s THEN "failed" ELSE before[t]
  BY <1>3, <1>6 DEF StepStatuses
<1> HIDE DEF row, after
<1>11. new \in Rows /\ CountedBy(new, after)
  <2>1. new \in Rows /\ SameCounters(new, row)
    BY <1>9, FinalizedFields
  <2> QED
    BY <1>9, <2>1, SameCounted
<1> HIDE DEF new
<1>12. batch' \in Rows /\ CountedBy(batch', step')
  BY <1>2, <1>4, <1>8, <1>11, ClaimRow
<1>13. /\ \A t \in Steps : step[t] \in Settled => step'[t] = step[t]
       /\ \A t \in Steps : step'[t] = "completed" => step[t] = "completed"
  BY <1>6, <1>8, <1>10 DEF Settled, With, WithIn
<1>14. Cardinality(WithIn(step', "running")) <= 1
  <2>1. WithIn(step', "running") \subseteq With("running")
    BY <1>7, <1>8, <1>10 DEF WithIn
  <2>2. With("running") \in SUBSET Steps /\ Cardinality(With("running")) <= 1
    BY DEF IInv, OneRunningStep, With, WithIn
  <2> QED
    BY <2>1, <2>2, FewerSteps
<1>15. job' \in JobStates /\ left' \in Lefts /\ JobKnown'
  BY <1>2, ChainFields, JobLetsGo
<1>16. /\ attached' \in [Steps -> RunIds \cup {0}] /\ run' \in [RunIds -> RunStatuses \cup {"none"}]
       /\ topic' \in [RunIds -> Steps] /\ RunsGoOn /\ cancel' = cancel /\ attached' = attached
  BY <1>2, RunsStay DEF IInv, TypeOK
<1> QED
  BY <1>8, <1>10, <1>12, <1>13, <1>14, <1>15, <1>16, JobStepKeeps

LEMMA StepAttach ==
  ASSUME IInv, Attach
  PROVE  IInv'
<1>1. /\ job.pc = "attach" /\ attached' = [attached EXCEPT ![job.step] = job.run]
      /\ GoTo("execute") /\ UNCHANGED <<batch, step, run, topic, cancel, requests>>
  BY DEF Attach
<1>2. job.run # 0 /\ job.run \in RunIds /\ run[job.run] # "none" /\ step[job.step] # "completed" /\ job.step \in Steps
  BY <1>1, JobFields DEF IInv, JobKnown
<1>3. attached' \in [Steps -> RunIds \cup {0}] /\ \A t \in Steps : attached'[t] = IF t = job.step THEN job.run ELSE attached[t]
  BY <1>1, <1>2, JobFields
<1>4. job' \in JobStates /\ job'.pc = "execute" /\ job'.step = job.step /\ job'.run = job.run /\ left' \in Lefts
  BY <1>1, JobFields DEF GoTo, JobStates, IInv, TypeOK, Lefts
<1>5. JobKnown'
  BY <1>1, <1>2, <1>3, <1>4 DEF JobKnown
<1>6. /\ batch' \in Rows /\ step' \in [Steps -> StepStatuses] /\ run' \in [RunIds -> RunStatuses \cup {"none"}]
      /\ topic' \in [RunIds -> Steps] /\ RunsGoOn /\ cancel' = cancel
  BY <1>1, RunsStay DEF IInv, TypeOK
<1>7. Open => CountedBy(batch', step')
  BY <1>1 DEF IInv, CountersHold
<1>8. Cardinality(WithIn(step', "running")) <= 1
  BY <1>1 DEF IInv, OneRunningStep, With
<1>9. /\ \A s \in Steps : step[s] \in Settled => step'[s] = step[s]
      /\ \A s \in Steps : step'[s] = "completed" => step[s] = "completed" /\ attached'[s] = attached[s]
      /\ \A s \in Steps : attached'[s] = attached[s] \/ run'[attached'[s]] # "none"
  BY <1>1, <1>2, <1>3
<1> QED
  BY <1>3, <1>4, <1>5, <1>6, <1>7, <1>8, <1>9, JobStepKeeps

LEMMA StepExecute ==
  ASSUME IInv, Execute
  PROVE  IInv'
<1>1. /\ job.pc = "execute" /\ GoTo("finalize") /\ UNCHANGED <<batch, step, attached, topic, cancel, resume>>
      /\ \/ \E outcome \in {"completed", "failed"} : Becomes(job.run, outcome)
         \/ UNCHANGED <<run, completed_at>>
  BY DEF Execute
<1>2. job.run # 0 /\ run[job.run] # "none" /\ attached[job.step] = job.run
  BY <1>1 DEF IInv, JobKnown
<1>3. job.run \in RunIds
  BY <1>2, JobFields
<1>4. run' \in [RunIds -> RunStatuses \cup {"none"}] /\ RunsGoOn
  <2>1. resume' \in [Requests -> ResumeStates]
    BY <1>1 DEF IInv, TypeOK
  <2>2. CASE \E outcome \in {"completed", "failed"} : Becomes(job.run, outcome)
    <3>1. PICK outcome \in {"completed", "failed"} : Becomes(job.run, outcome)
      BY <2>2
    <3>2. outcome \in RunStatuses
      BY DEF RunStatuses
    <3> QED
      BY <1>3, <2>1, <3>1, <3>2, RunMoves
  <2>3. CASE UNCHANGED <<run, completed_at>>
    BY <1>1, <2>3, RunsStay, JobFields DEF requests
  <2> QED
    BY <1>1, <2>2, <2>3
<1>5. job' \in JobStates /\ job'.pc = "finalize" /\ job'.step = job.step /\ job'.run = job.run /\ left' \in Lefts
  BY <1>1, JobFields DEF GoTo, JobStates, IInv, TypeOK, Lefts
<1>6. JobKnown'
  BY <1>1, <1>2, <1>3, <1>4, <1>5 DEF JobKnown, RunsGoOn
<1>7. topic' \in [RunIds -> Steps]
  BY <1>1 DEF IInv, TypeOK
<1> QED
  BY <1>1, <1>4, <1>5, <1>6, <1>7, OnlyJobMoves

(* A running step leaves room for each counter.                            *)
LEMMA RunningHasRoom ==
  ASSUME IInv, Open, NEW row, SameCounters(row, batch), NEW s \in Steps, step[s] = "running"
  PROVE  row.completed < NumSteps /\ row.failed < NumSteps
<1>1. CountedBy(row, step)
  BY SameCounted DEF IInv, CountersHold
<1>2. Cardinality(WithIn(step, "completed")) < NumSteps /\ Cardinality(WithIn(step, "failed")) < NumSteps
  BY Room
<1> QED
  BY <1>1, <1>2 DEF CountedBy

LEMMA StepFinalizeRead ==
  ASSUME IInv, FinalizeRead
  PROVE  IInv'
<1>1. /\ job.pc = "finalize" /\ UNCHANGED <<batch, step, attached, run, topic, left, cancel, requests>>
      /\ job' = [job EXCEPT !.pc = "write", !.row = batch, !.seen = step[job.step], !.outcome = run[job.run]]
  BY DEF FinalizeRead
<1>2. job.run # 0 /\ run[job.run] # "none" /\ attached[job.step] = job.run
  BY <1>1 DEF IInv, JobKnown
<1>3. job.run \in RunIds /\ run[job.run] \in RunStatuses /\ job.step \in Steps /\ step[job.step] \in StepStatuses
  BY <1>2, JobFields
<1>4. /\ job' \in JobStates /\ job'.pc = "write" /\ job'.step = job.step /\ job'.run = job.run
      /\ job'.row = batch /\ job'.seen = step[job.step] /\ job'.outcome = run[job.run]
  BY <1>1, <1>3, JobFields DEF JobStates
<1>5. step[job.step] = "running" => Open
  BY <1>3 DEF Open, Unsettled
<1>6. step[job.step] = "running" => batch.completed < NumSteps /\ batch.failed < NumSteps
  <2>1. SameCounters(batch, batch)
    BY DEF SameCounters
  <2> QED
    BY <1>3, <1>5, <2>1, RunningHasRoom
<1>7. JobKnown'
  <2>1. run[job.run] = "completed" => job.run \in completed_at
    BY <1>3 DEF IInv, Completions
  <2> QED
    BY <1>1, <1>2, <1>4, <1>6, <2>1 DEF JobKnown, SameCounters, requests
<1>8. left' \in Lefts
  BY <1>1 DEF IInv, TypeOK, Lefts
<1> QED
  BY <1>1, <1>4, <1>7, <1>8, OnlyJob

LEMMA CountInRows ==
  ASSUME NEW row \in Rows, row.completed < NumSteps, row.failed < NumSteps,
         NEW outcome \in {"completed", "failed"}
  PROVE  Count(row, outcome) \in Rows
<1>1. row.completed + 1 \in 0..NumSteps /\ row.failed + 1 \in 0..NumSteps
  BY Constants DEF Rows
<1>2. outcome = "completed" => Count(row, outcome) = [row EXCEPT !.completed = row.completed + 1]
  BY DEF Count
<1>3. outcome = "failed" => Count(row, outcome) = [row EXCEPT !.failed = row.failed + 1]
  BY DEF Count
<1>4. CASE outcome = "completed"
  BY <1>1, <1>2, <1>4 DEF Rows
<1>5. CASE outcome = "failed"
  BY <1>1, <1>3, <1>5 DEF Rows
<1> QED
  BY <1>4, <1>5

(* The step s is settled by the outcome, and counted in the loaded row.    *)
LEMMA Settling ==
  ASSUME IInv, NEW s \in Steps, NEW outcome \in {"completed", "failed"},
         job.row.completed < NumSteps, job.row.failed < NumSteps,
         Open => SameCounters(job.row, batch) /\ step[s] = "running",
         outcome = "completed" => attached[s] # 0 /\ attached[s] \in completed_at,
         step' = [step EXCEPT ![s] = outcome],
         LET row == Count(job.row, outcome)
         IN batch' = Merge(job.row, [row EXCEPT !.status = MaybeFinalize(row, [step EXCEPT ![s] = outcome])]),
         UNCHANGED <<attached, run, topic, cancel, requests>>, job' \in JobStates, left' \in Lefts, JobKnown'
  PROVE  IInv'
<1> DEFINE after == [step EXCEPT ![s] = outcome]
           row == Count(job.row, outcome)
           new == [row EXCEPT !.status = MaybeFinalize(row, after)]
<1>1. step' = after /\ batch' = Merge(job.row, new)
  OBVIOUS
<1>2. after \in [Steps -> StepStatuses] /\ \A t \in Steps : after[t] = IF t = s THEN outcome ELSE step[t]
  BY JobFields DEF StepStatuses
<1>3. row \in Rows
  BY JobFields, CountInRows
<1>4. Open => CountedBy(row, after)
  <2> SUFFICES ASSUME Open
               PROVE  CountedBy(row, after)
    OBVIOUS
  <2>1. CountedBy(job.row, step)
    BY SameCounted DEF IInv, CountersHold
  <2>2. step[s] \notin Settled
    BY DEF Settled
  <2> QED
    BY <2>1, <2>2, JobFields, CountedOnce
<1> HIDE DEF after, row
<1>5. new \in Rows /\ SameCounters(new, row)
  BY <1>3, FinalizedFields
<1> HIDE DEF new
<1>6. /\ Merge(job.row, new) \in Rows
      /\ SameCounters(job.row, batch) => SameCounters(Merge(job.row, new), new)
  BY <1>5, JobFields, MergeFields
<1>7. batch' \in Rows /\ (Open => CountedBy(batch', step'))
  <2>1. Open => CountedBy(new, after)
    BY <1>4, <1>5, SameCounted
  <2> QED
    BY <1>1, <1>6, <2>1, SameCounted
<1>8. /\ \A t \in Steps : step[t] \in Settled => step'[t] \in Settled
      /\ \A t \in Steps : step'[t] = "completed" =>
           \/ step[t] = "completed"
           \/ attached'[t] # 0 /\ attached'[t] \in completed_at'
      /\ \A t \in Steps : attached'[t] = attached[t]
      /\ Open => \A t \in Steps : step[t] \in Settled => step'[t] = step[t]
  BY <1>1, <1>2 DEF Settled, requests
<1>9. Cardinality(WithIn(step', "running")) <= 1
  <2>1. WithIn(step', "running") \subseteq With("running")
    BY <1>1, <1>2 DEF WithIn, With
  <2>2. With("running") \in SUBSET Steps /\ Cardinality(With("running")) <= 1
    BY DEF IInv, OneRunningStep, With, WithIn
  <2> QED
    BY <2>1, <2>2, FewerSteps
<1>10. /\ attached' \in [Steps -> RunIds \cup {0}] /\ run' \in [RunIds -> RunStatuses \cup {"none"}]
       /\ topic' \in [RunIds -> Steps] /\ RunsGoOn /\ cancel' = cancel
  BY RunsStay DEF IInv, TypeOK
<1> QED
  BY <1>1, <1>2, <1>7, <1>8, <1>9, <1>10, JobStepKeeps

LEMMA StepFinalizeWrite ==
  ASSUME IInv, FinalizeWrite
  PROVE  IInv'
<1> DEFINE outcome == OutcomeOf(job.outcome)
<1>1. /\ job.pc = "write" /\ job' = [NoJob EXCEPT !.pc = "chain", !.tries = job.tries]
      /\ UNCHANGED <<attached, run, topic, left, cancel, requests>>
      /\ IF job.seen = "running"
           THEN /\ step' = [step EXCEPT ![job.step] = outcome]
                /\ LET row == Count(job.row, outcome)
                   IN batch' = Merge(job.row, [row EXCEPT !.status =
                                 MaybeFinalize(row, [step EXCEPT ![job.step] = outcome])])
           ELSE UNCHANGED <<step, batch>>
  BY DEF FinalizeWrite, SettleStep
<1>2. job' \in JobStates /\ job'.pc = "chain"
  BY <1>1, JobFields, NoJobFields
<1>3. left' \in Lefts /\ JobKnown'
  BY <1>1, <1>2, JobLetsGo DEF IInv, TypeOK, Lefts
<1>4. CASE job.seen = "running"
  <2>1. /\ job.row.completed < NumSteps /\ job.row.failed < NumSteps
        /\ Open => SameCounters(job.row, batch) /\ step[job.step] = "running"
    BY <1>1, <1>4 DEF IInv, JobKnown
  <2>2. outcome \in {"completed", "failed"} /\ (outcome = "completed" <=> job.outcome = "completed")
    BY DEF OutcomeOf
  <2>3. outcome = "completed" => attached[job.step] # 0 /\ attached[job.step] \in completed_at
    BY <1>1, <2>2 DEF IInv, JobKnown
  <2> HIDE DEF outcome
  <2> QED
    BY <1>1, <1>2, <1>3, <1>4, <2>1, <2>2, <2>3, JobFields, Settling
<1>5. CASE job.seen # "running"
  BY <1>1, <1>2, <1>3, <1>5, OnlyJob
<1> QED
  BY <1>4, <1>5

LEMMA StepChain ==
  ASSUME IInv, Chain
  PROVE  IInv'
<1>1. UNCHANGED <<batch, step, attached, run, topic, cancel, requests>> /\ (Dispatch \/ Return("ended"))
  BY DEF Chain
<1>2. CASE Dispatch
  <2>1. job' \in JobStates /\ job'.pc = "queued"
    <3>1. 0 \in 0..Retries /\ NewBatch \in Rows /\ 1 \in Steps
      BY Constants, BatchAssumption
    <3> QED
      BY <1>2, <3>1 DEF Dispatch, NoJob, JobStates, StepStatuses, RunStatuses
  <2>2. left' \in Lefts
    BY <1>2 DEF Dispatch, IInv, TypeOK, Lefts
  <2> QED
    BY <1>1, <2>1, <2>2, JobLetsGo, OnlyJob
<1>3. CASE Return("ended")
  <2>1. "ended" \in Lefts
    BY DEF Lefts
  <2> QED
    BY <1>1, <1>3, <2>1, ReturnFields, JobLetsGo, OnlyJob
<1> QED
  BY <1>1, <1>2, <1>3

(* The step that an earlier job has left running.                          *)
LEMMA InterruptedStep ==
  ASSUME IInv, HasRunning
  PROVE  Interrupted \in Steps /\ step[Interrupted] = "running" /\ Open
<1>1. With("running") \in SUBSET Nat /\ With("running") # {} /\ With("running") \in SUBSET Steps
  BY StepsFinite DEF HasRunning, With, WithIn
<1>2. Interrupted \in With("running")
  BY <1>1, FirstIsIn DEF Interrupted
<1> QED
  BY <1>2 DEF With, WithIn, Open, Unsettled

LEMMA StepReconcileReset ==
  ASSUME IInv, ReconcileReset
  PROVE  IInv'
<1> DEFINE s == Interrupted
<1>1. /\ job.pc = "claim" /\ step' = [step EXCEPT ![s] = "pending"] /\ GoTo("chain")
      /\ UNCHANGED <<batch, attached, run, topic, cancel, requests>> /\ HasRunning
  BY DEF ReconcileReset
<1>2. s \in Steps /\ step[s] = "running" /\ Open
  BY <1>1, InterruptedStep
<1> HIDE DEF s
<1>3. step' \in [Steps -> StepStatuses] /\ \A t \in Steps : step'[t] = IF t = s THEN "pending" ELSE step[t]
  BY <1>1, <1>2, JobFields DEF StepStatuses
<1>4. CountedBy(batch', step')
  <2>1. \A status \in Settled : WithIn(step', status) = WithIn(step, status)
    BY <1>2, <1>3 DEF WithIn, Settled
  <2>2. CountedBy(batch, step)
    BY <1>2 DEF IInv, CountersHold
  <2> QED
    BY <1>1, <2>1, <2>2 DEF CountedBy, Settled
<1>5. Cardinality(WithIn(step', "running")) <= 1
  <2>1. WithIn(step', "running") \subseteq With("running")
    BY <1>3 DEF WithIn, With
  <2>2. With("running") \in SUBSET Steps /\ Cardinality(With("running")) <= 1
    BY DEF IInv, OneRunningStep, With, WithIn
  <2> QED
    BY <2>1, <2>2, FewerSteps
<1>6. /\ \A t \in Steps : step[t] \in Settled => step'[t] = step[t]
      /\ \A t \in Steps : step'[t] = "completed" => step[t] = "completed"
      /\ \A t \in Steps : attached'[t] = attached[t]
  BY <1>1, <1>2, <1>3 DEF Settled
<1>7. job' \in JobStates /\ left' \in Lefts /\ JobKnown'
  BY <1>1, ChainFields, JobLetsGo
<1>8. /\ batch' \in Rows /\ attached' \in [Steps -> RunIds \cup {0}] /\ run' \in [RunIds -> RunStatuses \cup {"none"}]
      /\ topic' \in [RunIds -> Steps] /\ RunsGoOn /\ cancel' = cancel
  BY <1>1, RunsStay DEF IInv, TypeOK
<1> QED
  BY <1>3, <1>4, <1>5, <1>6, <1>7, <1>8, JobStepKeeps

LEMMA StepReconcileFinalize ==
  ASSUME IInv, ReconcileFinalize
  PROVE  IInv'
<1> DEFINE s == Interrupted
           outcome == OutcomeOf(run[attached[s]])
<1>1. /\ job.pc = "claim" /\ HasRunning /\ attached[s] # 0 /\ GoTo("chain")
      /\ UNCHANGED <<attached, run, topic, cancel, requests>>
      /\ step' = [step EXCEPT ![s] = outcome]
      /\ LET row == Count(job.row, outcome)
         IN batch' = Merge(job.row, [row EXCEPT !.status = MaybeFinalize(row, [step EXCEPT ![s] = outcome])])
  BY DEF ReconcileFinalize
<1>2. s \in Steps /\ step[s] = "running" /\ Open
  BY <1>1, InterruptedStep
<1>3. SameCounters(job.row, batch)
  BY <1>1, <1>2 DEF IInv, JobKnown
<1>4. job.row.completed < NumSteps /\ job.row.failed < NumSteps
  BY <1>2, <1>3, RunningHasRoom
<1>5. outcome \in {"completed", "failed"} /\ (outcome = "completed" => attached[s] \in completed_at)
  <2>1. attached[s] \in RunIds
    BY <1>1, <1>2, JobFields
  <2> QED
    BY <2>1 DEF OutcomeOf, IInv, Completions
<1>6. job' \in JobStates /\ left' \in Lefts /\ JobKnown'
  BY <1>1, ChainFields, JobLetsGo
<1> HIDE DEF s, outcome
<1> QED
  BY <1>1, <1>2, <1>3, <1>4, <1>5, <1>6, Settling

LEMMA StepReconcileExecute ==
  ASSUME IInv, ReconcileExecute
  PROVE  IInv'
<1> DEFINE s == Interrupted
<1>1. /\ job.pc = "claim" /\ HasRunning /\ attached[s] # 0
      /\ run[attached[s]] = "running"
      /\ job' = [job EXCEPT !.pc = "execute", !.step = s, !.run = attached[s], !.row = NewBatch]
      /\ UNCHANGED <<batch, step, attached, run, topic, left, cancel, requests>>
  BY DEF ReconcileExecute
<1>2. s \in Steps
  BY <1>1, InterruptedStep
<1> HIDE DEF s
<1>3. job' \in JobStates /\ job'.pc = "execute" /\ job'.step = s /\ job'.run = attached[s]
  BY <1>1, <1>2, JobFields, Constants DEF JobStates
<1>4. JobKnown'
  BY <1>1, <1>3 DEF JobKnown
<1>5. left' \in Lefts
  BY <1>1 DEF IInv, TypeOK, Lefts
<1> QED
  BY <1>1, <1>3, <1>4, <1>5, OnlyJob

LEMMA StepJobEnds ==
  ASSUME IInv, ReconcilePaused \/ JobRaises \/ JobLost
  PROVE  IInv'
<1>1. UNCHANGED <<batch, step, attached, run, topic, cancel, requests>> /\ (Raise \/ \E why \in Lefts : Return(why))
  BY DEF ReconcilePaused, JobRaises, JobLost, Lefts
<1>2. job' \in JobStates /\ left' \in Lefts /\ JobKnown'
  BY <1>1, RaiseFields, ReturnFields, JobLetsGo
<1> QED
  BY <1>1, <1>2, OnlyJob

-----------------------------------------------------------------------------
(* The cancellation, and the runs' own life.                               *)

LEMMA CancelFields ==
  ASSUME IInv
  PROVE  cancel \in CancelStates /\ cancel.row \in Rows /\ cancel.steps \in [Steps -> StepStatuses]
         /\ cancel.runs \in [Steps -> RunIds \cup {0}]
BY DEF IInv, TypeOK, CancelStates

(* Only the cancellation moves, and the batch stays open.                  *)
LEMMA OnlyCancel ==
  ASSUME IInv, UNCHANGED <<batch, step, attached, run, topic, job, left, requests>>, Open,
         cancel' \in CancelStates, CancelKnown'
  PROVE  IInv'
<1>1. TypeOK'
  BY DEF IInv, TypeOK, requests
<1>2. OneRunningStep' /\ CompletedStepHasOutput' /\ RunsStarted' /\ Completions'
  BY DEF IInv, OneRunningStep, CompletedStepHasOutput, RunsStarted, Completions, With, requests
<1>3. CountersHold' /\ JobKnown'
  BY DEF IInv, CountersHold, JobKnown, requests
<1> QED
  BY <1>1, <1>2, <1>3 DEF IInv

LEMMA CountedCountsNoMore ==
  ASSUME NEW row, NEW st, CountedBy(row, st)
  PROVE  CountsNoMore(row, st)
<1>1. /\ Cardinality(WithIn(st, "completed")) \in Nat /\ Cardinality(WithIn(st, "failed")) \in Nat
      /\ Cardinality(WithIn(st, "skipped")) \in Nat
  BY WithInSteps
<1> QED
  BY <1>1 DEF CountedBy, CountsNoMore

LEMMA StepCancelRead ==
  ASSUME IInv, CancelRead
  PROVE  IInv'
<1>1. /\ cancel.pc = "none" /\ UNCHANGED <<batch, step, attached, run, topic, job, left, requests>>
      /\ cancel' = [cancel EXCEPT !.pc = "batch", !.row = batch]
  BY DEF CancelRead
<1>2. cancel' \in CancelStates /\ cancel'.pc = "batch" /\ cancel'.row = batch
  BY <1>1, CancelFields, JobFields DEF CancelStates
<1>3. Open
  BY <1>1 DEF Open
<1>4. CountsNoMore(batch, step)
  BY <1>3, CountedCountsNoMore DEF IInv, CountersHold
<1>5. CancelKnown'
  BY <1>1, <1>2, <1>4 DEF CancelKnown
<1> QED
  BY <1>1, <1>2, <1>3, <1>5, OnlyCancel

LEMMA StepCancelReadSteps ==
  ASSUME IInv, CancelReadSteps
  PROVE  IInv'
<1>1. /\ cancel.pc = "batch" /\ UNCHANGED <<batch, step, attached, run, topic, job, left, requests>>
      /\ cancel' = [cancel EXCEPT !.pc = "read", !.steps = step, !.runs = attached]
  BY DEF CancelReadSteps
<1>2. /\ cancel' \in CancelStates /\ cancel'.pc = "read" /\ cancel'.row = cancel.row
      /\ cancel'.steps = step
  BY <1>1, CancelFields, JobFields DEF CancelStates
<1>3. Open
  BY <1>1 DEF Open
<1>4. CountsNoMore(cancel.row, step)
  BY <1>1 DEF IInv, CancelKnown
<1>5. CancelKnown'
  BY <1>1, <1>2, <1>4 DEF CancelKnown
<1> QED
  BY <1>1, <1>2, <1>3, <1>5, OnlyCancel

LEMMA StepCancelDiscard ==
  ASSUME IInv, CancelDiscard
  PROVE  IInv'
<1>1. /\ cancel.pc = "read" /\ UNCHANGED <<step, attached, run, topic, job, left, requests>>
      /\ batch' = [batch EXCEPT !.status = "cancelled"]
      /\ cancel' = [cancel EXCEPT !.pc = "discarded"]
  BY DEF CancelDiscard
<1>2. batch' \in Rows /\ SameCounters(batch', batch)
  BY <1>1, JobFields DEF Rows, BatchStatuses, SameCounters
<1>3. /\ cancel'.pc = "discarded" /\ cancel'.row = cancel.row
      /\ cancel'.steps = cancel.steps /\ cancel'.runs = cancel.runs
  <2>1. cancel' = [cancel EXCEPT !.pc = "discarded"] /\ cancel.pc = "read"
    BY <1>1
  <2>2. cancel \in CancelStates
    BY DEF IInv, TypeOK
  <2> QED
    BY <2>1, <2>2 DEF CancelStates
<1>4. Open /\ Open'
  BY <1>1, <1>3 DEF Open
<1>5. TypeOK'
  <2>1. cancel' \in CancelStates
    BY <1>1 DEF IInv, TypeOK, CancelStates
  <2> QED
    BY <1>1, <1>2, <2>1 DEF IInv, TypeOK, requests
<1>6. OneRunningStep' /\ CompletedStepHasOutput' /\ RunsStarted' /\ Completions'
  BY <1>1 DEF IInv, OneRunningStep, CompletedStepHasOutput, RunsStarted, Completions, With, requests
<1>7. CountersHold'
  BY <1>1, <1>2, <1>4, SameCounted DEF IInv, CountersHold
<1>8. JobKnown'
  BY <1>1, <1>2, <1>4 DEF IInv, JobKnown, SameCounters, requests
<1>9. CancelKnown'
  BY <1>1, <1>3 DEF IInv, CancelKnown
<1> QED
  BY <1>5, <1>6, <1>7, <1>8, <1>9 DEF IInv

LEMMA NoCancelFields == [NoCancel EXCEPT !.pc = "done"] \in CancelStates /\ NoCancel \in CancelStates
BY Constants DEF NoCancel, CancelStates, StepStatuses

(* The counters that the cancellation writes.                              *)
LEMMA CancelledRow ==
  ASSUME IInv, cancel.pc \in {"read", "discarded"}, NEW status \in BatchStatuses
  PROVE  [cancel.row EXCEPT !.status = status,
            !.failed = @ + Cardinality(WithIn(cancel.steps, "running")),
            !.skipped = @ + Cardinality(WithIn(cancel.steps, "pending"))] \in Rows
<1> DEFINE f == cancel.row.failed + Cardinality(WithIn(cancel.steps, "running"))
           k == cancel.row.skipped + Cardinality(WithIn(cancel.steps, "pending"))
<1>1. cancel.row \in Rows /\ CountsNoMore(cancel.row, cancel.steps)
  BY CancelFields DEF IInv, CancelKnown
<1>2. ASSUME NEW a, NEW b, a # b
      PROVE  Cardinality(WithIn(cancel.steps, a)) + Cardinality(WithIn(cancel.steps, b)) \in 0..NumSteps
  <2>1. /\ WithIn(cancel.steps, a) \in SUBSET Steps /\ WithIn(cancel.steps, b) \in SUBSET Steps
        /\ WithIn(cancel.steps, a) \cap WithIn(cancel.steps, b) = {}
    BY <1>2 DEF WithIn
  <2> QED
    BY <2>1, DisjointSteps
<1>3. /\ Cardinality(WithIn(cancel.steps, "failed")) + Cardinality(WithIn(cancel.steps, "running")) \in 0..NumSteps
      /\ Cardinality(WithIn(cancel.steps, "skipped")) + Cardinality(WithIn(cancel.steps, "pending")) \in 0..NumSteps
  BY <1>2
<1>4. f \in 0..NumSteps /\ k \in 0..NumSteps
  <2>1. cancel.row.failed \in Nat /\ cancel.row.skipped \in Nat
    BY <1>1 DEF Rows
  <2>2. \A any : Cardinality(WithIn(cancel.steps, any)) \in Nat
    BY WithInSteps
  <2>3. NumSteps \in Nat
    BY Constants
  <2> QED
    BY <1>1, <1>3, <2>1, <2>2, <2>3 DEF CountsNoMore
<1> HIDE DEF f, k
<1>5. [cancel.row EXCEPT !.status = status, !.failed = f, !.skipped = k] \in Rows
  BY <1>1, <1>4 DEF Rows
<1> QED
  BY <1>5 DEF f, k

LEMMA StepCancelWrite ==
  ASSUME IInv, CancelWrite
  PROVE  IInv'
<1> DEFINE status == IF cancel.pc = "read" THEN "cancelled" ELSE cancel.row.status
           new == [cancel.row EXCEPT !.status = status,
                     !.failed = @ + Cardinality(WithIn(cancel.steps, "running")),
                     !.skipped = @ + Cardinality(WithIn(cancel.steps, "pending"))]
<1>1. /\ cancel.pc \in {"read", "discarded"} /\ run' = AfterAbandon
      /\ step' = [s \in Steps |-> CASE cancel.steps[s] = "running" -> "failed"
                                     [] cancel.steps[s] = "pending" -> "skipped"
                                     [] OTHER -> step[s]]
      /\ cancel' = [NoCancel EXCEPT !.pc = "done"] /\ UNCHANGED <<attached, topic, job, left, requests>>
  BY DEF CancelWrite
<1>2. batch' = Merge(cancel.row, new)
  BY DEF CancelWrite
<1>3. cancel.row \in Rows /\ cancel.steps \in [Steps -> StepStatuses]
  BY DEF IInv, TypeOK, CancelStates
<1>4. status \in BatchStatuses
  BY <1>3 DEF Rows, BatchStatuses
<1> HIDE DEF status
<1>5. new \in Rows
  BY <1>1, <1>4, CancelledRow
<1> HIDE DEF new
<1>6. batch' \in Rows
  BY <1>2, <1>3, <1>5, JobFields, MergeFields
<1>7. \A s \in Steps : /\ step'[s] \in Settled
                       /\ step'[s] = "completed" => step[s] = "completed"
  <2> TAKE s \in Steps
  <2>1. cancel.steps[s] \in StepStatuses /\ (cancel.steps[s] \in Settled => step[s] \in Settled)
    BY <1>1, <1>3 DEF IInv, CancelKnown
  <2>2. step'[s] = CASE cancel.steps[s] = "running" -> "failed"
                     [] cancel.steps[s] = "pending" -> "skipped"
                     [] OTHER -> step[s]
    BY <1>1
  <2>3. CASE cancel.steps[s] = "running"
    BY <2>2, <2>3 DEF Settled
  <2>4. CASE cancel.steps[s] = "pending"
    BY <2>2, <2>4 DEF Settled
  <2>5. CASE cancel.steps[s] \in Settled
    <3>1. step'[s] = step[s]
      BY <2>2, <2>5 DEF Settled
    <3> QED
      BY <2>1, <2>5, <3>1
  <2> QED
    BY <2>1, <2>3, <2>4, <2>5 DEF StepStatuses, Settled
<1>8. step' \in [Steps -> StepStatuses]
  <2>1. \A s \in Steps : step'[s] \in StepStatuses
    BY <1>7 DEF Settled, StepStatuses
  <2>2. step' = [s \in Steps |-> step'[s]]
    BY <1>1
  <2> QED
    BY <2>1, <2>2
<1>9. cancel'.pc = "done" /\ cancel' \in CancelStates
  BY <1>1, NoCancelFields DEF NoCancel
<1>10. ~Open'
  BY <1>7, <1>9 DEF Open, Unsettled, Settled
<1>11. /\ run' \in [RunIds -> RunStatuses \cup {"none"}]
       /\ \A r \in RunIds : /\ run'[r] = "completed" => run[r] = "completed"
                            /\ run[r] # "none" => run'[r] # "none"
  BY <1>1, JobFields DEF AfterAbandon, RunStatuses
<1>12. TypeOK' /\ Completions'
  <2>1. UNCHANGED <<completed_at, resume>>
    BY <1>1 DEF requests
  <2> QED
    BY <1>1, <1>6, <1>8, <1>9, <1>11, <2>1 DEF IInv, TypeOK, Completions
<1>13. OneRunningStep'
  <2>1. WithIn(step', "running") = {}
    BY <1>7 DEF WithIn, Settled
  <2> QED
    BY <2>1, FS_EmptySet DEF OneRunningStep, With
<1>14. CompletedStepHasOutput'
  <2>1. ASSUME NEW s \in Steps, step'[s] = "completed"
        PROVE  attached'[s] # 0 /\ attached'[s] \in completed_at'
    <3>1. attached[s] # 0 /\ attached[s] \in completed_at
      BY <1>7, <2>1 DEF IInv, CompletedStepHasOutput, With, WithIn
    <3> QED
      BY <1>1, <3>1 DEF requests
  <2> QED
    BY <2>1 DEF CompletedStepHasOutput, With, WithIn
<1>15. RunsStarted'
  <2>1. \A s \in Steps : attached[s] \in RunIds \cup {0} /\ (attached[s] # 0 => run[attached[s]] # "none")
    BY JobFields DEF IInv, RunsStarted
  <2> QED
    BY <1>1, <1>11, <2>1 DEF RunsStarted
<1>16. JobKnown'
  BY <1>1, <1>7, <1>10, <1>11, JobFields DEF IInv, JobKnown, requests
<1> QED
  BY <1>9, <1>10, <1>12, <1>13, <1>14, <1>15, <1>16 DEF IInv, CountersHold, CancelKnown

LEMMA StepCancelDies ==
  ASSUME IInv, CancelDies
  PROVE  IInv'
<1>1. /\ cancel.pc \in {"batch", "read", "discarded"} /\ cancel' = [NoCancel EXCEPT !.pc = "done"]
      /\ UNCHANGED <<batch, step, attached, run, topic, job, left, requests>>
  BY DEF CancelDies
<1>2. cancel'.pc = "done" /\ cancel' \in CancelStates
  BY <1>1, NoCancelFields DEF NoCancel
<1>3. Open /\ CancelKnown'
  BY <1>1, <1>2 DEF Open, CancelKnown
<1> QED
  BY <1>1, <1>2, <1>3, OnlyCancel

(* Another run of these topics changes its status.                         *)
LEMMA StepMoves ==
  ASSUME IInv, NEW r \in RunIds, NEW status \in RunStatuses, Moves(r, status),
         resume' \in [Requests -> ResumeStates]
  PROVE  IInv'
<1>1. /\ Becomes(r, status) /\ topic' = topic
      /\ UNCHANGED <<batch, step, attached, job, left, cancel>>
  BY DEF Moves, Rest
<1>2. run' \in [RunIds -> RunStatuses \cup {"none"}] /\ RunsGoOn
  BY <1>1, RunMoves
<1>3. topic' \in [RunIds -> Steps]
  BY <1>1 DEF IInv, TypeOK
<1> QED
  BY <1>1, <1>2, <1>3, OnlyRuns

(* A request in flight has validated a run, and may mark it at any time.   *)
LEMMA StepResume ==
  ASSUME IInv, NEW q \in Requests, ResumeMark(q) \/ \E r \in RunIds : ResumeValidate(q, r)
  PROVE  IInv'
<1>1. resume \in [Requests -> ResumeStates] /\ topic \in [RunIds -> Steps]
  BY DEF IInv, TypeOK
<1>2. CASE ResumeMark(q)
  <2>1. /\ resume[q].pc = "validated" /\ Moves(resume[q].run, "running")
        /\ resume' = [resume EXCEPT ![q] = [pc |-> "done", run |-> 0]]
    BY <1>2 DEF ResumeMark
  <2>2. resume[q].run \in RunIds
    BY <1>1, <2>1 DEF ResumeStates
  <2>3. [pc |-> "done", run |-> 0] \in ResumeStates
    BY DEF ResumeStates
  <2>4. resume' \in [Requests -> ResumeStates]
    BY <1>1, <2>1, <2>3
  <2>5. "running" \in RunStatuses
    BY DEF RunStatuses
  <2> QED
    BY <2>1, <2>2, <2>4, <2>5, StepMoves
<1>3. ASSUME NEW r \in RunIds, ResumeValidate(q, r)
      PROVE  IInv'
  <2>1. /\ resume' = [resume EXCEPT ![q] = [pc |-> "validated", run |-> r]]
        /\ UNCHANGED <<batch, step, attached, job, left, cancel, run, topic, completed_at>>
    BY <1>3 DEF ResumeValidate, Rest
  <2>2. [pc |-> "validated", run |-> r] \in ResumeStates
    BY DEF ResumeStates
  <2>3. resume' \in [Requests -> ResumeStates]
    BY <1>1, <2>1, <2>2
  <2>4. RunsGoOn
    BY <2>1, <2>3 DEF RunsGoOn, IInv, TypeOK, Completions
  <2>5. run' \in [RunIds -> RunStatuses \cup {"none"}] /\ topic' \in [RunIds -> Steps]
    BY <1>1, <2>1, JobFields
  <2> QED
    BY <2>1, <2>4, <2>5, OnlyRuns
<1> QED
  BY <1>2, <1>3

LEMMA StepRunLife ==
  ASSUME IInv, RunLife
  PROVE  IInv'
<1>1. topic \in [RunIds -> Steps] /\ resume \in [Requests -> ResumeStates]
  BY DEF IInv, TypeOK
<1>2. CASE StartByHand
  <2>1. PICK s \in Steps, r \in Unused :
          /\ \A q \in Unused : r <= q
          /\ RunsOf(s, "running") = {}
          /\ run' = [Superseded(s) EXCEPT ![r] = "running"]
          /\ topic' = [topic EXCEPT ![r] = s]
    BY <1>2 DEF StartByHand
  <2>2. UNCHANGED <<batch, step, attached, job, left, cancel>> /\ UNCHANGED requests
    BY <1>2 DEF StartByHand, Rest
  <2>3. r \in RunIds
    BY DEF Unused
  <2>4. run' \in [RunIds -> RunStatuses \cup {"none"}] /\ RunsGoOn
    BY <2>1, <2>2, <2>3, SupersededRuns
  <2>5. topic' \in [RunIds -> Steps]
    BY <1>1, <2>1
  <2> QED
    BY <2>2, <2>4, <2>5, OnlyRuns
<1>3. ASSUME NEW r \in RunIds, PauseRun(r) \/ AbandonRun(r) \/ CompleteRun(r) \/ FailRun(r)
      PROVE  IInv'
  <2>1. PICK status \in {"paused", "abandoned", "completed", "failed"} : Moves(r, status)
    BY <1>3 DEF PauseRun, AbandonRun, CompleteRun, FailRun
  <2>2. resume' = resume
    BY <1>3 DEF PauseRun, AbandonRun, CompleteRun, FailRun
  <2>3. status \in RunStatuses
    BY DEF RunStatuses
  <2> QED
    BY <1>1, <2>1, <2>2, <2>3, StepMoves
<1> QED
  BY <1>2, <1>3, StepResume DEF RunLife

-----------------------------------------------------------------------------
(* The invariant.                                                          *)

LEMMA InitInvariant == Init => IInv
<1> SUFFICES ASSUME Init
             PROVE  IInv
  OBVIOUS
<1>1. /\ batch = NewBatch /\ step = [s \in Steps |-> "pending"] /\ attached = [s \in Steps |-> 0]
      /\ run = [r \in RunIds |-> "none"] /\ topic = [r \in RunIds |-> 1]
      /\ job = [NoJob EXCEPT !.pc = "queued"] /\ left = "active" /\ cancel = NoCancel
      /\ resume = [q \in Requests |-> [pc |-> "none", run |-> 0]] /\ completed_at = {}
  BY DEF Init
<1>2. 0 \in 0..Retries /\ NewBatch \in Rows /\ 1 \in Steps
  BY Constants, BatchAssumption
<1>3. job \in JobStates /\ job.pc = "queued"
  BY <1>1, <1>2 DEF NoJob, JobStates, StepStatuses, RunStatuses
<1>4. TypeOK
  <2>1. [pc |-> "none", run |-> 0] \in ResumeStates
    BY DEF ResumeStates
  <2> QED
    BY <1>1, <1>2, <1>3, <2>1, NoCancelFields DEF TypeOK, StepStatuses
<1>5. \A s \in Steps : step[s] = "pending"
  BY <1>1
<1>6. \A status : status # "pending" => WithIn(step, status) = {}
  BY <1>5 DEF WithIn
<1>7. OneRunningStep /\ CompletedStepHasOutput
  BY <1>6, FS_EmptySet DEF OneRunningStep, CompletedStepHasOutput, With
<1>8. CountersHold
  BY <1>1, <1>6, Constants, FS_EmptySet DEF CountersHold, CountedBy
<1>9. RunsStarted /\ JobKnown /\ CancelKnown /\ Completions
  BY <1>1, <1>3 DEF RunsStarted, JobKnown, CancelKnown, NoCancel, Completions
<1> QED
  BY <1>4, <1>7, <1>8, <1>9 DEF IInv

LEMMA StepInvariant == IInv /\ [Next]_vars => IInv'
<1> SUFFICES ASSUME IInv, [Next]_vars
             PROVE  IInv'
  OBVIOUS
<1>1. CASE UNCHANGED vars
  BY <1>1 DEF vars, IInv, TypeOK, OneRunningStep, CompletedStepHasOutput, CountersHold, RunsStarted,
              Completions, JobKnown, CancelKnown, Open, With
<1>2. CASE JobStep
  BY <1>2, StepLoad, StepClaimNothing, StepClaimAndStart, StepClaimConflict, StepClaimFails, StepAttach,
     StepExecute, StepFinalizeRead, StepFinalizeWrite, StepChain, StepReconcileReset,
     StepReconcileFinalize, StepReconcileExecute, StepJobEnds DEF JobStep, Claim, ReconcileStep
<1>3. CASE JobRaises \/ JobLost
  BY <1>3, StepJobEnds
<1>4. CASE Cancellation
  BY <1>4, StepCancelRead, StepCancelReadSteps, StepCancelDiscard, StepCancelWrite, StepCancelDies DEF Cancellation
<1>5. CASE RunLife
  BY <1>5, StepRunLife
<1> QED
  BY <1>1, <1>2, <1>3, <1>4, <1>5 DEF Next

(* The invariant holds in every state: counters, steps and runs agree with *)
(* what the job and the cancellation hold of them.                         *)
THEOREM BatchInvariance == Spec => []IInv
<1>1. Init => IInv
  BY InitInvariant
<1>2. IInv /\ [Next]_vars => IInv'
  BY StepInvariant
<1> QED
  BY <1>1, <1>2, PTL DEF Spec

(* Every variable stays in its domain; no counter exceeds the steps, after *)
(* a cancellation that overlapped with a job either.                       *)
THEOREM BatchTypes == Spec => []TypeOK
<1>1. IInv => TypeOK
  BY DEF IInv
<1> QED
  BY <1>1, BatchInvariance, PTL

(* One step of the batch runs at a time.                                   *)
THEOREM OneStepRuns == Spec => []OneRunningStep
<1>1. IInv => OneRunningStep
  BY DEF IInv
<1> QED
  BY <1>1, BatchInvariance, PTL

(* Until a cancellation has ended, the counters are the steps' statuses.   *)
THEOREM CountersAreTheSteps == Spec => []CountersAgree
<1>1. IInv => CountersAgree
  BY DEF IInv, CountersHold, CountersAgree, CountedBy, Open, With
<1> QED
  BY <1>1, BatchInvariance, PTL

(* A step is completed only if the run attached to it has completed.       *)
THEOREM CompletedHasOutput == Spec => []CompletedStepHasOutput
<1>1. IInv => CompletedStepHasOutput
  BY DEF IInv
<1> QED
  BY <1>1, BatchInvariance, PTL

(* A row that was loaded terminal leaves the status alone.                 *)
LEMMA TerminalRowKeepsStatus ==
  ASSUME IInv, job.row.status \in TerminalBatch, NEW new \in Rows, new.status = job.row.status
  PROVE  Merge(job.row, new).status = batch.status
BY JobFields, MergeFields

LEMMA FinalizedKeepsStatus ==
  ASSUME IInv, job.row.status \in TerminalBatch, NEW row \in Rows, row.status = job.row.status, NEW st,
         batch' = Merge(job.row, [row EXCEPT !.status = MaybeFinalize(row, st)])
  PROVE  batch'.status = batch.status
<1> DEFINE new == [row EXCEPT !.status = MaybeFinalize(row, st)]
<1>1. new \in Rows /\ new.status = row.status
  BY FinalizedFields
<1>2. batch' = Merge(job.row, new)
  OBVIOUS
<1> HIDE DEF new
<1> QED
  BY <1>1, <1>2, TerminalRowKeepsStatus

(* A claim on a terminal row changes no status.                            *)
LEMMA ClaimKeepsStatus ==
  ASSUME IInv, Claim, job.row.status \in TerminalBatch
  PROVE  batch'.status = batch.status
<1>1. job.pc = "claim"
  BY DEF Claim, ClaimNothing, ClaimAndStart, ClaimConflict, ClaimFails
<1>2. ASSUME NEW passed \in Passed
      PROVE  RowAfterPassing(passed) \in Rows /\ RowAfterPassing(passed).status = job.row.status
  BY <1>1, <1>2, PassedRow
<1>3. CASE ClaimNothing
  <2>1. PICK passed \in Passed :
          LET row == RowAfterPassing(passed)
          IN batch' = Merge(job.row, [row EXCEPT !.status = MaybeFinalize(row, AfterPassing(passed))])
    BY <1>3 DEF ClaimNothing
  <2> QED
    BY <1>2, <2>1, FinalizedKeepsStatus
<1>4. CASE ClaimAndStart \/ ClaimConflict
  <2>1. PICK passed \in Passed : batch' = Merge(job.row, RowAfterPassing(passed))
    BY <1>4 DEF ClaimAndStart, ClaimConflict
  <2> QED
    BY <1>2, <2>1, TerminalRowKeepsStatus
<1>5. CASE ClaimFails
  <2>1. PICK passed \in Passed, s \in With("pending") :
          LET after == [AfterPassing(passed) EXCEPT ![s] = "failed"]
              row == Count(RowAfterPassing(passed), "failed")
          IN /\ With("pending") # DOMAIN passed /\ Claims(passed, s)
             /\ step' = after
             /\ batch' = Merge(job.row, [row EXCEPT !.status = MaybeFinalize(row, after)])
    BY <1>5 DEF ClaimFails
  <2> DEFINE before == AfterPassing(passed)
             row == Count(RowAfterPassing(passed), "failed")
  <2>2. s \in Steps /\ step[s] = "pending" /\ before[s] = "pending"
    BY <2>1, ClaimedStep
  <2>3. CountedBy(RowAfterPassing(passed), before)
    <3>1. Open
      BY <2>2 DEF Open, Unsettled
    <3> QED
      BY <1>1, <3>1, PassedRow
  <2>4. before \in [Steps -> StepStatuses]
    BY PassedSteps
  <2>5. row \in Rows /\ row.status = job.row.status
    <3>1. "failed" \in {"completed", "failed"} /\ before[s] \notin Settled
      BY <2>2 DEF Settled
    <3> HIDE DEF before
    <3> QED
      BY <1>2, <2>2, <2>3, <2>4, <3>1, CountedOnce
  <2> QED
    BY <2>1, <2>5, FinalizedKeepsStatus
<1> QED
  BY <1>3, <1>4, <1>5 DEF Claim

(* So does a settlement.                                                   *)
LEMMA SettlingKeepsStatus ==
  ASSUME IInv, job.row.status \in TerminalBatch, NEW outcome \in {"completed", "failed"}, NEW st,
         job.row.completed < NumSteps, job.row.failed < NumSteps,
         LET row == Count(job.row, outcome)
         IN batch' = Merge(job.row, [row EXCEPT !.status = MaybeFinalize(row, st)])
  PROVE  batch'.status = batch.status
<1> DEFINE row == Count(job.row, outcome)
<1>1. row \in Rows
  BY JobFields, CountInRows
<1>2. row.status = job.row.status
  BY JobFields DEF Count, Rows
<1>3. batch' = Merge(job.row, [row EXCEPT !.status = MaybeFinalize(row, st)])
  OBVIOUS
<1> HIDE DEF row
<1> QED
  BY <1>1, <1>2, <1>3, FinalizedKeepsStatus

(* A cancellation is final but for a job that had loaded the open batch.   *)
THEOREM CancellationStands == Spec => CancelIsFinal
<1>1. IInv /\ [Next]_vars =>
        [batch.status = "cancelled" /\ ~(JobHolds /\ job.row.status \notin TerminalBatch)
           => batch'.status = "cancelled"]_vars
  <2> SUFFICES ASSUME IInv, Next, batch.status = "cancelled",
                      ~(JobHolds /\ job.row.status \notin TerminalBatch)
               PROVE  batch'.status = "cancelled"
    OBVIOUS
  <2>1. job.pc \in {"claim", "write"} => job.row.status \in TerminalBatch
    BY DEF JobHolds
  <2>2. CASE Claim
    <3>1. job.pc = "claim"
      BY <2>2 DEF Claim, ClaimNothing, ClaimAndStart, ClaimConflict, ClaimFails
    <3> QED
      BY <2>1, <2>2, <3>1, ClaimKeepsStatus
  <2>3. CASE FinalizeWrite
    <3> DEFINE outcome == OutcomeOf(job.outcome)
    <3>1. job.pc = "write" /\ outcome \in {"completed", "failed"}
      BY <2>3 DEF FinalizeWrite, OutcomeOf
    <3>2. CASE job.seen = "running"
      <4>1. LET row == Count(job.row, outcome)
            IN batch' = Merge(job.row, [row EXCEPT !.status =
                                MaybeFinalize(row, [step EXCEPT ![job.step] = outcome])])
        BY <2>3, <3>2 DEF FinalizeWrite, SettleStep
      <4>2. job.row.completed < NumSteps /\ job.row.failed < NumSteps
        BY <3>1, <3>2 DEF IInv, JobKnown
      <4> HIDE DEF outcome
      <4> QED
        BY <2>1, <3>1, <4>1, <4>2, SettlingKeepsStatus
    <3>3. CASE job.seen # "running"
      BY <2>3, <3>3 DEF FinalizeWrite, SettleStep
    <3> QED
      BY <3>2, <3>3
  <2>4. CASE ReconcileFinalize
    <3> DEFINE outcome == OutcomeOf(run[attached[Interrupted]])
    <3>1. /\ job.pc = "claim" /\ HasRunning /\ outcome \in {"completed", "failed"}
          /\ LET row == Count(job.row, outcome)
             IN batch' = Merge(job.row, [row EXCEPT !.status =
                                 MaybeFinalize(row, [step EXCEPT ![Interrupted] = outcome])])
      BY <2>4 DEF ReconcileFinalize, OutcomeOf
    <3>2. job.row.completed < NumSteps /\ job.row.failed < NumSteps
      <4>1. Interrupted \in Steps /\ step[Interrupted] = "running" /\ Open
        BY <3>1, InterruptedStep
      <4>2. SameCounters(job.row, batch)
        BY <3>1, <4>1 DEF IInv, JobKnown
      <4> QED
        BY <4>1, <4>2, RunningHasRoom
    <3> HIDE DEF outcome
    <3> QED
      BY <2>1, <3>1, <3>2, SettlingKeepsStatus
  <2>5. CASE CancelDiscard
    BY <2>5, JobFields DEF CancelDiscard, Rows
  <2>6. CASE CancelWrite
    <3> DEFINE status == IF cancel.pc = "read" THEN "cancelled" ELSE cancel.row.status
               new == [cancel.row EXCEPT !.status = status,
                         !.failed = @ + Cardinality(WithIn(cancel.steps, "running")),
                         !.skipped = @ + Cardinality(WithIn(cancel.steps, "pending"))]
    <3>1. cancel.pc \in {"read", "discarded"} /\ batch' = Merge(cancel.row, new)
      BY <2>6 DEF CancelWrite
    <3>2. cancel.row \in Rows
      BY DEF IInv, TypeOK, CancelStates
    <3>3. status = "cancelled" \/ status = cancel.row.status
      OBVIOUS
    <3>4. new.status = status
      BY <3>2 DEF Rows
    <3> HIDE DEF new, status
    <3>5. batch'.status = IF new.status # cancel.row.status THEN new.status ELSE batch.status
      BY <3>1, JobFields DEF Merge, Rows
    <3> QED
      BY <3>3, <3>4, <3>5
  <2>7. CASE Load \/ Attach \/ Execute \/ FinalizeRead \/ Chain \/ ReconcileReset \/ ReconcileExecute \/ ReconcilePaused
    BY <2>7 DEF Load, Attach, Execute, FinalizeRead, Chain, ReconcileReset, ReconcileExecute, ReconcilePaused
  <2>8. CASE JobRaises \/ JobLost \/ CancelRead \/ CancelReadSteps \/ CancelDies
    BY <2>8 DEF JobRaises, JobLost, CancelRead, CancelReadSteps, CancelDies
  <2>9. CASE RunLife
    BY <2>9 DEF RunLife, StartByHand, PauseRun, AbandonRun, CompleteRun, FailRun,
                ResumeValidate, ResumeMark, Moves, Rest
  <2> QED
    BY <2>2, <2>3, <2>4, <2>5, <2>6, <2>7, <2>8, <2>9 DEF Next, JobStep, ReconcileStep, Cancellation
<1> QED
  BY <1>1, BatchInvariance, PTL DEF Spec, CancelIsFinal

=============================================================================
