------------------------------ MODULE BatchJob ------------------------------
(***************************************************************************)
(* One generate-all batch: its steps, the process_batch job that claims,   *)
(* executes and finalizes one step and then chains the next, the mentor's  *)
(* cancellation, and the generation runs the steps share with requests     *)
(* from outside the batch: those made by hand, and those of another batch  *)
(* of the same topics, which nothing in create_batch excludes.             *)
(*                                                                         *)
(* A transaction that loads a row and writes it later is a reading and a   *)
(* writing step: sessions keep what they loaded, the UPDATEs name columns  *)
(* and no version.                                                         *)
(***************************************************************************)
EXTENDS Integers, FiniteSets

CONSTANTS
  NumSteps,  \* planned topics
  MaxRuns,   \* generation runs of these topics (bounds the state space)
  Retries,   \* job attempts after the first: 3 when durable, 0 inline
  MaxResumes \* requests that resume a run (bounds the state space)

ASSUME BatchAssumption ==
  /\ NumSteps \in Nat \ {0}
  /\ MaxRuns \in Nat \ {0}
  /\ Retries \in Nat
  /\ MaxResumes \in Nat

VARIABLES
  batch,    \* the batch_jobs row: status and counters
  step,     \* status of each step
  attached, \* generation_run_id of each step, 0 if none
  run,      \* status of each run of these topics
  topic,    \* the topic (named by its step) a run belongs to
  job,      \* the batch's job: where it is and what its session holds
  left,     \* how the last job ended without a successor
  cancel,   \* the cancellation: where it is and what its session holds
  resume,   \* the requests to resume a run: where each is, and the run it has validated
  completed_at \* runs whose completed_at is set

requests == <<resume, completed_at>>
vars == <<batch, step, attached, run, topic, job, left, cancel, resume, completed_at>>

Steps == 1..NumSteps
RunIds == 1..MaxRuns
Requests == 1..MaxResumes
StepStatuses == {"pending", "running", "completed", "failed", "skipped"}
Settled == {"completed", "failed", "skipped"}
BatchStatuses == {"pending", "running", "completed", "cancelled"}
TerminalBatch == {"completed", "cancelled"}
RunStatuses == {"running", "paused", "completed", "failed", "abandoned", "superseded"}
TerminalRun == {"completed", "failed", "abandoned", "superseded"}
Rows == [status: BatchStatuses, completed: 0..NumSteps, failed: 0..NumSteps, skipped: 0..NumSteps]
NewBatch == [status |-> "pending", completed |-> 0, failed |-> 0, skipped |-> 0]

\* What a session holds when it holds nothing: canonical values.
NoJob == [pc |-> "none", tries |-> 0, row |-> NewBatch, step |-> 1,
          seen |-> "pending", run |-> 0, outcome |-> "running"]
NoCancel == [pc |-> "none", row |-> NewBatch, steps |-> [s \in Steps |-> "pending"],
             runs |-> [s \in Steps |-> 0]]

\* create_batch commits the rows, then the route dispatches the job.
Init ==
  /\ batch = NewBatch
  /\ step = [s \in Steps |-> "pending"]
  /\ attached = [s \in Steps |-> 0]
  /\ run = [r \in RunIds |-> "none"]
  /\ topic = [r \in RunIds |-> 1]
  /\ job = [NoJob EXCEPT !.pc = "queued"]
  /\ left = "active"
  /\ cancel = NoCancel
  /\ resume = [q \in Requests |-> [pc |-> "none", run |-> 0]]
  /\ completed_at = {}

-----------------------------------------------------------------------------
(* Queries *)

\* Mutant: the claim does not ask whether a step is running.
HasRunningNever == FALSE

WithIn(st, status) == {s \in Steps : st[s] = status}
With(status) == WithIn(step, status)
RunsOf(s, status) == {r \in RunIds : topic[r] = s /\ run[r] = status}
Unused == {r \in RunIds : run[r] = "none"}
First(S) == CHOOSE s \in S : \A t \in S : s <= t
Unsettled(st) == \E s \in Steps : st[s] \in {"pending", "running"}
HasRunning == With("running") # {}

\* Mutant: a cancelled batch is completed like any other.
MaybeFinalizeUnguarded(row, st) == IF Unsettled(st) THEN row.status ELSE "completed"

\* What _maybe_finalize_batch makes of the status, given the loaded row and the steps.
MaybeFinalize(row, st) ==
  IF row.status \in TerminalBatch \/ Unsettled(st) THEN row.status ELSE "completed"

\* Mutant: whatever is no failure counts as a success.
OutcomeOfLenient(status) == IF status \in {"failed", "abandoned"} THEN "failed" ELSE "completed"

\* What finalize_step makes of a run's status.
OutcomeOf(status) == IF status = "completed" THEN "completed" ELSE "failed"

\* The UPDATE writes the columns that changed in the session: what was loaded stays otherwise.
Merge(row, new) == [batch EXCEPT
  !.status = IF new.status # row.status THEN new.status ELSE @,
  !.completed = IF new.completed # row.completed THEN new.completed ELSE @,
  !.failed = IF new.failed # row.failed THEN new.failed ELSE @,
  !.skipped = IF new.skipped # row.skipped THEN new.skipped ELSE @]

\* Mutant: a failed step is counted as skipped.
CountSwapped(row, outcome) == IF outcome = "completed" THEN [row EXCEPT !.completed = @ + 1]
                              ELSE [row EXCEPT !.skipped = @ + 1]

\* The counter that finalize_step raises.
Count(row, outcome) == IF outcome = "completed" THEN [row EXCEPT !.completed = @ + 1]
                       ELSE [row EXCEPT !.failed = @ + 1]

\* A run's status is set; complete_run sets completed_at with it, and nothing resets that.
Becomes(r, status) ==
  /\ run' = [run EXCEPT ![r] = status]
  /\ completed_at' = IF status = "completed" THEN completed_at \cup {r} ELSE completed_at

-----------------------------------------------------------------------------
(* The job: process_batch *)

Return(why) == job' = NoJob /\ left' = why
GoTo(pc) == job' = [job EXCEPT !.pc = pc] /\ UNCHANGED left

\* The next job is deferred; the batch has one job at a time.
Dispatch == job' = [NoJob EXCEPT !.pc = "queued"] /\ UNCHANGED left

\* Mutant: the attempts of a job are not counted.
RaiseUncounted == job' = [NoJob EXCEPT !.pc = "queued", !.tries = job.tries] /\ UNCHANGED left

\* An exception leaves process_batch: the worker runs the job again until its retries are used up.
Raise ==
  IF job.tries < Retries
    THEN job' = [NoJob EXCEPT !.pc = "queued", !.tries = job.tries + 1] /\ UNCHANGED left
    ELSE Return("exhausted")

\* The worker takes the job and loads the batch.
Load ==
  /\ job.pc = "queued"
  /\ IF batch.status \in TerminalBatch THEN Return("ended")
     ELSE job' = [job EXCEPT !.pc = "claim", !.row = batch] /\ UNCHANGED left
  /\ UNCHANGED <<batch, step, attached, run, topic, cancel, requests>>

\* claim_next_step settles a prefix of the pending steps: topics that have material are skipped, or
\* fail when their drafts cannot be cleared. passed maps each of them to its outcome.
Passed == UNION {[P -> {"skipped", "failed"}] :
                   P \in {{s \in With("pending") : s < t} : t \in 1..(NumSteps + 1)}}
AfterPassing(passed) == [s \in Steps |-> IF s \in DOMAIN passed THEN passed[s] ELSE step[s]]
Howmany(passed, outcome) == Cardinality({s \in DOMAIN passed : passed[s] = outcome})
RowAfterPassing(passed) ==
  [job.row EXCEPT !.status = IF @ = "pending" THEN "running" ELSE @,
                  !.skipped = @ + Howmany(passed, "skipped"),
                  !.failed = @ + Howmany(passed, "failed")]

\* No step is left to claim: the batch is finalized, reconciliation finds nothing, the job returns.
ClaimNothing ==
  /\ job.pc = "claim" /\ ~HasRunning
  /\ \E passed \in Passed :
       /\ DOMAIN passed = With("pending")
       /\ LET row == RowAfterPassing(passed)
          IN /\ step' = AfterPassing(passed)
             /\ batch' = Merge(job.row, [row EXCEPT !.status = MaybeFinalize(row, AfterPassing(passed))])
  /\ Return("ended")
  /\ UNCHANGED <<attached, run, topic, cancel, requests>>

\* The step that claim_next_step hands out after passing over the others.
Claims(passed, s) == s = First(With("pending") \ DOMAIN passed)

\* start_run supersedes the topic's paused and failed runs before it looks for a running one.
Superseded(s) == [r \in RunIds |-> IF topic[r] = s /\ run[r] \in {"paused", "failed"}
                                     THEN "superseded" ELSE run[r]]

\* A step is claimed and a run started for it: one commit, start_run's.
ClaimAndStart ==
  /\ job.pc = "claim" /\ ~HasRunning
  /\ \E passed \in Passed, s \in With("pending"), r \in Unused :
       /\ With("pending") # DOMAIN passed /\ Claims(passed, s)
       /\ RunsOf(s, "running") = {}
       /\ \A q \in Unused : r <= q
       /\ step' = [AfterPassing(passed) EXCEPT ![s] = "running"]
       /\ batch' = Merge(job.row, RowAfterPassing(passed))
       /\ run' = [Superseded(s) EXCEPT ![r] = "running"]
       /\ topic' = [topic EXCEPT ![r] = s]
       /\ job' = [job EXCEPT !.pc = "attach", !.step = s, !.run = r, !.row = NewBatch]
  /\ UNCHANGED <<attached, left, cancel, requests>>

\* The topic has a running run, or its coordinator lock is taken: the step goes back to pending.
ClaimConflict ==
  /\ job.pc = "claim" /\ ~HasRunning
  /\ \E passed \in Passed, s \in With("pending"), locked \in BOOLEAN :
       /\ With("pending") # DOMAIN passed /\ Claims(passed, s)
       /\ locked \/ RunsOf(s, "running") # {}
       /\ step' = AfterPassing(passed)
       /\ batch' = Merge(job.row, RowAfterPassing(passed))
       /\ attached' = [attached EXCEPT ![s] = 0]
       /\ run' = IF locked THEN run ELSE Superseded(s)
  /\ Raise
  /\ UNCHANGED <<topic, cancel, requests>>

\* The run cannot be started for another reason: the step fails at once.
ClaimFails ==
  /\ job.pc = "claim" /\ ~HasRunning
  /\ \E passed \in Passed, s \in With("pending") :
       LET after == [AfterPassing(passed) EXCEPT ![s] = "failed"]
           row == Count(RowAfterPassing(passed), "failed")
       IN /\ With("pending") # DOMAIN passed /\ Claims(passed, s)
          /\ step' = after
          /\ batch' = Merge(job.row, [row EXCEPT !.status = MaybeFinalize(row, after)])
  /\ GoTo("chain")
  /\ UNCHANGED <<attached, run, topic, cancel, requests>>

\* attach_generation_run writes the run id, whatever became of the step.
Attach ==
  /\ job.pc = "attach"
  /\ attached' = [attached EXCEPT ![job.step] = job.run]
  /\ GoTo("execute")
  /\ UNCHANGED <<batch, step, run, topic, cancel, requests>>

\* The run is executed on a session of its own: a run that is not RUNNING is left alone.
Execute ==
  /\ job.pc = "execute"
  /\ \/ /\ run[job.run] = "running"
        /\ \E outcome \in {"completed", "failed"} : Becomes(job.run, outcome)
     \/ /\ run[job.run] # "running"
        /\ UNCHANGED <<run, completed_at>>
  /\ GoTo("finalize")
  /\ UNCHANGED <<batch, step, attached, topic, cancel, resume>>

\* _finalize_from_run loads run, batch and step on a fresh session...
FinalizeRead ==
  /\ job.pc = "finalize"
  /\ job' = [job EXCEPT !.pc = "write", !.row = batch, !.seen = step[job.step],
                        !.outcome = run[job.run]]
  /\ UNCHANGED <<batch, step, attached, run, topic, left, cancel, requests>>

\* Mutant: a step that was settled meanwhile is settled again.
SettleStepAlways(seen) == TRUE

\* ... and settles the step if it was running.
SettleStep(seen) == seen = "running"

FinalizeWrite ==
  /\ job.pc = "write"
  /\ LET outcome == OutcomeOf(job.outcome)
         after == [step EXCEPT ![job.step] = outcome]
         row == Count(job.row, outcome)
     IN IF SettleStep(job.seen)
          THEN /\ step' = after
               /\ batch' = Merge(job.row, [row EXCEPT !.status = MaybeFinalize(row, after)])
          ELSE UNCHANGED <<step, batch, requests>>
  /\ job' = [NoJob EXCEPT !.pc = "chain", !.tries = job.tries]
  /\ UNCHANGED <<attached, run, topic, left, cancel, requests>>

\* _maybe_chain_next_step dispatches a job while steps are pending.
NeedsJob == batch.status \notin TerminalBatch /\ With("pending") # {}

Chain ==
  /\ job.pc = "chain"
  /\ IF NeedsJob THEN Dispatch ELSE Return("ended")
  /\ UNCHANGED <<batch, step, attached, run, topic, cancel, requests>>

\* A job that finds a running step was interrupted earlier: _reconcile_running_step.
Interrupted == First(With("running"))

\* No run is attached: the step goes back to pending.
ReconcileReset ==
  /\ job.pc = "claim" /\ HasRunning
  /\ attached[Interrupted] = 0
  /\ step' = [step EXCEPT ![Interrupted] = "pending"]
  /\ GoTo("chain")
  /\ UNCHANGED <<batch, attached, run, topic, cancel, requests>>

\* The run has ended: the step is settled in the session that loaded the batch for the claim.
ReconcileFinalize ==
  /\ job.pc = "claim" /\ HasRunning
  /\ attached[Interrupted] # 0 /\ run[attached[Interrupted]] \in TerminalRun
  /\ LET outcome == OutcomeOf(run[attached[Interrupted]])
         after == [step EXCEPT ![Interrupted] = outcome]
         row == Count(job.row, outcome)
     IN /\ step' = after
        /\ batch' = Merge(job.row, [row EXCEPT !.status = MaybeFinalize(row, after)])
  /\ GoTo("chain")
  /\ UNCHANGED <<attached, run, topic, cancel, requests>>

\* The run is still RUNNING: it is executed again.
ReconcileExecute ==
  /\ job.pc = "claim" /\ HasRunning
  /\ attached[Interrupted] # 0 /\ run[attached[Interrupted]] = "running"
  /\ job' = [job EXCEPT !.pc = "execute", !.step = Interrupted, !.run = attached[Interrupted],
                        !.row = NewBatch]
  /\ UNCHANGED <<batch, step, attached, run, topic, left, cancel, requests>>

\* The run is paused: the job returns and chains nothing.
ReconcilePaused ==
  /\ job.pc = "claim" /\ HasRunning
  /\ attached[Interrupted] # 0 /\ run[attached[Interrupted]] = "paused"
  /\ Return("paused")
  /\ UNCHANGED <<batch, step, attached, run, topic, cancel, requests>>

\* A database error at any point: the transaction is rolled back, the job raised.
JobRaises ==
  /\ job.pc \notin {"none", "queued"}
  /\ Raise
  /\ UNCHANGED <<batch, step, attached, run, topic, cancel, requests>>

\* The worker process dies; its job is not delivered again.
JobLost ==
  /\ job.pc # "none"
  /\ Return("lost")
  /\ UNCHANGED <<batch, step, attached, run, topic, cancel, requests>>

-----------------------------------------------------------------------------
(* The mentor's cancellation *)

\* The batch is loaded; a terminal one is left alone.
CancelRead ==
  /\ cancel.pc = "none"
  /\ batch.status \notin TerminalBatch
  /\ cancel' = [cancel EXCEPT !.pc = "batch", !.row = batch]
  /\ UNCHANGED <<batch, step, attached, run, topic, job, left, requests>>

\* Its steps are loaded by a statement of their own.
CancelReadSteps ==
  /\ cancel.pc = "batch"
  /\ cancel' = [cancel EXCEPT !.pc = "read", !.steps = step, !.runs = attached]
  /\ UNCHANGED <<batch, step, attached, run, topic, job, left, requests>>

\* The runs of the steps that were running and had a run are abandoned.
Abandoned == {cancel.runs[s] : s \in {t \in Steps : cancel.steps[t] = "running" /\ cancel.runs[t] # 0}}
AfterAbandon == [r \in RunIds |-> IF r \in Abandoned /\ run[r] \in {"running", "paused", "failed"}
                                    THEN "abandoned" ELSE run[r]]

\* Discarding a run's output commits, and the batch's new status with it.
CancelDiscard ==
  /\ cancel.pc = "read" /\ Abandoned # {}
  /\ batch' = [batch EXCEPT !.status = "cancelled"]
  /\ cancel' = [cancel EXCEPT !.pc = "discarded"]
  /\ UNCHANGED <<step, attached, run, topic, job, left, requests>>

\* The final commit: status and counters from the loaded row, steps by what was loaded.
CancelWrite ==
  /\ cancel.pc \in {"read", "discarded"}
  /\ run' = AfterAbandon
  /\ step' = [s \in Steps |-> CASE cancel.steps[s] = "running" -> "failed"
                                [] cancel.steps[s] = "pending" -> "skipped"
                                [] OTHER -> step[s]]
  /\ LET by(status) == Cardinality(WithIn(cancel.steps, status))
     IN batch' = Merge(cancel.row, [cancel.row EXCEPT
                   !.status = IF cancel.pc = "read" THEN "cancelled" ELSE @,
                   !.failed = @ + by("running"), !.skipped = @ + by("pending")])
  /\ cancel' = [NoCancel EXCEPT !.pc = "done"]
  /\ UNCHANGED <<attached, topic, job, left, requests>>

\* The request fails: nothing after its last commit is written.
CancelDies ==
  /\ cancel.pc \in {"batch", "read", "discarded"}
  /\ cancel' = [NoCancel EXCEPT !.pc = "done"]
  /\ UNCHANGED <<batch, step, attached, run, topic, job, left, requests>>

-----------------------------------------------------------------------------
(* The runs' own life: the mentor's requests, other workers, the stale sweep *)

Rest == UNCHANGED <<batch, step, attached, job, left, cancel>>

\* The mentor generates a topic's material by hand.
StartByHand ==
  /\ \E s \in Steps, r \in Unused :
       /\ \A q \in Unused : r <= q
       /\ RunsOf(s, "running") = {}
       /\ run' = [Superseded(s) EXCEPT ![r] = "running"]
       /\ topic' = [topic EXCEPT ![r] = s]
  /\ Rest /\ UNCHANGED requests

Moves(r, status) == Becomes(r, status) /\ Rest /\ UNCHANGED topic

PauseRun(r) == run[r] = "running" /\ Moves(r, "paused") /\ UNCHANGED resume
AbandonRun(r) == run[r] \in {"running", "paused", "failed"} /\ Moves(r, "abandoned") /\ UNCHANGED resume

\* Another worker completes a run, a paused one too, or fails it; so does the sweep.
CompleteRun(r) == run[r] \in {"running", "paused"} /\ Moves(r, "completed") /\ UNCHANGED resume
FailRun(r) == run[r] = "running" /\ Moves(r, "failed") /\ UNCHANGED resume

\* resume_run validates the run, before it takes the coordinator lock...
ResumeValidate(q, r) ==
  /\ resume[q].pc = "none"
  /\ run[r] \in {"paused", "failed"} /\ RunsOf(topic[r], "running") = {}
  /\ resume' = [resume EXCEPT ![q] = [pc |-> "validated", run |-> r]]
  /\ Rest /\ UNCHANGED <<run, topic, completed_at>>

\* ... and marks it running, whatever became of it since.
ResumeMark(q) ==
  /\ resume[q].pc = "validated"
  /\ resume' = [resume EXCEPT ![q] = [pc |-> "done", run |-> 0]]
  /\ Moves(resume[q].run, "running")

-----------------------------------------------------------------------------
(* The next-state relation *)

Claim == ClaimNothing \/ ClaimAndStart \/ ClaimConflict \/ ClaimFails
ReconcileStep == ReconcileReset \/ ReconcileFinalize \/ ReconcileExecute \/ ReconcilePaused
JobStep == Load \/ Claim \/ Attach \/ Execute \/ FinalizeRead \/ FinalizeWrite \/ Chain \/ ReconcileStep
Cancellation == CancelRead \/ CancelReadSteps \/ CancelDiscard \/ CancelWrite \/ CancelDies
RunLife ==
  \/ StartByHand
  \/ \E r \in RunIds : PauseRun(r) \/ AbandonRun(r) \/ CompleteRun(r) \/ FailRun(r)
  \/ \E q \in Requests : ResumeMark(q) \/ \E r \in RunIds : ResumeValidate(q, r)

Next == JobStep \/ JobRaises \/ JobLost \/ Cancellation \/ RunLife

Spec == Init /\ [][Next]_vars

\* A worker is there for the job.
FairSpec == Spec /\ WF_vars(JobStep)

-----------------------------------------------------------------------------
(* Properties *)

JobStates == [pc: {"none", "queued", "claim", "attach", "execute", "finalize", "write", "chain"},
              tries: 0..Retries, row: Rows, step: Steps, seen: StepStatuses, run: RunIds \cup {0},
              outcome: RunStatuses]
CancelStates == [pc: {"none", "batch", "read", "discarded", "done"}, row: Rows,
                 steps: [Steps -> StepStatuses], runs: [Steps -> RunIds \cup {0}]]
ResumeStates == {[pc |-> pc, run |-> 0] : pc \in {"none", "done"}}
                  \cup [pc: {"validated"}, run: RunIds]

\* Every variable stays in its domain; counters never exceed the number of steps.
TypeOK ==
  /\ batch \in Rows
  /\ step \in [Steps -> StepStatuses]
  /\ attached \in [Steps -> RunIds \cup {0}]
  /\ run \in [RunIds -> RunStatuses \cup {"none"}]
  /\ topic \in [RunIds -> Steps]
  /\ job \in JobStates
  /\ left \in {"active", "ended", "paused", "exhausted", "lost"}
  /\ cancel \in CancelStates
  /\ resume \in [Requests -> ResumeStates]
  /\ completed_at \subseteq RunIds

\* One step of the batch runs at a time, whatever was interrupted, retried or cancelled:
\* claim_next_step's check and the single chain of jobs together (tasks.py, process_batch).
OneRunningStep == Cardinality(With("running")) <= 1

\* Until a cancellation has ended, the row's counters are the steps' statuses, across resets,
\* reconciliations and retries: no step is counted twice or forgotten (finalize_step).
CountersAgree ==
  cancel.pc # "done" => /\ batch.completed = Cardinality(With("completed"))
                        /\ batch.failed = Cardinality(With("failed"))
                        /\ batch.skipped = Cardinality(With("skipped"))

\* A step is reported completed only if the run attached to it has completed, though runs are paused,
\* resumed, abandoned and superseded while the batch waits for them (_finalize_from_run). The run's
\* status need not say so any more: a resume validated before the run completed marks it running again.
CompletedStepHasOutput ==
  \A s \in With("completed") : attached[s] # 0 /\ attached[s] \in completed_at

\* The session that may still write an outdated row.
JobHolds == job.pc \in {"claim", "write"}

\* A cancellation is final against everything but a job that had loaded the open batch before.
CancelIsFinal ==
  [][batch.status = "cancelled" /\ ~(JobHolds /\ job.row.status \notin TerminalBatch)
       => batch'.status = "cancelled"]_vars

\* With a worker at hand and runs that end, a batch ends, unless a worker died, the job's retries
\* were used up, or the running step's run was paused (_maybe_chain_next_step): conflicts, resets
\* and reconciliations neither break the chain of jobs nor keep it going for ever.
BatchEnds == <>(batch.status \in TerminalBatch \/ left \notin {"active", "ended"})

-----------------------------------------------------------------------------
(* The inductive invariant. *)

\* The row counts the settled steps.
CountedBy(row, st) ==
  /\ row.completed = Cardinality(WithIn(st, "completed"))
  /\ row.failed = Cardinality(WithIn(st, "failed"))
  /\ row.skipped = Cardinality(WithIn(st, "skipped"))

SameCounters(row, other) ==
  row.completed = other.completed /\ row.failed = other.failed /\ row.skipped = other.skipped

\* The cancellation settles every step with its last commit: until then the counters are right,
\* and what the job has loaded of them is still in the row.
Open == cancel.pc # "done" \/ Unsettled(step)

CountersHold == Open => CountedBy(batch, step)

Completions == \A r \in RunIds : run[r] = "completed" => r \in completed_at

RunsStarted == \A s \in Steps : attached[s] # 0 => run[attached[s]] # "none"

\* What the job holds of its step, its run and the batch.
JobKnown ==
  /\ job.pc \in {"attach", "execute", "finalize", "write"} => job.run # 0 /\ run[job.run] # "none"
  /\ job.pc = "attach" => step[job.step] # "completed"
  /\ job.pc \in {"execute", "finalize", "write"} => attached[job.step] = job.run
  /\ job.pc = "write" /\ job.outcome = "completed" => job.run \in completed_at
  /\ job.pc = "claim" /\ Open => SameCounters(job.row, batch)
  /\ job.pc = "write" /\ job.seen = "running" =>
       /\ job.row.completed < NumSteps /\ job.row.failed < NumSteps
       /\ Open => SameCounters(job.row, batch) /\ step[job.step] = "running"

\* The row counts no step that is not settled: it was loaded before the steps were.
CountsNoMore(row, st) ==
  /\ row.completed <= Cardinality(WithIn(st, "completed"))
  /\ row.failed <= Cardinality(WithIn(st, "failed"))
  /\ row.skipped <= Cardinality(WithIn(st, "skipped"))

\* What the cancellation holds: counters no newer than the steps, and settled steps stay settled.
CancelKnown ==
  /\ cancel.pc = "batch" => CountsNoMore(cancel.row, step)
  /\ cancel.pc \in {"read", "discarded"} =>
       /\ CountsNoMore(cancel.row, cancel.steps)
       /\ \A s \in Steps : cancel.steps[s] \in Settled => step[s] \in Settled

IInv ==
  /\ TypeOK /\ OneRunningStep /\ CompletedStepHasOutput
  /\ CountersHold /\ Completions /\ RunsStarted /\ JobKnown /\ CancelKnown
=============================================================================
