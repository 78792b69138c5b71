---------------------------- MODULE GenerationRun ----------------------------
(***************************************************************************)
(* The durable generation runs of ONE (pipeline, resource) pair: the rows  *)
(* of table generationruns, the HTTP requests that start, resume, pause    *)
(* and abandon them, the background jobs that execute them under the       *)
(* session-level advisory lock, and the periodic sweep of stale rows.      *)
(*                                                                         *)
(* A step is one database transaction, or one read whose answer is used    *)
(* after other sessions had the chance to commit.  Rows are read through   *)
(* SQLAlchemy's identity map (expire_on_commit=False), so a worker keeps   *)
(* the values it loaded when it took the job: job[w] is that snapshot, and *)
(* only get_live_status_and_token and the WHERE clauses of an UPDATE see   *)
(* the live row.                                                           *)
(***************************************************************************)
EXTENDS Naturals, FiniteSets

CONSTANTS
  MaxRuns,            \* bound: rows ever created for the resource
  Workers,            \* background job executors
  Callers,            \* HTTP requests in flight at one time
  Nobody,             \* the value of a free lock
  MaxResumeAttempts,  \* MAX_RESUME_ATTEMPTS
  NumNodes,           \* nodes of the generation graph
  Durable,            \* jobs run on the procrastinate worker, not inline
  PoisonedSessions    \* an exception may leave a session that needs rollback

ASSUME GenerationRunAssumption ==
  /\ MaxRuns \in Nat \ {0}
  /\ Nobody \notin Workers
  /\ MaxResumeAttempts \in Nat
  /\ NumNodes \in Nat \ {0}
  /\ Durable \in BOOLEAN
  /\ PoisonedSessions \in BOOLEAN

VARIABLES
  lastRun,   \* number of rows created; rows are numbered by created_at
  status,    \* status[r]: the row's status, "none" before it exists
  token,     \* token[r]: execution_token, 0 before it exists, fresh = + 1
  attempts,  \* attempts[r]: attempt_count
  ckpt,      \* ckpt[r]: last_completed_node, 0 when there is none
  result,    \* result[r]: request_params["result"] is stored
  drafts,    \* drafts[r]: non-discarded versions tagged with the run id
  jobs,      \* jobs[r]: scheduled jobs no worker has taken yet
  lock,      \* the worker whose connection holds the execution lock
  pc,        \* pc[w]: where worker w stands
  job,       \* job[w]: the run and the row snapshot of w's job
  api        \* api[c]: the progress of request c

row      == <<lastRun, status, token, attempts, ckpt, result>>
executor == <<pc, job>>
vars     == <<row, drafts, jobs, lock, executor, api>>

Runs == 1..MaxRuns

Statuses    == {"none", "running", "paused", "failed",
                "completed", "abandoned", "superseded"}
Active      == {"running", "paused", "failed"}     \* ACTIVE_RUN_STATUSES
Resumable   == {"paused", "failed"}                \* RESUMABLE_RUN_STATUSES
Abandonable == {"running", "paused", "failed"}     \* _ABANDONABLE_STATUSES

\* The places between taking the job and giving the connection back.
Executing == {"settle", "graph", "checkpoint", "persist", "store", "complete"}
Places    == Executing \cup {"idle", "wait", "refail", "exit", "reconcile"}

\* A job in hand: the run and the columns loaded with it (the LLM nodes done
\* count on from the checkpoint).
Job(r, t, n, res) == [run |-> r, token |-> t, node |-> n, result |-> res]
NoJob == Job(1, 0, 0, FALSE)

\* A request between two transactions: what it does, to which run, the attempt
\* count it read, and the rows it has superseded without having committed.
Call(op, r, n, hit) == [op |-> op, run |-> r, attempts |-> n, hit |-> hit]
NoCall == Call("idle", 1, 0, {})

JobSet  == [run: Runs, token: Nat, node: 0..NumNodes, result: BOOLEAN]
CallSet == [op: {"idle", "start", "resume", "abandon"}, run: Runs,
            attempts: Nat, hit: SUBSET Runs]

Init ==
  /\ lastRun  = 0
  /\ status   = [r \in Runs |-> "none"]
  /\ token    = [r \in Runs |-> 0]
  /\ attempts = [r \in Runs |-> 0]
  /\ ckpt     = [r \in Runs |-> 0]
  /\ result   = [r \in Runs |-> FALSE]
  /\ drafts   = [r \in Runs |-> 0]
  /\ jobs     = [r \in Runs |-> 0]
  /\ lock     = Nobody
  /\ pc       = [w \in Workers |-> "idle"]
  /\ job      = [w \in Workers |-> NoJob]
  /\ api      = [c \in Callers |-> NoCall]

-----------------------------------------------------------------------------
(* The row as an UPDATE or a SELECT sees it.                               *)

\* get_active_run: the newest row among those in an active status.  Rows the
\* reading transaction has itself superseded do not count.
NewestActive(hidden, r) ==
  /\ r \in Runs \ hidden
  /\ status[r] \in Active
  /\ \A q \in Runs \ hidden : status[q] \in Active => q <= r

\* A request between supersede_stale_runs and its commit holds the
\* coordinator lock and row locks on the rows it superseded.
CoordinatorFree == \A c \in Callers : api[c].op # "start"
RowLocked(r)    == \E c \in Callers : r \in api[c].hit

\* Mutant: the UPDATE forgets the token.
FailRowAnyToken(r, t) ==
  status' = IF status[r] = "running" THEN [status EXCEPT ![r] = "failed"] ELSE status

\* UPDATE ... SET status = 'failed' WHERE status = 'running' AND token = t.
FailRow(r, t) ==
  status' = IF status[r] = "running" /\ token[r] = t
            THEN [status EXCEPT ![r] = "failed"]
            ELSE status

-----------------------------------------------------------------------------
(* HTTP requests.                                                          *)

\* start_run, first half: take the coordinator lock and supersede the paused
\* and failed runs of the resource (flushed, not committed).
StartSupersede(c) ==
  /\ api[c].op = "idle"
  /\ lastRun < MaxRuns
  /\ CoordinatorFree
  /\ api' = [api EXCEPT ![c] =
       Call("start", 1, 0, {r \in Runs : status[r] \in Resumable})]
  /\ UNCHANGED <<row, drafts, jobs, lock, executor>>

\* start_run, second half, when get_active_run answers with a RUNNING row:
\* GenerationRunConflictException, the transaction is rolled back.
StartConflict(c) ==
  /\ api[c].op = "start"
  /\ \E r \in Runs : NewestActive(api[c].hit, r) /\ status[r] = "running"
  /\ api' = [api EXCEPT ![c] = NoCall]
  /\ UNCHANGED <<row, drafts, jobs, lock, executor>>

\* start_run, second half: insert the row, commit, and schedule its job.
StartCreate(c) ==
  /\ api[c].op = "start"
  /\ \A r \in Runs : NewestActive(api[c].hit, r) => status[r] # "running"
  /\ LET new == lastRun + 1
     IN  /\ lastRun' = new
         /\ status' = [r \in Runs |-> IF r = new THEN "running"
                                      ELSE IF r \in api[c].hit THEN "superseded"
                                      ELSE status[r]]
         /\ token' = [token EXCEPT ![new] = 1]
         /\ jobs' = [jobs EXCEPT ![new] = @ + 1]
  /\ api' = [api EXCEPT ![c] = NoCall]
  /\ UNCHANGED <<attempts, ckpt, result, drafts, lock, executor>>

\* resume: _validate_resumable and _assert_no_resume_conflict, both before
\* the coordinator lock is taken.
ResumeValidate(c, r) ==
  /\ api[c].op = "idle"
  /\ status[r] \in Resumable
  /\ attempts[r] < MaxResumeAttempts
  /\ \A q \in Runs : NewestActive({}, q) => q = r \/ status[q] # "running"
  /\ api' = [api EXCEPT ![c] = Call("resume", r, attempts[r], {})]
  /\ UNCHANGED <<row, drafts, jobs, lock, executor>>

\* Mutant: the attempt is not counted.
ResumeUncounted(c) ==
  /\ api[c].op = "resume"
  /\ LET r == api[c].run
     IN  /\ status' = [status EXCEPT ![r] = "running"]
         /\ token' = [token EXCEPT ![r] = @ + 1]
         /\ jobs' = [jobs EXCEPT ![r] = @ + 1]
  /\ api' = [api EXCEPT ![c] = NoCall]
  /\ UNCHANGED <<lastRun, attempts, ckpt, result, drafts, lock, executor>>

\* resume: with the coordinator lock, increment_attempt_count (from the row
\* as validated) and mark_running (WHERE run_id only), commit, schedule.
ResumeMark(c) ==
  /\ api[c].op = "resume"
  /\ CoordinatorFree
  /\ LET r == api[c].run
     IN  /\ status' = [status EXCEPT ![r] = "running"]
         /\ token' = [token EXCEPT ![r] = @ + 1]
         /\ attempts' = [attempts EXCEPT ![r] = api[c].attempts + 1]
         /\ jobs' = [jobs EXCEPT ![r] = @ + 1]
  /\ api' = [api EXCEPT ![c] = NoCall]
  /\ UNCHANGED <<lastRun, ckpt, result, drafts, lock, executor>>

\* pause_run: one guarded UPDATE; a second pause changes nothing.
Pause(c, r) ==
  /\ api[c].op = "idle"
  /\ status[r] = "running"
  /\ status' = [status EXCEPT ![r] = "paused"]
  /\ UNCHANGED <<lastRun, token, attempts, ckpt, result, drafts, jobs, lock,
                 executor, api>>

\* abandon_run, first half: read the status and discard the run's drafts,
\* which discard_versions_by_ids commits (shelved versions are not modelled).
AbandonDiscard(c, r) ==
  /\ api[c].op = "idle"
  /\ status[r] \in Abandonable
  /\ drafts' = [drafts EXCEPT ![r] = 0]
  /\ api' = [api EXCEPT ![c] = Call("abandon", r, 0, {})]
  /\ UNCHANGED <<row, jobs, lock, executor>>

\* abandon_run, second half: the guarded UPDATE; when it matches no row the
\* request answers 409 (or reports the run another request abandoned).
AbandonMark(c) ==
  /\ api[c].op = "abandon"
  /\ ~RowLocked(api[c].run)
  /\ LET r == api[c].run
     IN  status' = IF status[r] \in Abandonable
                   THEN [status EXCEPT ![r] = "abandoned"]
                   ELSE status
  /\ api' = [api EXCEPT ![c] = NoCall]
  /\ UNCHANGED <<lastRun, token, attempts, ckpt, result, drafts, jobs, lock,
                 executor>>

\* The request dies, or cannot get the coordinator lock and answers 409: its
\* open transaction is rolled back, what it committed before stays.
RequestDies(c) ==
  /\ api[c].op # "idle"
  /\ api' = [api EXCEPT ![c] = NoCall]
  /\ UNCHANGED <<row, drafts, jobs, lock, executor>>

-----------------------------------------------------------------------------
(* Background jobs.                                                        *)

\* Mutant: the lock is dropped whoever holds it.
ReleaseAnyLock(w) == lock' = Nobody

\* release_generation_lock and pg_advisory_unlock_all free what w holds.
ReleaseLock(w) == lock' = IF lock = w THEN Nobody ELSE lock

\* The job is never delivered: the process stopped before the deferred task
\* was enqueued, or while it waited inline.
LoseJob(r) ==
  /\ jobs[r] > 0
  /\ jobs' = [jobs EXCEPT ![r] = @ - 1]
  /\ UNCHANGED <<row, drafts, lock, executor, api>>

\* A worker loads the row, and drops the job of a run that is not RUNNING.
TakeJob(w, r) ==
  /\ pc[w] = "idle"
  /\ jobs[r] > 0
  /\ jobs' = [jobs EXCEPT ![r] = @ - 1]
  /\ IF status[r] = "running"
     THEN /\ pc' = [pc EXCEPT ![w] = "wait"]
          /\ job' = [job EXCEPT ![w] = Job(r, token[r], ckpt[r], result[r])]
     ELSE UNCHANGED executor
  /\ UNCHANGED <<row, drafts, lock, api>>

\* acquire_lock_for_run: pg_try_advisory_lock succeeds.  The status the loop
\* re-checks is the one loaded with the job.
AcquireLock(w) ==
  /\ pc[w] = "wait"
  /\ lock = Nobody
  /\ lock' = w
  /\ pc' = [pc EXCEPT ![w] = "settle"]
  /\ UNCHANGED <<row, drafts, jobs, job, api>>

\* acquire_lock_for_run: the attempts are used up; fail_run with the token
\* loaded with the job ('lock_unavailable').
LockTimeout(w) ==
  /\ pc[w] = "wait"
  /\ lock # Nobody
  /\ FailRow(job[w].run, job[w].token)
  /\ pc' = [pc EXCEPT ![w] = "exit"]
  /\ UNCHANGED <<lastRun, token, attempts, ckpt, result, drafts, jobs, lock,
                 job, api>>

\* Mutant: only the stored result is looked for, not the tagged version.
SettleOnResultOnly(w) ==
  /\ pc[w] = "settle"
  /\ pc' = [pc EXCEPT ![w] = IF job[w].result THEN "complete" ELSE "graph"]
  /\ UNCHANGED <<row, drafts, jobs, lock, job, api>>

\* _settle_run_if_output_already_persisted: a stored result only needs
\* completion, a tagged version is stored and completed, else the graph runs:
\* from the checkpoint loaded with the job, or (a first regenerate or improve
\* job) from the start.
Settle(w) ==
  /\ pc[w] = "settle"
  /\ \/ /\ job[w].result
        /\ pc' = [pc EXCEPT ![w] = "complete"]
        /\ UNCHANGED job
     \/ /\ ~job[w].result
        /\ drafts[job[w].run] > 0
        /\ pc' = [pc EXCEPT ![w] = "store"]
        /\ UNCHANGED job
     \/ /\ ~job[w].result
        /\ drafts[job[w].run] = 0
        /\ pc' = [pc EXCEPT ![w] = "graph"]
        /\ \E n \in {0, job[w].node} : job' = [job EXCEPT ![w] = Job(@.run, @.token, n, @.result)]
  /\ UNCHANGED <<row, drafts, jobs, lock, api>>

\* should_continue_execution: the live row is RUNNING under this job's token.
ShouldContinue(w) ==
  /\ status[job[w].run] = "running"
  /\ token[job[w].run] = job[w].token

\* One node of the graph has run; the live row decides whether the attempt
\* goes on or ends with GenerationRunAborted.
RunNode(w) ==
  /\ pc[w] = "graph"
  /\ job[w].node < NumNodes
  /\ pc' = [pc EXCEPT ![w] = IF ShouldContinue(w) THEN "checkpoint" ELSE "exit"]
  /\ UNCHANGED <<row, drafts, jobs, lock, job, api>>

\* checkpoint_after_node: UPDATE ... WHERE status = 'running'.  A node that
\* reported an error moves the progress bar only.
Checkpoint(w) ==
  /\ pc[w] = "checkpoint"
  /\ LET r == job[w].run
         n == job[w].node + 1
     IN  /\ \/ ckpt' = IF status[r] = "running" THEN [ckpt EXCEPT ![r] = n]
                                                ELSE ckpt
            \/ UNCHANGED ckpt
         /\ job' = [job EXCEPT ![w] = Job(@.run, @.token, n, @.result)]
  /\ pc' = [pc EXCEPT ![w] = "graph"]
  /\ UNCHANGED <<lastRun, status, token, attempts, result, drafts, jobs, lock,
                 api>>

\* A node raises: invoke_graph_with_progress fails the run under the token it
\* loaded, releases the lock and re-raises to the service.
NodeFails(w) ==
  /\ pc[w] = "graph"
  /\ job[w].node < NumNodes
  /\ FailRow(job[w].run, job[w].token)
  /\ ReleaseLock(w)
  /\ pc' = [pc EXCEPT ![w] = "refail"]
  /\ UNCHANGED <<lastRun, token, attempts, ckpt, result, drafts, jobs, job, api>>

\* Mutant: the finalization does not ask is_run_active.
FinalizeUnchecked(w) ==
  /\ pc[w] = "graph"
  /\ job[w].node = NumNodes
  /\ \E next \in {"persist", "store"} : pc' = [pc EXCEPT ![w] = next]
  /\ UNCHANGED <<row, drafts, jobs, lock, job, api>>

\* _finalize_generation_run: is_run_active looks at the live status only.  A
\* vague regeneration goal or feedback has a result but no version.
FinalizeCheck(w) ==
  /\ pc[w] = "graph"
  /\ job[w].node = NumNodes
  /\ \E next \in {"persist", "store"} :
       pc' = [pc EXCEPT ![w] =
                IF status[job[w].run] = "running" THEN next ELSE "exit"]
  /\ UNCHANGED <<row, drafts, jobs, lock, job, api>>

\* Mutant: the run is completed without its result.
PersistAndComplete(w) ==
  /\ pc[w] = "persist"
  /\ drafts' = [drafts EXCEPT ![job[w].run] = @ + 1]
  /\ pc' = [pc EXCEPT ![w] = "complete"]
  /\ UNCHANGED <<row, jobs, lock, job, api>>

\* _persist_new_version: create_version_with_deactivate commits the version.
PersistVersion(w) ==
  /\ pc[w] = "persist"
  /\ drafts' = [drafts EXCEPT ![job[w].run] = @ + 1]
  /\ pc' = [pc EXCEPT ![w] = "store"]
  /\ UNCHANGED <<row, jobs, lock, job, api>>

\* store_run_result: UPDATE by run_id, whatever the status; commits.
StoreResult(w) ==
  /\ pc[w] = "store"
  /\ ~RowLocked(job[w].run)
  /\ result' = [result EXCEPT ![job[w].run] = TRUE]
  /\ pc' = [pc EXCEPT ![w] = "complete"]
  /\ UNCHANGED <<lastRun, status, token, attempts, ckpt, drafts, jobs, lock,
                 job, api>>

\* complete_run: UPDATE ... WHERE status IN ('running', 'paused'), no token;
\* then the lock goes with the session's cleanup.
Complete(w) ==
  /\ pc[w] = "complete"
  /\ ~RowLocked(job[w].run)
  /\ LET r == job[w].run
     IN  status' = IF status[r] \in {"running", "paused"}
                   THEN [status EXCEPT ![r] = "completed"]
                   ELSE status
  /\ pc' = [pc EXCEPT ![w] = "exit"]
  /\ UNCHANGED <<lastRun, token, attempts, ckpt, result, drafts, jobs, lock,
                 job, api>>

\* A step of the finalization raises and is rolled back.
FinalizeFails(w) ==
  /\ pc[w] \in {"settle", "persist", "store", "complete"}
  /\ pc' = [pc EXCEPT ![w] = "refail"]
  /\ UNCHANGED <<row, drafts, jobs, lock, job, api>>

\* _fail_generation_run: fail_run under the token loaded with the job; after
\* the rollback of a poisoned session the row is read again, and with it the
\* token of whatever attempt is current.
FailAgain(w) ==
  /\ pc[w] = "refail"
  /\ \/ FailRow(job[w].run, job[w].token)
     \/ PoisonedSessions /\ FailRow(job[w].run, token[job[w].run])
  /\ ReleaseLock(w)
  /\ pc' = [pc EXCEPT ![w] = "exit"]
  /\ UNCHANGED <<lastRun, token, attempts, ckpt, result, drafts, jobs, job, api>>

\* Mutant: the job ends without pg_advisory_unlock_all.
ExitHoldingLock(w) ==
  /\ pc[w] = "exit"
  /\ pc' = [pc EXCEPT ![w] = "idle"]
  /\ job' = [job EXCEPT ![w] = NoJob]
  /\ UNCHANGED <<row, drafts, jobs, lock, api>>

\* run_generation_job's finally: pg_advisory_unlock_all.
Exit(w) ==
  /\ pc[w] = "exit"
  /\ ReleaseLock(w)
  /\ IF Durable
     THEN pc' = [pc EXCEPT ![w] = "reconcile"] /\ UNCHANGED job
     ELSE pc' = [pc EXCEPT ![w] = "idle"] /\ job' = [job EXCEPT ![w] = NoJob]
  /\ UNCHANGED <<row, drafts, jobs, api>>

\* _fail_run_if_left_running, on a fresh session, under the job's token.
Reconcile(w) ==
  /\ pc[w] = "reconcile"
  /\ FailRow(job[w].run, job[w].token)
  /\ pc' = [pc EXCEPT ![w] = "idle"]
  /\ job' = [job EXCEPT ![w] = NoJob]
  /\ UNCHANGED <<lastRun, token, attempts, ckpt, result, drafts, jobs, lock, api>>

\* The worker process dies; PostgreSQL drops the session and its locks.
Crash(w) ==
  /\ pc[w] # "idle"
  /\ ReleaseLock(w)
  /\ pc' = [pc EXCEPT ![w] = "idle"]
  /\ job' = [job EXCEPT ![w] = NoJob]
  /\ UNCHANGED <<row, drafts, jobs, api>>

\* Mutant: rows without a checkpoint are not found stale.
SweepCheckpointed(r) ==
  /\ status[r] = "running" /\ ckpt[r] > 0
  /\ status' = [status EXCEPT ![r] = "failed"]
  /\ UNCHANGED <<lastRun, token, attempts, ckpt, result, drafts, jobs, lock,
                 executor, api>>

\* recover_stale_runs: fail a RUNNING row whose updated_at is older than the
\* threshold.  A slow worker is as stale as a dead one.
Sweep(r) ==
  /\ status[r] = "running"
  /\ status' = [status EXCEPT ![r] = "failed"]
  /\ UNCHANGED <<lastRun, token, attempts, ckpt, result, drafts, jobs, lock,
                 executor, api>>

\* clear_all_drafts discards the run's draft; it asks about quizzes and live
\* material, never about runs.
ClearDrafts(r) ==
  /\ drafts[r] > 0
  /\ drafts' = [drafts EXCEPT ![r] = 0]
  /\ UNCHANGED <<row, jobs, lock, executor, api>>

-----------------------------------------------------------------------------
Request(c) ==
  \/ StartSupersede(c) \/ StartConflict(c) \/ StartCreate(c)
  \/ \E r \in Runs : ResumeValidate(c, r)
  \/ ResumeMark(c)
  \/ \E r \in Runs : Pause(c, r)
  \/ \E r \in Runs : AbandonDiscard(c, r)
  \/ AbandonMark(c) \/ RequestDies(c)

\* What a worker does on its own once it has a job.
Work(w) ==
  \/ AcquireLock(w) \/ LockTimeout(w) \/ Settle(w)
  \/ RunNode(w) \/ Checkpoint(w) \/ NodeFails(w)
  \/ FinalizeCheck(w) \/ PersistVersion(w) \/ StoreResult(w) \/ Complete(w)
  \/ FinalizeFails(w) \/ FailAgain(w) \/ Exit(w) \/ Reconcile(w)

Next ==
  \/ \E c \in Callers : Request(c)
  \/ \E w \in Workers : Work(w) \/ Crash(w) \/ \E r \in Runs : TakeJob(w, r)
  \/ \E r \in Runs : LoseJob(r) \/ Sweep(r) \/ ClearDrafts(r)

Spec == Init /\ [][Next]_vars

\* Sessions make progress unless their process dies, queued jobs are taken
\* unless they are lost, requests end, and the cron sweep finds the rows no
\* worker is updating any more.  Users owe nothing.
Fairness ==
  /\ \A w \in Workers : WF_vars(Work(w))
  /\ \A w \in Workers : WF_vars(\E r \in Runs : TakeJob(w, r))
  /\ \A c \in Callers : WF_vars(\/ StartConflict(c) \/ StartCreate(c)
                                 \/ ResumeMark(c) \/ AbandonMark(c)
                                 \/ RequestDies(c))
  /\ \A r \in Runs : WF_vars(/\ Sweep(r)
                              /\ \A w \in Workers : pc[w] # "idle" => job[w].run # r)

FairSpec == Spec /\ Fairness

-----------------------------------------------------------------------------
(* Properties.                                                             *)

\* Every variable stays in its domain.
TypeOK ==
  /\ lastRun \in 0..MaxRuns
  /\ status \in [Runs -> Statuses]
  /\ token \in [Runs -> Nat]
  /\ attempts \in [Runs -> Nat]
  /\ ckpt \in [Runs -> 0..NumNodes]
  /\ result \in [Runs -> BOOLEAN]
  /\ drafts \in [Runs -> Nat]
  /\ jobs \in [Runs -> Nat]
  /\ lock \in Workers \cup {Nobody}
  /\ pc \in [Workers -> Places]
  /\ job \in [Workers -> JobSet]
  /\ api \in [Callers -> CallSet]

\* Only the holder of the advisory lock executes a run of the resource, from
\* the settle check to completion: no two workers are ever in a graph or a
\* finalization together, whatever crashes, timeouts and sweeps happen
\* (acquire_lock_for_run, run_generation_job).
ExclusiveExecution == \A w \in Workers : pc[w] \in Executing => lock = w

\* A run never has two visible versions, although it may be executed many
\* times and die between persisting the version and recording it: the settle
\* check under the lock sees what an earlier attempt left behind.
OneDraftPerRun == \A r \in Runs : drafts[r] <= 1

\* A row says COMPLETED only when its result is stored, so GET .../result of a
\* completed run has something to return.
CompletedHasResult == \A r \in Runs : status[r] = "completed" => result[r]

\* No version is added to a run that is already COMPLETED, not even by an
\* attempt that was past its last check when another attempt settled the run.
CompletedIsSealed ==
  [][\A r \in Runs : status[r] = "completed" => drafts'[r] <= drafts[r]]_vars

\* With clean sessions a worker fails only the attempt whose token it loaded:
\* an old worker cannot fail the attempt that replaced it.
StaleWorkerCannotFail ==
  [][\A w \in Workers, r \in Runs :
       /\ pc'[w] # pc[w]
       /\ status[r] = "running" /\ status'[r] = "failed"
       => job[w].run = r /\ job[w].token = token[r]]_vars

\* The stored attempt counter respects the cap, whatever requests overlap.
AttemptsCapped == \A r \in Runs : attempts[r] <= MaxResumeAttempts

\* The lock is not leaked: whoever holds it lets it go.
LockReleased == \A w \in Workers : lock = w ~> lock # w

\* No row spins in RUNNING for ever: its worker settles it, or the sweep does.
RunningEnds == \A r \in Runs : status[r] = "running" ~> status[r] # "running"

\* How many resumes can still be marked when the stored count is k below the
\* cap: each request that has validated that count, and what each of them opens.
MostResumes[k \in 0..MaxResumeAttempts] ==
  IF k = 0 THEN 0 ELSE Cardinality(Callers) * (1 + MostResumes[k - 1])

\* Requests that validate the same count before one of them writes it (resume_run
\* reads attempt_count before the coordinator lock) exceed MAX_RESUME_ATTEMPTS,
\* but only by those in flight together each time that count is the stored one:
\* a run is not resumed any number of times.
ResumeBudget == \A r \in Runs : token[r] <= 1 + MostResumes[MaxResumeAttempts]

-----------------------------------------------------------------------------
(* The abstract specification this one implements: the lock is the owner,  *)
(* the versions tagged with the run are its output.                        *)

EO == INSTANCE ExclusiveOutput WITH owner <- lock, output <- drafts

\* A version is only ever persisted by the lock's holder and for a run that
\* has none, through every crash, retry, overlapping request and sweep.
ImplementsExclusiveOutput == EO!Spec

-----------------------------------------------------------------------------
(* What makes the invariants inductive.                                    *)

\* pg_try_advisory_xact_lock admits one starting request at a time.
CoordinatorExclusive ==
  \A c, d \in Callers : api[c].op = "start" /\ api[d].op = "start" => c = d

StartHasRoom == \A c \in Callers : api[c].op = "start" => lastRun < MaxRuns

\* A worker about to write a checkpoint has a node to write it for.
NodeInGraph ==
  \A w \in Workers : pc[w] = "checkpoint" => job[w].node < NumNodes

\* Between the settle check and the new version nobody else can have added
\* a version to the run, or completed it once the finalization has begun.
NothingPersistedYet ==
  \A w \in Workers :
    /\ pc[w] \in {"graph", "checkpoint", "persist"} => drafts[job[w].run] = 0
    /\ pc[w] = "persist" => status[job[w].run] # "completed"

\* Completion is reached only with the result stored.
ResultBeforeCompletion ==
  \A w \in Workers : pc[w] = "complete" \/ job[w].result => result[job[w].run]

ValidatedUnderCap ==
  \A c \in Callers : api[c].op = "resume" => api[c].attempts < MaxResumeAttempts

\* The inductive invariant.
IInv ==
  /\ TypeOK
  /\ CoordinatorExclusive /\ StartHasRoom /\ NodeInGraph
  /\ ExclusiveExecution /\ NothingPersistedYet /\ OneDraftPerRun
  /\ ResultBeforeCompletion /\ CompletedHasResult
  /\ ValidatedUnderCap /\ AttemptsCapped

=============================================================================
