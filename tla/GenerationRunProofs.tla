-------------------------- MODULE GenerationRunProofs --------------------------
(***************************************************************************)
(* Proofs about GenerationRun for any number of rows, workers, requests,   *)
(* graph nodes and resume attempts.                                        *)
(***************************************************************************)
EXTENDS GenerationRun, TLAPS

\* FailRow leaves every status in its domain and only turns "running" into
\* "failed" (the guarded UPDATEs of fail_run and mark_stale_failed).
LEMMA FailRowEffect ==
  ASSUME TypeOK, NEW r \in Runs, NEW t, FailRow(r, t)
  PROVE  /\ status' \in [Runs -> Statuses]
         /\ \A q \in Runs : status'[q] = status[q] \/ status'[q] = "failed"
BY DEF FailRow, TypeOK, Statuses

\* ReleaseLock frees the caller's lock or changes nothing.
LEMMA ReleaseLockEffect ==
  ASSUME TypeOK, NEW w \in Workers, ReleaseLock(w)
  PROVE  /\ lock' \in Workers \cup {Nobody}
         /\ lock = w => lock' = Nobody
         /\ lock # w => lock' = lock
BY DEF ReleaseLock, TypeOK

\* A constructed request or job belongs to its type.
LEMMA CallType ==
  /\ \A op \in {"idle", "start", "resume", "abandon"}, r \in Runs, n \in Nat,
        hit \in SUBSET Runs : Call(op, r, n, hit) \in CallSet
  /\ NoCall \in CallSet
BY GenerationRunAssumption DEF Call, CallSet, NoCall, Runs

LEMMA JobType ==
  /\ \A r \in Runs, t \in Nat, n \in 0..NumNodes, res \in BOOLEAN :
        Job(r, t, n, res) \in JobSet
  /\ NoJob \in JobSet
BY GenerationRunAssumption DEF Job, JobSet, NoJob, Runs

\* The columns of a job or a request have the types of their columns.
LEMMA FieldTypes ==
  /\ \A j \in JobSet : /\ j.run \in Runs /\ j.token \in Nat
                        /\ j.node \in 0..NumNodes /\ j.result \in BOOLEAN
  /\ \A a \in CallSet : /\ a.op \in {"idle", "start", "resume", "abandon"}
                         /\ a.run \in Runs /\ a.attempts \in Nat
                         /\ a.hit \in SUBSET Runs
BY DEF JobSet, CallSet

\* The variables start in their domains.
LEMMA InitType == Init => TypeOK
BY GenerationRunAssumption, CallType, JobType
   DEF Init, TypeOK, Runs, Statuses, Places, Executing

\* A request keeps every variable in its domain.
LEMMA RequestType ==
  ASSUME TypeOK, StartHasRoom, NEW c \in Callers, Request(c)
  PROVE  TypeOK'
<1> USE DEF row, executor
<1>0. api[c] \in CallSet /\ NoCall \in CallSet
  BY CallType DEF TypeOK
<1>1. CASE StartSupersede(c)
  <2>1. /\ 1 \in Runs
        /\ {r \in Runs : status[r] \in Resumable} \in SUBSET Runs
    BY GenerationRunAssumption DEF Runs
  <2> QED
    BY <1>1, <2>1, CallType DEF StartSupersede, TypeOK
<1>2. CASE StartConflict(c)
  BY <1>0, <1>2 DEF StartConflict, TypeOK
<1>3. CASE StartCreate(c)
  <2>1. lastRun + 1 \in Runs /\ lastRun + 1 \in 0..MaxRuns
    BY <1>3, GenerationRunAssumption DEF StartCreate, StartHasRoom, TypeOK, Runs
  <2> QED
    BY <1>0, <1>3, <2>1 DEF StartCreate, TypeOK, Statuses
<1>4. CASE \E r \in Runs : ResumeValidate(c, r)
  BY <1>4, CallType DEF ResumeValidate, TypeOK
<1>5. CASE ResumeMark(c)
  <2>1. api[c].run \in Runs /\ api[c].attempts \in Nat
    BY <1>0, FieldTypes
  <2> QED
    BY <1>0, <1>5, <2>1 DEF ResumeMark, TypeOK, Statuses
<1>6. CASE \E r \in Runs : Pause(c, r)
  BY <1>6 DEF Pause, TypeOK, Statuses
<1>7. CASE \E r \in Runs : AbandonDiscard(c, r)
  BY <1>7, CallType DEF AbandonDiscard, TypeOK
<1>8. CASE AbandonMark(c)
  BY <1>0, <1>8 DEF AbandonMark, TypeOK, Statuses
<1>9. CASE RequestDies(c)
  BY <1>0, <1>9 DEF RequestDies, TypeOK
<1> QED
  BY <1>1, <1>2, <1>3, <1>4, <1>5, <1>6, <1>7, <1>8, <1>9 DEF Request

\* So does a worker.
LEMMA WorkType ==
  ASSUME TypeOK, NodeInGraph, NEW w \in Workers, Work(w)
  PROVE  TypeOK'
<1> USE GenerationRunAssumption DEF row
<1>0. /\ job[w].run \in Runs /\ job[w].token \in Nat
      /\ job[w].node \in 0..NumNodes /\ job[w].result \in BOOLEAN
      /\ pc[w] \in Places
  BY FieldTypes DEF TypeOK
<1>1. CASE AcquireLock(w)
  BY <1>1 DEF AcquireLock, TypeOK, Places, Executing
<1>2. CASE LockTimeout(w)
  BY <1>0, <1>2, FailRowEffect DEF LockTimeout, TypeOK, Places
<1>3. CASE Settle(w)
  <2>1. pc' \in [Workers -> Places]
    BY <1>3 DEF Settle, TypeOK, Places, Executing
  <2>2. job' \in [Workers -> JobSet]
    BY <1>0, <1>3, JobType, GenerationRunAssumption DEF Settle, TypeOK
  <2> QED
    BY <1>3, <2>1, <2>2 DEF Settle, TypeOK
<1>4. CASE RunNode(w)
  BY <1>4 DEF RunNode, TypeOK, Places, Executing
<1>5. CASE Checkpoint(w)
  <2>1. job[w].node + 1 \in 0..NumNodes
    BY <1>0, <1>5 DEF Checkpoint, NodeInGraph
  <2>2. ckpt' \in [Runs -> 0..NumNodes]
    BY <1>0, <1>5, <2>1 DEF Checkpoint, TypeOK
  <2>3. job' \in [Workers -> JobSet]
    BY <1>0, <1>5, <2>1, JobType DEF Checkpoint, TypeOK
  <2> QED
    BY <1>5, <2>2, <2>3 DEF Checkpoint, TypeOK, Places, Executing
<1>6. CASE NodeFails(w)
  BY <1>0, <1>6, FailRowEffect, ReleaseLockEffect DEF NodeFails, TypeOK, Places
<1>7. CASE FinalizeCheck(w)
  BY <1>7 DEF FinalizeCheck, TypeOK, Places, Executing
<1>8. CASE PersistVersion(w)
  BY <1>0, <1>8 DEF PersistVersion, TypeOK, Places, Executing
<1>9. CASE StoreResult(w)
  BY <1>0, <1>9 DEF StoreResult, TypeOK, Places, Executing
<1>10. CASE Complete(w)
  BY <1>0, <1>10 DEF Complete, TypeOK, Places, Statuses
<1>11. CASE FinalizeFails(w)
  BY <1>11 DEF FinalizeFails, TypeOK, Places
<1>12. CASE FailAgain(w)
  BY <1>0, <1>12, FailRowEffect, ReleaseLockEffect DEF FailAgain, TypeOK, Places
<1>13. CASE Exit(w)
  <2>1. /\ pc' \in [Workers -> Places]
        /\ job' = job \/ job' = [job EXCEPT ![w] = NoJob]
    BY <1>13 DEF Exit, TypeOK, Places
  <2>2. job' \in [Workers -> JobSet]
    BY <2>1, JobType DEF TypeOK
  <2>3. lock' \in Workers \cup {Nobody}
    BY <1>13, ReleaseLockEffect DEF Exit
  <2>4. UNCHANGED <<row, drafts, jobs, api>>
    BY <1>13 DEF Exit
  <2> QED
    BY <2>1, <2>2, <2>3, <2>4 DEF TypeOK, row
<1>14. CASE Reconcile(w)
  BY <1>0, <1>14, FailRowEffect, JobType DEF Reconcile, TypeOK, Places
<1> QED
  BY <1>1, <1>2, <1>3, <1>4, <1>5, <1>6, <1>7, <1>8, <1>9, <1>10, <1>11,
     <1>12, <1>13, <1>14 DEF Work

\* And the steps that come from outside: delivery, loss, crash and sweep.
LEMMA EnvironmentType ==
  ASSUME TypeOK,
         \/ \E w \in Workers : Crash(w) \/ \E r \in Runs : TakeJob(w, r)
         \/ \E r \in Runs : LoseJob(r) \/ Sweep(r) \/ ClearDrafts(r)
  PROVE  TypeOK'
<1> USE GenerationRunAssumption DEF row, executor
<1>1. ASSUME NEW w \in Workers, Crash(w)
      PROVE  TypeOK'
  BY <1>1, ReleaseLockEffect, JobType DEF Crash, TypeOK, Places
<1>2. ASSUME NEW w \in Workers, NEW r \in Runs, TakeJob(w, r)
      PROVE  TypeOK'
  <2>1. jobs' \in [Runs -> Nat]
    BY <1>2 DEF TakeJob, TypeOK
  <2>2. CASE status[r] = "running"
    <3>1. Job(r, token[r], ckpt[r], result[r]) \in JobSet
      BY JobType DEF TypeOK
    <3> QED
      BY <1>2, <2>1, <2>2, <3>1 DEF TakeJob, TypeOK, Places
  <2>3. CASE status[r] # "running"
    BY <1>2, <2>1, <2>3 DEF TakeJob, TypeOK
  <2> QED
    BY <2>2, <2>3
<1>3. ASSUME NEW r \in Runs, LoseJob(r)
      PROVE  TypeOK'
  BY <1>3 DEF LoseJob, TypeOK
<1>4. ASSUME NEW r \in Runs, Sweep(r)
      PROVE  TypeOK'
  BY <1>4 DEF Sweep, TypeOK, Statuses
<1>5. ASSUME NEW r \in Runs, ClearDrafts(r)
      PROVE  TypeOK'
  BY <1>5 DEF ClearDrafts, TypeOK
<1> QED
  BY <1>1, <1>2, <1>3, <1>4, <1>5

-----------------------------------------------------------------------------
(* The other parts of the inductive invariant, one lemma for each.         *)

LEMMA CoordinatorStep ==
  ASSUME TypeOK, CoordinatorExclusive, StartHasRoom, ValidatedUnderCap, [Next]_vars
  PROVE  CoordinatorExclusive' /\ StartHasRoom' /\ ValidatedUnderCap'
<1> USE DEF CoordinatorExclusive, StartHasRoom, ValidatedUnderCap
<1>0. /\ \A c \in Callers : api[c] \in CallSet
      /\ NoCall.op = "idle"
      /\ \A op, r, n, hit : /\ Call(op, r, n, hit).op = op
                            /\ Call(op, r, n, hit).attempts = n
  BY DEF TypeOK, NoCall, Call
<1>1. ASSUME NEW c \in Callers, Request(c)
      PROVE  CoordinatorExclusive' /\ StartHasRoom' /\ ValidatedUnderCap'
  <2> USE <1>0 DEF row, TypeOK
  <2>1. CASE StartSupersede(c)
    BY <2>1 DEF StartSupersede, CoordinatorFree
  <2>2. CASE StartConflict(c)
    BY <2>2 DEF StartConflict
  <2>3. CASE StartCreate(c)
    BY <2>3 DEF StartCreate
  <2>4. CASE \E r \in Runs : ResumeValidate(c, r)
    BY <2>4 DEF ResumeValidate
  <2>5. CASE ResumeMark(c)
    BY <2>5 DEF ResumeMark
  <2>6. CASE \E r \in Runs : Pause(c, r)
    BY <2>6 DEF Pause
  <2>7. CASE \E r \in Runs : AbandonDiscard(c, r)
    BY <2>7 DEF AbandonDiscard
  <2>8. CASE AbandonMark(c)
    BY <2>8 DEF AbandonMark
  <2>9. CASE RequestDies(c)
    BY <2>9 DEF RequestDies
  <2> QED
    BY <1>1, <2>1, <2>2, <2>3, <2>4, <2>5, <2>6, <2>7, <2>8, <2>9 DEF Request
<1>2. CASE api' = api /\ lastRun' = lastRun
  BY <1>2
<1> QED
  BY <1>1, <1>2
     DEF Next, Work, vars, row, AcquireLock, LockTimeout, Settle, RunNode,
         Checkpoint, NodeFails, FinalizeCheck, PersistVersion, StoreResult,
         Complete, FinalizeFails, FailAgain, Exit, Reconcile, Crash, TakeJob,
         LoseJob, Sweep, ClearDrafts

\* What the workers' part of the invariant says, under one name.
WorkerInv ==
  /\ NodeInGraph /\ ExclusiveExecution /\ NothingPersistedYet /\ OneDraftPerRun
  /\ ResultBeforeCompletion /\ CompletedHasResult

\* A request cannot disturb it: no request persists a version, completes a
\* run, or touches a worker.
LEMMA RequestWorkerInv ==
  ASSUME TypeOK, StartHasRoom, WorkerInv, NEW c \in Callers, Request(c)
  PROVE  WorkerInv'
<1> USE DEF WorkerInv, NodeInGraph, ExclusiveExecution, NothingPersistedYet,
            OneDraftPerRun, ResultBeforeCompletion, CompletedHasResult, row,
            executor
<1>0. /\ \A w \in Workers : job[w].run \in Runs
      /\ api[c].run \in Runs
  BY FieldTypes DEF TypeOK
<1>1. CASE StartSupersede(c) \/ StartConflict(c) \/ RequestDies(c)
           \/ \E r \in Runs : ResumeValidate(c, r)
  BY <1>1 DEF StartSupersede, StartConflict, RequestDies, ResumeValidate
<1>2. CASE StartCreate(c)
  BY <1>0, <1>2 DEF StartCreate, TypeOK
<1>3. CASE ResumeMark(c)
  BY <1>0, <1>3 DEF ResumeMark, TypeOK
<1>4. ASSUME NEW r \in Runs, Pause(c, r)
      PROVE  WorkerInv'
  BY <1>0, <1>4 DEF Pause, TypeOK
<1>5. ASSUME NEW r \in Runs, AbandonDiscard(c, r)
      PROVE  WorkerInv'
  BY <1>0, <1>5 DEF AbandonDiscard, TypeOK
<1>6. CASE AbandonMark(c)
  BY <1>0, <1>6 DEF AbandonMark, TypeOK
<1> QED
  BY <1>1, <1>2, <1>3, <1>4, <1>5, <1>6 DEF Request

\* A worker's own steps keep it: the lock is what lets the settle check speak
\* for the rest of the execution.
LEMMA WorkWorkerInv ==
  ASSUME TypeOK, WorkerInv, NEW w \in Workers, Work(w)
  PROVE  WorkerInv'
<1> USE DEF WorkerInv, NodeInGraph, ExclusiveExecution, NothingPersistedYet,
            OneDraftPerRun, ResultBeforeCompletion, CompletedHasResult, row,
            Executing
<1>0. /\ \A v \in Workers : /\ job[v].run \in Runs /\ job[v].node \in 0..NumNodes
                             /\ pc[v] \in Places /\ job[v].result \in BOOLEAN
      /\ \A r \in Runs : drafts[r] \in Nat
  BY FieldTypes DEF TypeOK
<1>j. /\ ~NoJob.result
      /\ \A r, t, n, res : /\ Job(r, t, n, res).run = r
                           /\ Job(r, t, n, res).node = n
                           /\ Job(r, t, n, res).result = res
  BY DEF NoJob, Job
<1>n. Nobody \notin Workers
  BY GenerationRunAssumption
<1>1. CASE AcquireLock(w)
  BY <1>0, <1>1, <1>n DEF AcquireLock, TypeOK
<1>2. CASE LockTimeout(w)
  BY <1>0, <1>2, FailRowEffect DEF LockTimeout, TypeOK
<1>3. CASE Settle(w)
  BY <1>0, <1>3, <1>j DEF Settle, TypeOK
<1>4. CASE RunNode(w)
  BY <1>0, <1>4 DEF RunNode, TypeOK
<1>5. CASE Checkpoint(w)
  BY <1>0, <1>5, <1>j, SMTT(30) DEF Checkpoint, TypeOK
<1>6. CASE NodeFails(w)
  BY <1>0, <1>6, FailRowEffect, ReleaseLockEffect DEF NodeFails, TypeOK
<1>7. CASE FinalizeCheck(w)
  BY <1>0, <1>7 DEF FinalizeCheck, TypeOK
<1>8. CASE PersistVersion(w)
  BY <1>0, <1>8, <1>n DEF PersistVersion, TypeOK
<1>9. CASE StoreResult(w)
  BY <1>0, <1>9 DEF StoreResult, TypeOK
<1>10. CASE Complete(w)
  BY <1>0, <1>10 DEF Complete, TypeOK
<1>11. CASE FinalizeFails(w)
  BY <1>0, <1>11 DEF FinalizeFails, TypeOK
<1>12. CASE FailAgain(w)
  BY <1>0, <1>12, FailRowEffect, ReleaseLockEffect DEF FailAgain, TypeOK
<1>13. CASE Exit(w)
  BY <1>0, <1>13, <1>j, ReleaseLockEffect DEF Exit, TypeOK
<1>14. CASE Reconcile(w)
  BY <1>0, <1>14, <1>j, FailRowEffect DEF Reconcile, TypeOK
<1> QED
  BY <1>1, <1>2, <1>3, <1>4, <1>5, <1>6, <1>7, <1>8, <1>9, <1>10, <1>11,
     <1>12, <1>13, <1>14 DEF Work

\* So do deliveries, losses, crashes and sweeps.
LEMMA EnvironmentWorkerInv ==
  ASSUME TypeOK, WorkerInv,
         \/ \E w \in Workers : Crash(w) \/ \E r \in Runs : TakeJob(w, r)
         \/ \E r \in Runs : LoseJob(r) \/ Sweep(r) \/ ClearDrafts(r)
  PROVE  WorkerInv'
<1> USE DEF WorkerInv, NodeInGraph, ExclusiveExecution, NothingPersistedYet,
            OneDraftPerRun, ResultBeforeCompletion, CompletedHasResult, row,
            executor, Executing
<1>0. \A v \in Workers : job[v].run \in Runs
  BY FieldTypes DEF TypeOK
<1>j. /\ ~NoJob.result
      /\ \A r, t, n, res : /\ Job(r, t, n, res).run = r
                           /\ Job(r, t, n, res).result = res
  BY DEF NoJob, Job
<1>1. ASSUME NEW w \in Workers, Crash(w)
      PROVE  WorkerInv'
  BY <1>0, <1>1, <1>j, ReleaseLockEffect DEF Crash, TypeOK
<1>2. ASSUME NEW w \in Workers, NEW r \in Runs, TakeJob(w, r)
      PROVE  WorkerInv'
  BY <1>0, <1>2, <1>j DEF TakeJob, TypeOK
<1>3. ASSUME NEW r \in Runs, LoseJob(r)
      PROVE  WorkerInv'
  BY <1>3 DEF LoseJob
<1>4. ASSUME NEW r \in Runs, Sweep(r)
      PROVE  WorkerInv'
  BY <1>0, <1>4 DEF Sweep, TypeOK
<1>5. ASSUME NEW r \in Runs, ClearDrafts(r)
      PROVE  WorkerInv'
  BY <1>0, <1>5 DEF ClearDrafts, TypeOK
<1> QED
  BY <1>1, <1>2, <1>3, <1>4, <1>5

\* The attempt counter is written only from a validated request.
LEMMA AttemptsStep ==
  ASSUME TypeOK, ValidatedUnderCap, AttemptsCapped, [Next]_vars
  PROVE  AttemptsCapped'
<1> USE DEF AttemptsCapped
<1>1. ASSUME NEW c \in Callers, ResumeMark(c)
      PROVE  AttemptsCapped'
  <2>1. api[c].run \in Runs /\ api[c].attempts \in Nat
    BY FieldTypes DEF TypeOK
  <2>2. api[c].attempts + 1 <= MaxResumeAttempts
    BY <1>1, <2>1, GenerationRunAssumption DEF ResumeMark, ValidatedUnderCap
  <2> QED
    BY <1>1, <2>1, <2>2 DEF ResumeMark, TypeOK
<1>2. CASE attempts' = attempts
  BY <1>2
<1> QED
  BY <1>1, <1>2
     DEF Next, Request, Work, vars, row, StartSupersede, StartConflict,
         StartCreate, ResumeValidate, Pause, AbandonDiscard, AbandonMark,
         RequestDies, AcquireLock, LockTimeout, Settle, RunNode, Checkpoint,
         NodeFails, FinalizeCheck, PersistVersion, StoreResult, Complete,
         FinalizeFails, FailAgain, Exit, Reconcile, Crash, TakeJob, LoseJob,
         Sweep, ClearDrafts

-----------------------------------------------------------------------------
(* The inductive invariant.                                                *)

LEMMA InitIInv == Init => IInv
<1>1. Init => TypeOK
  BY InitType
<1>2. Init => /\ CoordinatorExclusive /\ StartHasRoom /\ ValidatedUnderCap
  BY DEF Init, CoordinatorExclusive, StartHasRoom, ValidatedUnderCap, NoCall,
         Call
<1>3. Init => WorkerInv
  BY DEF Init, WorkerInv, NodeInGraph, ExclusiveExecution, NothingPersistedYet,
         OneDraftPerRun, ResultBeforeCompletion, CompletedHasResult, Executing,
         NoJob, Job
<1>4. Init => AttemptsCapped
  BY GenerationRunAssumption DEF Init, AttemptsCapped
<1> QED
  BY <1>1, <1>2, <1>3, <1>4 DEF IInv, WorkerInv

LEMMA StepIInv == IInv /\ [Next]_vars => IInv'
<1> SUFFICES ASSUME IInv, [Next]_vars PROVE IInv'
  OBVIOUS
<1>0. WorkerInv
  BY DEF IInv, WorkerInv
<1>1. CoordinatorExclusive' /\ StartHasRoom' /\ ValidatedUnderCap'
  BY CoordinatorStep DEF IInv
<1>2. AttemptsCapped'
  BY AttemptsStep DEF IInv
<1>3. TypeOK' /\ WorkerInv'
  <2>1. ASSUME NEW c \in Callers, Request(c) PROVE TypeOK' /\ WorkerInv'
    BY <1>0, <2>1, RequestType, RequestWorkerInv DEF IInv
  <2>2. ASSUME NEW w \in Workers, Work(w) PROVE TypeOK' /\ WorkerInv'
    BY <1>0, <2>2, WorkType, WorkWorkerInv DEF IInv
  <2>3. CASE \/ \E w \in Workers : Crash(w) \/ \E r \in Runs : TakeJob(w, r)
             \/ \E r \in Runs : LoseJob(r) \/ Sweep(r) \/ ClearDrafts(r)
    BY <1>0, <2>3, EnvironmentType, EnvironmentWorkerInv DEF IInv
  <2>4. CASE UNCHANGED vars
    BY <1>0, <2>4
       DEF vars, row, executor, IInv, TypeOK, WorkerInv, NodeInGraph,
           ExclusiveExecution, NothingPersistedYet, OneDraftPerRun,
           ResultBeforeCompletion, CompletedHasResult
  <2> QED
    BY <2>1, <2>2, <2>3, <2>4 DEF Next
<1> QED
  BY <1>1, <1>2, <1>3 DEF IInv, WorkerInv

\* Every reachable state satisfies the inductive invariant.
THEOREM Invariance == Spec => []IInv
BY InitIInv, StepIInv, PTL DEF Spec

\* Every variable of the run lifecycle stays in its domain.
THEOREM TypeCorrect == Spec => []TypeOK
BY Invariance, PTL DEF IInv

\* Execution of a resource's runs is exclusive: between the settle check and
\* completion a worker holds the advisory lock.
THEOREM ExecutionIsExclusive == Spec => []ExclusiveExecution
BY Invariance, PTL DEF IInv

\* A run never has two visible versions.
THEOREM OneDraft == Spec => []OneDraftPerRun
BY Invariance, PTL DEF IInv

\* A completed run has its result stored.
THEOREM CompletedRunsHaveResults == Spec => []CompletedHasResult
BY Invariance, PTL DEF IInv

\* The stored attempt counter respects MAX_RESUME_ATTEMPTS.
THEOREM AttemptsStayCapped == Spec => []AttemptsCapped
BY Invariance, PTL DEF IInv

-----------------------------------------------------------------------------
(* What a step may never do.                                               *)

\* Only PersistVersion adds a version, and by NothingPersistedYet the run is
\* not completed then.
THEOREM CompletedRunsAreSealed == Spec => CompletedIsSealed
<1> DEFINE Sealed == \A r \in Runs : status[r] = "completed" => drafts'[r] <= drafts[r]
<1>1. IInv /\ [Next]_vars => [Sealed]_vars
  <2> SUFFICES ASSUME IInv, [Next]_vars, NEW r \in Runs, status[r] = "completed"
               PROVE  drafts'[r] <= drafts[r]
    OBVIOUS
  <2>0. drafts[r] \in Nat
    BY DEF IInv, TypeOK
  <2>1. ASSUME NEW w \in Workers, PersistVersion(w)
        PROVE  drafts'[r] <= drafts[r]
    BY <2>0, <2>1 DEF PersistVersion, IInv, NothingPersistedYet, TypeOK
  <2>2. ASSUME NEW c \in Callers, NEW q \in Runs, AbandonDiscard(c, q)
        PROVE  drafts'[r] <= drafts[r]
    BY <2>0, <2>2 DEF AbandonDiscard, IInv, TypeOK
  <2>3. ASSUME NEW q \in Runs, ClearDrafts(q)
        PROVE  drafts'[r] <= drafts[r]
    BY <2>0, <2>3 DEF ClearDrafts, IInv, TypeOK
  <2>4. CASE drafts' = drafts
    BY <2>0, <2>4
  <2> QED
    BY <2>1, <2>2, <2>3, <2>4
       DEF Next, Request, Work, vars, StartSupersede, StartConflict, StartCreate,
           ResumeValidate, ResumeMark, Pause, AbandonMark, RequestDies,
           AcquireLock, LockTimeout, Settle, RunNode, Checkpoint, NodeFails,
           FinalizeCheck, StoreResult, Complete, FinalizeFails, FailAgain, Exit,
           Reconcile, Crash, TakeJob, LoseJob, Sweep
<1> QED
  BY <1>1, Invariance, PTL DEF Spec, CompletedIsSealed

\* With clean sessions every fail a worker issues carries the token it loaded.
THEOREM StaleWorkersCannotFail ==
  ASSUME ~PoisonedSessions
  PROVE  Spec => StaleWorkerCannotFail
<1> DEFINE Own == \A w \in Workers, r \in Runs :
                    /\ pc'[w] # pc[w]
                    /\ status[r] = "running" /\ status'[r] = "failed"
                    => job[w].run = r /\ job[w].token = token[r]
<1>1. IInv /\ [Next]_vars => [Own]_vars
  <2> SUFFICES ASSUME IInv, [Next]_vars, NEW w \in Workers, NEW r \in Runs,
                      pc'[w] # pc[w], status[r] = "running", status'[r] = "failed"
               PROVE  job[w].run = r /\ job[w].token = token[r]
    OBVIOUS
  <2>1. ASSUME NEW v \in Workers,
               LockTimeout(v) \/ NodeFails(v) \/ FailAgain(v) \/ Reconcile(v)
        PROVE  job[w].run = r /\ job[w].token = token[r]
    <3>1. v = w
      BY <2>1 DEF LockTimeout, NodeFails, FailAgain, Reconcile, IInv, TypeOK
    <3>2. FailRow(job[w].run, job[w].token)
      BY <2>1, <3>1 DEF LockTimeout, NodeFails, FailAgain, Reconcile
    <3>3. status' # status
      OBVIOUS
    <3>4. job[w].run \in Runs
      BY FieldTypes DEF IInv, TypeOK
    <3> QED
      BY <3>2, <3>3, <3>4 DEF FailRow, IInv, TypeOK
  <2>2. ASSUME NEW v \in Workers, Complete(v)
        PROVE  FALSE
    BY <2>2, FieldTypes DEF Complete, IInv, TypeOK
  <2>3. ~(status' = status) /\ ~(pc' = pc)
    OBVIOUS
  <2> QED
    BY <2>1, <2>2, <2>3
       DEF Next, Request, Work, vars, row, executor, StartSupersede,
           StartConflict, StartCreate, ResumeValidate, ResumeMark, Pause,
           AbandonDiscard, AbandonMark, RequestDies, AcquireLock, Settle,
           RunNode, Checkpoint, FinalizeCheck, PersistVersion, StoreResult,
           FinalizeFails, Exit, Crash, TakeJob, LoseJob, Sweep, ClearDrafts
<1> QED
  BY <1>1, Invariance, PTL DEF Spec, StaleWorkerCannotFail

-----------------------------------------------------------------------------
(* Refinement.                                                             *)

\* Freeing the lock is the abstract Release, or nothing.
LEMMA ReleaseRefines ==
  ASSUME IInv, NEW w \in Workers, ReleaseLock(w), drafts' = drafts
  PROVE  [EO!Next]_(EO!vars)
BY GenerationRunAssumption DEF ReleaseLock, EO!Next, EO!Release, EO!vars, IInv, TypeOK

\* The run lifecycle implements ExclusiveOutput: every version is persisted by
\* the lock's holder, for a run that has none.
THEOREM ImplementsAbstraction == Spec => ImplementsExclusiveOutput
<1>1. Init => EO!Init
  BY DEF Init, EO!Init
<1>2. IInv /\ [Next]_vars => [EO!Next]_(EO!vars)
  <2> SUFFICES ASSUME IInv, [Next]_vars PROVE [EO!Next]_(EO!vars)
    OBVIOUS
  <2>1. ASSUME NEW w \in Workers, AcquireLock(w)
        PROVE  EO!Acquire(w)
    BY <2>1 DEF AcquireLock, EO!Acquire
  <2>2. ASSUME NEW w \in Workers, PersistVersion(w)
        PROVE  EO!Produce(w, job[w].run)
    <3>1. lock = w /\ drafts[job[w].run] = 0
      BY <2>2 DEF PersistVersion, IInv, ExclusiveExecution, NothingPersistedYet,
                  Executing
    <3>2. drafts' = [drafts EXCEPT ![job[w].run] = 1]
      BY <2>2, <3>1 DEF PersistVersion
    <3> QED
      BY <2>2, <3>1, <3>2 DEF PersistVersion, EO!Produce
  <2>3. ASSUME NEW c \in Callers, NEW r \in Runs, AbandonDiscard(c, r)
        PROVE  EO!Discard(r) \/ (drafts' = drafts /\ lock' = lock)
    <3>1. drafts[r] = 0 \/ drafts[r] = 1
      BY DEF IInv, OneDraftPerRun, TypeOK
    <3>2. drafts' = [drafts EXCEPT ![r] = 0] /\ lock' = lock
      BY <2>3 DEF AbandonDiscard
    <3>3. CASE drafts[r] = 0
      BY <3>2, <3>3 DEF IInv, TypeOK
    <3>4. CASE drafts[r] = 1
      BY <3>2, <3>4 DEF EO!Discard
    <3> QED
      BY <3>1, <3>3, <3>4
  <2>10. ASSUME NEW r \in Runs, ClearDrafts(r)
        PROVE  EO!Discard(r)
    <3>1. drafts[r] = 1
      BY <2>10 DEF ClearDrafts, IInv, OneDraftPerRun, TypeOK
    <3> QED
      BY <2>10, <3>1 DEF ClearDrafts, EO!Discard
  <2>4. ASSUME NEW w \in Workers,
               NodeFails(w) \/ FailAgain(w) \/ Exit(w) \/ Crash(w)
        PROVE  [EO!Next]_(EO!vars)
    BY <2>4, ReleaseRefines DEF NodeFails, FailAgain, Exit, Crash
  <2>5. CASE drafts' = drafts /\ lock' = lock
    BY <2>5 DEF EO!vars
  <2>6. \A w \in Workers : job[w].run \in Runs
    BY FieldTypes DEF IInv, TypeOK
  <2>7. (\E w \in Workers : AcquireLock(w) \/ PersistVersion(w)) => EO!Next
    BY <2>1, <2>2, <2>6 DEF EO!Next
  <2>8. (\E c \in Callers, r \in Runs : AbandonDiscard(c, r)) => [EO!Next]_(EO!vars)
    BY <2>3, <2>5 DEF EO!Next
  <2>9. (\E r \in Runs : ClearDrafts(r)) => EO!Next
    BY <2>10 DEF EO!Next
  <2> QED
    BY <2>4, <2>5, <2>7, <2>8, <2>9
       DEF Next, Request, Work, vars, StartSupersede, StartConflict, StartCreate,
           ResumeValidate, ResumeMark, Pause, AbandonMark, RequestDies,
           LockTimeout, Settle, RunNode, Checkpoint, FinalizeCheck, StoreResult,
           Complete, FinalizeFails, Reconcile, TakeJob, LoseJob, Sweep
<1> QED
  BY <1>1, <1>2, Invariance, PTL DEF Spec, ImplementsExclusiveOutput, EO!Spec

=============================================================================
