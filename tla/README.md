# Study Agent Service: formal model

TLA+ models of the Study Agent Service (FastAPI, LangGraph, PostgreSQL,
Procrastinate), the TLC runs that check them on small instances, and TLAPS
proofs of what holds on every instance. Paths below are relative to
`src/src/api/` of the repository.

## 1. The system

A mentor organises a space as a tree of nodes. For a node the service generates
study material, for its published material a quiz, for a quiz hints. Each
generation is a *run*: a row that outlives the HTTP request, executed by a
background job. Trainees read the published material, attempt the published
quiz, and unlock the next nodes.

| Component | State | Operations | Properties that make it correct |
|---|---|---|---|
| **Generation runs** `core/services/generation_run_service.py`, `data/repositories/generation_run_repository.py`, `utils/generation_progress/*` | `generationruns` rows (status, execution token, attempt count, checkpoint, result), PostgreSQL advisory locks, scheduled jobs | start, resume, pause, abandon; acquire, settle, run nodes, checkpoint, finalize, fail; stale sweep | exclusive execution per resource; output produced once; COMPLETED implies a stored result; stale attempts do no harm; every run ends |
| **Batch generate-all** `core/services/batch_orchestration_service.py`, `batch/*` | `generation_batches` and their steps, one procrastinate job chain | create, claim next step, attach run, finalize, reconcile, cancel, dispatch | one step at a time; a step's outcome is its run's outcome; a cancelled batch stays cancelled; a batch ends |
| **Study-material versions** `study_material_service.py`, `study_material_publish_ops.py`, `study_material_repository.py`, `utils/content_lifecycle/*` | per version: active, published, archived, discarded, version number | generate/regenerate/improve, manual edit, activate, publish, unpublish, archive, unarchive, discard drafts | at most one active and one published version; publication never loses its source; cascades are complete |
| **Quizzes and hints** `core/services/quiz_services/*`, `quiz_repositories/*` | quiz versions, questions, hints, pass threshold | generate, edit/reorder/delete questions, regenerate hints, publish, unpublish, change threshold | one published quiz per node; published questions immutable; a completed run has its quiz |
| **Trainee progress and unlocking** `utils/trainee_progress_utils/*`, `core/services/progress_services/*`, `progress_repositories/*` | per trainee and node: read percentage, best score, quiz passed, completed; durable unlock grants | read updates, attempt recording, resets after republication, unlock recomputation (a reparenting operation exists but is never called) | completion follows from the current publication; grants are earned and never taken back; readings, scores and passes survive overlapping requests |
| **Trainee quiz attempts** `trainee_quiz_service.py`, `trainee_quiz_repository.py`, `utils/content_lifecycle/attempt_freeze.py` | attempts, responses, hint levels | start, answer, hint, submit, abandon, freeze | one attempt in progress; correct answers stay locked; each attempt counted once |
| **LLM key pool** `utils/LLM_utils/groq_key_pool.py`, `groq_retry.py` | per key: available, limited until, blocked; rotation index | acquire, mark limited / blocked, refresh; rotate-and-retry loop | a blocked key is not used again; no caller spins |
| **Study, quiz, hint and research graphs** `control/*/graph/*`, QC helpers | graph state: outcome, retry counters, sections to repair, checkpoint | nodes and conditional edges; resume routers | bounded repairs; a resume never skips quality control |
| **Reference materials, LlamaParse cache** | files, rows, parsed markdown | upload, EC-17 replacement, parse, cache | the cache belongs to the current file |
| **Read models, routes, schemas, prompts, storage** | none of their own | - | - |

How they interact. A route calls a service within one database session; a
service schedules a job by dispatching the run id (inline as an asyncio task, or
durably through Procrastinate). A job opens its own session, takes the
resource's session-level advisory lock, and calls back into the service of the
run's pipeline. The batch worker starts runs the same way and executes them
itself. Publishing material archives its predecessor, resets the reading of
it and grants late children; publishing a quiz abandons the attempts at the one
it replaces and resets passes; quizzes survive their material's unpublication. All
coordination goes through rows, `WHERE` clauses, unique constraints and advisory
locks: there is no shared memory between processes, except the key pool, which
is shared by the coroutines of one process.

What is hard here: requests that overlap between a check and the write based on
it (sessions keep the rows they loaded: `expire_on_commit=False`); services that
commit several times in one operation, with crashes in between; jobs that are
lost, delivered late or superseded while they run; workers that are slow rather
than dead; content that changes under a trainee's attempt. `PROJECT.json` lists
each of these under `hazards`, at its line.

## 2. Modules

| Module | Models | Checked | Proved |
|---|---|---|---|
| `GenerationRun` | runs of one resource: requests, jobs, lock, sweep | `run_races`, `run_live` | safety, refinement |
| `ExclusiveOutput` | abstract: what lock and settle check promise together; implemented by `GenerationRun` | as a property of `run_races` | as a theorem |
| `BatchJob` | generate-all: one batch over the runs of its steps | `batch` | safety |
| `MaterialVersions` | the versions of one topic's material | `material` | safety |
| `QuizContent` | the quizzes of a topic, their questions and hints, and the runs that make them | `quiz`, `quiz_v_PublishedImmutable` | safety |
| `StudyGraph` | routing, verification and retries of the study-material graph | `graph`, `graph_v_NeverFakePass` | safety, termination measure |
| `TraineeProgress` | completion, resets, unlock grants, the mentor's publications | `prog_overlap`, `prog_rows`, `prog_v_PassingScoreRequired` | safety |
| `TraineeAttempts` | attempts and their responses against a changing quiz | `attempts` | safety |

`*Proofs` modules hold the theorems, `MC*` modules and `.cfg` files the
instances. The modules meet in a few places. `GenerationRun` takes the graph as
a number of checkpointed nodes; `StudyGraph` is what happens inside them, with
"stopped" for everything `GenerationRun` may do to an execution. `BatchJob`
takes a run as its status, moved by `Execute` and by hand. `MaterialVersions`
assumes one generation at a time, which is `GenerationRun`'s
`ExclusiveExecution`. `QuizContent` leaves to `TraineeProgress` and
`TraineeAttempts` what a publication does to trainees; of these two, the first
takes an attempt's score as any number, the second computes it.

Next in the plan: `KeyPool` (shared keys, concurrent callers, expiry), the quiz
and hint graphs as `StudyGraph` has its own, the parse cache.

## 3. `GenerationRun`

One (pipeline, resource) pair. Rows are numbered by creation; `status`, `token`
(execution_token, fresh tokens are successors), `attempts`, `ckpt` and `result`
are the columns, `drafts` counts the visible versions tagged with the run id,
`jobs` the scheduled jobs no worker has taken, `lock` the connection holding the
execution lock. `pc[w]` and `job[w]` are a worker's place and the snapshot it
loaded; `api[c]` a request between two of its transactions.

A step is one transaction, or one read whose answer is used after others could
commit. Which value a step sees follows the code: a worker's ORM row is the
snapshot taken with the job, `should_continue` and `is_run_active` and every
`WHERE` see the live row.

| Action | Code |
|---|---|
| `StartSupersede`, `StartConflict`, `StartCreate` | `_start_study_material_run`, `start_run`: coordinator lock, supersede, conflict check, insert, commit, schedule |
| `ResumeValidate`, `ResumeMark` | `begin_resume`/`resume_run`: validation before, marking after the coordinator lock |
| `Pause`, `AbandonDiscard`, `AbandonMark`, `RequestDies` | `pause_run`, `abandon_run` (discard commits before the row is marked), a request that fails |
| `LoseJob`, `TakeJob`, `AcquireLock`, `LockTimeout` | scheduling, `execute_scheduled_generation_run`, `acquire_lock_for_run` |
| `Settle`, `RunNode`, `Checkpoint`, `NodeFails` | `_settle_run_if_output_already_persisted`, `invoke_graph_with_progress` |
| `FinalizeCheck`, `PersistVersion`, `StoreResult`, `Complete`, `FinalizeFails`, `FailAgain` | `_finalize_generation_run` and its error path |
| `Exit`, `Reconcile`, `Crash` | `run_generation_job`'s cleanup, `_fail_run_if_left_running`, process death |
| `Sweep`, `ClearDrafts` | `recover_stale_runs`, `clear_all_drafts` |

The graph is abstracted to `NumNodes` checkpointed nodes, versions to a count
per run, the lock's 25 polls to "free" or "given up". Shelved and published
versions belong to `MaterialVersions`. `updated_at` is not kept: `Sweep` may
fail any RUNNING row, which is what a threshold shorter than a slow node does.

### Runs

| Run | Instance | Shows |
|---|---|---|
| `run_races` | 1 row until the creation of a second, 2 workers, 2 overlapping requests, 1 permitted resume, 2 nodes, clean sessions | exclusive execution, one output, results stored before completion, harmless stale workers, how far overlapping resumes exceed the budget, the refinement of `ExclusiveOutput` |
| `run_live` | 1 row, 2 workers, 1 request, 1 permitted resume, 2 nodes, inline dispatch, poisoned sessions | the lock is given back, no row stays RUNNING |

The bounds. One row lets two workers, two requests and repeated resumes meet on
it: every race of a run with itself. `run_races` lets a second row be refused or
created beside the first and stops there (`FirstRow`), as its run is one like the
first; what the two could do to each other is proved for any number. Two nodes
make a checkpoint that is not the last one; a longer graph repeats the same
checks. One permitted resume suffices: two overlapping resumes share it, so three
attempts can meet (two workers and the row's current one). Symmetry permutes
workers and requests, which the code does not tell apart; `run_live` uses none.
Deadlock is not checked: a system whose runs are all terminal, or whose rows and
resumes are used up, has nothing to do.

Fairness (`run_live` only): a worker that has a job goes on unless its process
dies, a queued job is taken unless it is lost, a request ends, and the cron
sweep (`batch/tasks.py`, every few minutes) fails rows no worker holds. Users,
crashes and losses are not fair.

What the code does not keep, met on the way. Two overlapping resumes write the
same attempt count, and the run is executed more often than `AttemptsCapped`
suggests. `ResumeBudget` says how often: with `n` requests in flight at a time
and `k` permitted resumes at most `1 + n + n^2 + ... + n^k` times, since every
value of the count admits those in flight together each time it is the stored
one. In `run_races` (two requests, one permitted resume) that is three, and three
executions do occur.
`mark_running` has no status guard, so a resume validated before an abandonment
brings the run back. Resume decides about conflicts before the coordinator
lock, so a start and a resume can both leave a RUNNING row; execution remains
exclusive. A worker past `is_run_active` persists its version after an
abandonment has discarded the others. The properties are what holds in spite
of these.

### Proofs (`GenerationRunProofs`)

For every number of rows, workers, requests, nodes and permitted resumes, from
`GenerationRunAssumption` alone: `IInv` is inductive, hence `TypeOK`,
`ExclusiveExecution`, `OneDraftPerRun`, `CompletedHasResult` and
`AttemptsCapped`; the action properties `CompletedIsSealed` and
`StaleWorkerCannotFail` (the latter when sessions are not poisoned); and the
refinement of `ExclusiveOutput`.

The argument. `OneDraftPerRun` is not inductive: a worker about to persist must
find no version. That is `NothingPersistedYet`, which holds because only the
lock's holder persists (`ExclusiveExecution`) and the settle check under the
lock saw none. `CompletedHasResult` needs `ResultBeforeCompletion` (completion
is reached only with the result stored), and `AttemptsCapped` needs
`ValidatedUnderCap` (a validated resume carries a count below the cap, however
stale).

`ResumeBudget` is model-checked only (a sum over the requests in flight, by
induction over the cap), and so are liveness and everything involving ENABLED: the
prover has no rules for fairness.

## 4. `TraineeProgress`

One trainee, the topic nodes of a space, the quizzes published on them and the
trainee's attempts. `row[n]` is the `traineenodeprogress` row (`read` is the
percentage in steps of which `Full` is 100, `done` study_material_completed,
`best`, `count` and `passed` the quiz columns, `status` the stored
completion_status, `"absent"` before the first insert), `grants` the
`traineenodeunlocks`, `material`, `live` and `bar` the published material, quiz
and pass threshold of a node. Two variables are history, which no action reads:
`finished`, the nodes whose material was once read in full, and `stale`, the facts
of a row (`ledger`: count and best score, `pass`, `status`) that were last written
by a request another one had overtaken.

Every handler works on the row its session loaded and its UPDATE writes only the
columns it changed (`Flush`), at READ COMMITTED and without a row lock, so a
handler is a reading step and a writing step, `req[c]` being what it has read.
The mentor's bulk UPDATEs are evaluated by the database (`BulkUpdate`).
Requests of trainee and mentor overlap as the number of `Callers` permits.
`Overtaken(c)` compares what `c` has loaded with what is stored when it writes, and
names the facts it gets wrong by that; `Settles` marks these as stale, and clears
the ones the write recomputes from what it knows to be current: every write of a
row recomputes its status, a quiz publication and a threshold change also the pass.
Nothing recomputes the ledger, so a count once lost stays lost.

| Action | Code |
|---|---|
| `ScrollRead`, `ScrollWrite` | `update_study_material_progress`: lock rule, regression check; upsert, grants of the children |
| `ViewRead`, `ViewWrite`, `Visit` | opening the material (`mark_study_material_viewed`); pages that commit only a lazy grant |
| `StartRead`, `StartCreate` | `start_attempt` up to and after its second look at the quiz |
| `SubmitCheck`, `SubmitRecord`, `SubmitWrite` | `submit_attempt`: status check; attempt flushed (its row lock is `AttemptLocked`) and progress loaded; progress written |
| `PublishMaterial`, `ResetRead`, `ResetFails`, `GrantAfterPublish` | `execute_publish_version_cascade` and its three commits |
| `UnpublishMaterial` | `execute_unpublish_version_cascade` |
| `PublishQuiz` | `publish_quiz`: swap, abandonment and EC-20 reset in one commit |
| `SetThreshold` | `update_pass_threshold` of a live quiz |
| `UnpublishQuiz`, `SyncUnpublished` | `unpublish_quiz` and the second commit that syncs status and grants |
| `RequestDies` | a request refused, rolled back or lost with its process |

Coarser than the code: a flush and the commit after it are one step, and the
writing step reads the tree and (for `GrantAfterPublish`, `SyncUnpublished`,
`SetThreshold`) the rows at the moment it commits; a submission's two reads of
its progress row are one; whether a publication supersedes is decided with it. A
score is any number (the responses behind it belong to `TraineeAttempts`), and
the link from a quiz to the version it was made for is left out:
`start_attempt` may refuse where the model goes on, which `RequestDies` allows
as well. One trainee suffices, since no statement reads another trainee's row;
bulk UPDATEs treat rows alike. The space rollup is a recomputed cache.

### Runs

| Run | Instance | Shows |
|---|---|---|
| `prog_overlap` | parent and child, 2 quizzes on the parent, 1 attempt, 2 overlapping requests | grants need a reading, grades a submitted attempt; a grant is written only below a node that is complete then, or by an overtaken request |
| `prog_rows` | one node, 1 quiz, 2 attempts, 2 overlapping requests, percentages, scores and thresholds up to 2 | the row agrees with the attempts, a pass meets the bar, the stored status never overclaims, readings are kept: each unless an overtaken request wrote it |
| `prog_v_PassingScoreRequired` | a pair as above, 2 attempts, 1 request at a time | the finding |

In the passing runs a mentor's request may fail between any two commits, and
requests may die anywhere. What overlapping requests really lose is not assumed
away: two scroll updates may both pass the regression check and the smaller be
written last, of two submissions a count or the better score can be lost, a
snapshot of the row can be written over a reset. The properties say exactly that:
each admits a wrong fact only where `stale` names it, or where the writing request
is overtaken at that very step, so that any other way to get it wrong is refuted.

The bounds. An unlock involves a node and its direct parent, hence a pair; what a row
says concerns one node. A swap needs two quizzes, and two attempts let one
submission overtake another. `prog_overlap` lets requests overlap as
long as the child has not been opened and has no material without its parent
(`OverlapAtParent`): the child is there for the gate; its states are compared without
`stale` (`OverlapView`), which none of its properties reads. `prog_rows` lets
those requests overlap that have still to write the row (`OverlapAtRow`), and goes on
until a second fact is stale: such a state is checked and not left. Two levels
of reading, score and threshold tell "some" from "enough". Two requests are needed
and enough for one to write what another has outdated. The runs permute quizzes,
attempts or requests, which the code does not tell apart. There is no fairness:
nothing here must happen eventually.

### Finding

`PassingScoreRequired`: a publication resets `quiz_passed` and keeps
`quiz_best_score`, so a failing attempt at the new quiz passes it on the old
quiz's score.

Two more that no document denies: a child that is usable because its parent has
no material gets no durable grant, and is locked again when the parent's material
comes back and is reset; a submission overwrites an abandonment that came after
its status check.

### Proofs (`TraineeProgressProofs`)

For any tree, quizzes, attempts, number of overlapping requests, and failures,
from `TreeAssumption`, `QuizAssumption` and `GradeAssumption`: `IInv` is
inductive, hence `TypeOK`, `GrantNeedsReading` and `GradeNeedsAttempt`.

The argument. Neither property is inductive: a stale request may write back a
completion, a pass or a lazy grant that it read long ago. `IInv` therefore says
of each snapshot in flight what it says of the stored rows: a row that claims a
completed reading belongs to a node in `finished`, one that carries a grade to a
node with a submitted attempt (`Known`), and a pending lazy grant lies below a
finished node (`RequestKnown`). Both are stable, whatever the others commit, as
`finished` and the submitted attempts only grow (`AttemptsKept`); so a flush,
which takes each column from the stored row or from the new one, keeps them
(`WriteKeepsKnown`). That a submitted attempt stays submitted rests on
the abandonment of attempts in progress only. The lost updates named above
are therefore bounded: they lose readings and scores, and never invent any.

`RowIInv` is the second invariant, again for any number of overlapping requests. It
gives `LedgerAgrees`, `PassedMeetsBar` and `CachedNeverOverclaims`, and the action
properties `ReadNeverRegresses` and `GrantedOnlyByCompletion`.

The argument. The three claims about a row are taken together, one row at a time
(`RowTrue`, `RowByRow`), since a status is derived from the pass and the pass from
the best score. A write to one node leaves the others as they are (`RowsStay`,
`StaleElsewhere`), and of its own row the facts that are not stale afterwards are
those in which its request was not overtaken (`UpToDate`). For these the flush
writes just what was computed (`FlushedRow`): columns that the request did not
change keep what others stored there, and in the ones it did change it knew the
stored value. Hence `Ledger` moves only in `SubmitWrite`, which adds one attempt
and one count in the same commit (`LedgerGrows`); that a cardinality can be
counted needs the submitted attempts of a node to be finitely many. A bulk UPDATE
passes by a row that does not exist, which therefore must have no pass. `Loaded`
says of a request in flight that a row it found is still there, and that a scroll
does not go back behind what it loaded: with it, a percentage can only fall by an
overtaken scroll or the reset. That grants follow completion needs that a commit
which adds a grant takes no completion away (`CompleteStays`), and that a lazy
grant still pending is due or overtaken (`PendingGrant`).

## 5. `BatchJob`

One generate-all batch. `batch` is the row with its counters, `step` and
`attached` the status and `generation_run_id` of each step, `run` and `topic` the
generation runs of these topics, `completed_at` which of them have completed at
some time, `resume` the requests to resume one of them, `job` the one
Procrastinate job with what its session holds, `cancel` the mentor's request,
`left` how the last job ended without a successor.

| Action | Code |
|---|---|
| `Load`, `Claim*` | `process_batch`, `claim_next_step`: skipped and failing topics passed over; the step and its run start in one commit; a conflict supersedes paused and failed runs and then resets the step |
| `Attach`, `Execute`, `FinalizeRead`, `FinalizeWrite`, `Chain` | `attach_generation_run`, `run_generation_job`, `_finalize_from_run`, `_maybe_chain_next_step` |
| `Reconcile*` | `_reconcile_running_step`, what a job does about a step that an earlier one left running |
| `JobRaises`, `JobLost` | the retry (3 when durable, none inline), a worker that dies |
| `CancelRead`, `CancelReadSteps`, `CancelDiscard`, `CancelWrite`, `CancelDies` | `cancel_batch`: the batch is loaded, then its steps; with the commit inside `abandon_run` |
| `StartByHand`, `PauseRun`, `AbandonRun`, `CompleteRun`, `FailRun` | the runs' own life, `GenerationRun` at this level; `complete_run` matches a paused run too |
| `ResumeValidate`, `ResumeMark` | `resume_run`: validated before the coordinator lock, marked running after it, whatever the status is by then |

Nothing in `create_batch` or its route excludes a second batch of the same topics.
The model has one; what the requests, jobs and cancellation of another do to this
one they do through the runs, with the actions of the last two lines.

Sessions keep what they loaded and write the columns that changed (`Merge`), so
a finalization or a cancellation is a reading and a writing step. Batches have
one job at a time because each dispatches its successor last. Coarser: the
commits of clearing a topic's drafts before a claim are one with the claim.

`batch` has two steps, two runs, one retry and one resume. The second step makes
chaining and passing over possible; two runs are one for each step, or one topic
generated again by hand or after a reset; one retry is enough to be used and to be
used up. One resume is enough to mark a run that has completed since its
validation, as a paused run may be completed by the worker that was in its last
steps (two resumes were run once: 40 million states, the same results).
`CancelIsFinal` states its exception, a session that loaded the batch before the
cancellation, and `CountersAgree` ends with the cancellation's last commit.
`CompletedStepHasOutput` speaks of `completed_at`: the status of a completed
step's run may be anything once a late resume has marked it. `BatchEnds` assumes
that a worker steps its job, and lists the reasons why a batch stays open: its
worker died, the retries were used up, the run was paused. It covers boundedly
many runs; a mentor who for ever starts runs by hand can keep a batch in conflict.

### Proofs (`BatchJobProofs`)

For any number of steps, runs, retries and resumes, from `BatchAssumption`:
`IInv` is inductive, hence `TypeOK`, `OneRunningStep`, `CountersAgree`,
`CompletedStepHasOutput` and the action property `CancelIsFinal`.

The argument. `CountersAgree` is stated until a cancellation has ended, but its
proof needs more, so `CountersHold` says it of every `Open` batch: one whose
cancellation has not ended, or that has unsettled steps still. What the job's
session loaded agrees with the batch as long as it is open (`JobKnown`), because
only the job itself writes the counters until then; what the cancellation loaded
were counters no newer than the steps, so that they count no more than those
(`CountsNoMore`, `SettledCounts`), and settled steps stay settled (`CancelKnown`).
After the last commit a job may write outdated counters, and `TypeOK` still bounds
them: the step the job finalizes was running when it loaded them, and a running
step is in neither count, so each has room for one more (`Room`,
`RunningHasRoom`). `CompletedStepHasOutput` follows from the attached run being
the one the job executed, and from `completed_at` never being reset
(`Completions`, `RunsGoOn`). The claims of steps that are passed over are counted
as one write: `First` is a pending step in front of which every pending step is
passed over (`FirstIsIn`, `PassedSizes`).

`BatchEnds` needs fairness and is model-checked only. The theorems are about
`Spec`; the run's `FairSpec` adds fairness to it.

## 6. `MaterialVersions`

The version rows of a topic: `life` (lifecycle_status), `published`, `active`,
`shelved` (is_archived), `num`, `base`, and whether the version's run can still be
abandoned. No row is locked and services commit several times, so a request is
the sequence of its commits (`call[c].pc` is the next one), each written over what
was read before; it may die in between.

| Action | Code |
|---|---|
| `StartEdit` .. `Create` | manual edit (deactivation committed first); a generation's `_persist_new_version` |
| `StartPublish`, `Publish`, `StartUnpublish`, `Unpublish` | the publish and unpublish cascades |
| `StartReconcile`, `Reconcile` | `reconcile_published_versions`, when versions are listed |
| `StartActivate`, `StartUnarchive`, `Unshelve`, `Lookup`, `DropOther`, `RaiseTarget` | activate, unarchive |
| `StartArchive`, `Shelve`, `StartClear`, `Clear`, `DeleteTopic` | the shelf, clear-all-drafts, cascade of a node's deletion |
| `StartAbandon`, `AbandonDiscards`, `Restore`, `CloseRun` | `abandon_run`'s discard and the draft it restores |

`doubled` is a history variable: how a second version of a kind can have come
about. The code does let publications and activations overlap into two (and
restores a draft beside the working version after an abandonment, although
`study_material_repository.py:59` reads as if one were active); `OnePublished` and
`OneWorking` say that nothing else does, and that the topic settles again.
Two things a reader might not expect: a "hidden" material gets lifecycle `draft`,
and publishing asks neither for the shelf nor for the trash. Quizzes made
from discarded material are `QuizContent`'s `DiscardDrafts`; that live quizzes
block a clearing is not asking for it.

`material` has three versions and two requests: two for one to outdate the other,
a third to come between two working ones (`LastVersionEndsIt`: the request that
creates it is the last). Requests overlap as long as the topic is in order
(`OverlapInOrder`); after an anomaly the run follows one request at a time. No
fairness: nothing must happen by itself.

### Proofs (`MaterialVersionsProofs`)

For any number of versions and of overlapping requests, from
`MaterialAssumption`: `IInv` is inductive, hence `TypeOK`, `OnePublished`,
`OneWorking`, `PublishedIsActive`, `GeneratedInOrder` and the action property
`LiveNeverCleared`.

The argument. That one edition is published follows from what a publication has
seen: while nothing overlapped, the rows it will retire and its target are all
that is published (`SeenPublished`), so the commit leaves the target only. The
same for the working version: from its lookup to its last commit a request knows
the only row that can be active (`SeenWorking`). Both hold only until somebody
else writes, which is when `doubled` gets "overlap"; and `doubled` is forgotten
only at a request's last commit, because a request that is to go on may have
seen less than what is there now. Numbers need the order of the rows (`InOrder`:
no version is numbered higher than its place), so a number once read is still
free at every unused place, and above all generated versions as long as
generations exclude each other (`Known`, `OneGeneration`).

Each action is a step of one of four kinds, proved once: it reads (`ReadStep`),
raises no flag (`LoweringStep`, `LastLowering`), rewrites rows (`LastCommit`), or
is any commit (`CommitStep`, for `Create`, whose row is new (`NewRow`), and for
`Restore`). What the transitions of `transitions.py` do to a row is stated as
lemmas about one row (`RetiredFields`, `DiscardedFields`, ...).

## 7. `QuizContent`

The quizzes of one topic. `question[q][s]` is what is in a slot of a quiz, by the
state of its hints: none, fitting, written before the mentor changed the text, or
`"stale"`, written for a text that a run has replaced. `run` are the runs that are
not over, `seen` what has become of each text since the run read it. A mentor's
request holds the quiz's row lock from its check to its commit, hence one step; a
publication locks all quizzes of the topic and is two, so that runs' commits wait
for it or slip in before it. A run reads, works, and commits its content together
with its checkpoint; `Interrupt` is a pause, a failure or a death, and the routers
send a resumed run back to the node that stores.

| Action | Code |
|---|---|
| `StartMake`, `StartRework`, `StartHints` | `start_generate_quiz`, `start_regenerate_questions`, `start_generate_hints`, `start_regenerate_hints` |
| `Load`, `Generate`, `Create`, `Replace`, `Patch`, `WriteHints`, `Complete` | the storing nodes of the three graphs and the repositories behind them |
| `Interrupt`, `Resume`, `Abandon` | the runs' own life |
| `StartPublish`, `Publish`, `PublishDies`, `Unpublish`, `DeleteQuiz`, `DiscardDrafts` | quiz services and lifecycle transitions |
| `CreateQuestion`, `EditText`, `EditHints`, `ClearHints`, `DeleteQuestion` | the mentor's edits |

Coarser: an executor that outlives its run writes nothing (that is
`GenerationRun`'s settle check); "the latest draft" is any draft; question and
quiz locks of a hint write are taken at once, so the deadlock with an edit that
takes them in the other order, which PostgreSQL breaks by failing one of them, is
one of `Interrupt`'s reasons. RESTRICT foreign keys, by which a replacement fails
once trainees have answered, are another. Not modelled: `total_questions`, order,
and the preconditions about source material and space.

`quiz` has one question per quiz and two publications, and either two quizzes with
one run or one quiz with two (`TwoQuizzesOrTwoRuns`). A swap takes two quizzes; three
kinds of run meet in pairs, and only on one quiz; run records are reused. One
question suffices, since no statement relates two questions of a quiz but
publication's search for missing hints. `NoStaleHints` names the way it goes
wrong: hints started or resumed beside a rework.

### Finding

`PublishedImmutable`: a run that was started while the quiz was a draft replaces
its questions after publication; and a rework that notices the publication fails,
but the commit that records the failure writes the patches its session holds.

### Proofs (`QuizContentProofs`)

For any sets of quizzes, slots, runs and publications (`QuizAssumption`: no quiz is
`NoQuiz`): `IInv` is inductive, hence `TypeOK`, `OnePublished`, `PublishedComplete`,
`OneQuizPerRun` and the action property `NoStaleHints`.

The argument. `PublicationsExclude` says what the row locks are for: a publication
holds its quiz, which exists, so a second one, which needs every row, has to wait;
what is published can therefore only shrink between its reading and its commit, and
the questions of its quiz stay as they were checked. `PublishedComplete` is
inductive next to it: a step that changes the questions of a published quiz counts
as a rewrite (`QuizStep`). `StoredOnce` adds that a run that has stored is past the
node that makes the questions. `MixedIsKnown` is the heart of `NoStaleHints`: beside
an unmarked hint run no rework of its quiz is running and none of its texts has been
replaced; `ClaimStep`, `RereadRuns` and `StepResume` show it for the three ways in
which a rework and hints may meet. `Keeps` and `RunOk` say of one run what all other
steps leave it.

## 8. `StudyGraph`

The graph that makes one material. A document is the set of its sections; of a
section the model keeps the flaws that are computed (`flaws`: misplaced blocks, other
failures of the deterministic checks) and the faults the judge finds (`SectionFault`,
by category of check and whether it is critical); what is said of the whole document is
`DocumentFault`. `qc` is what the quality check leaves in the state: failed checks,
section hashes (`baseline`, `same`), frozen ids, retry mode, sections to verify again.
`judged`, `seen` and `lost` are history: the sections whose present text the judge was
shown, what it last found there, and how the record may have come to differ from that.

`Prepare` is one action per preparing node; `RetrySections`, `WriteDocument` and
`WriteNothing` are the generator by retry mode and answer; `QualityCheck` is the
remediation of misplaced blocks, the choice of full, targeted or no verification,
the merge of the verdicts and the routing; `CheckUnavailable` the failed call;
`Stop` and `Resume` the runner and `resume_router.py`. A node and its checkpoint
are one step: what stops in between leaves no trace.

Three modes of verification. `VerifyAll` asks about the whole document, except for
what is frozen (`Unasked`): checklist items and code sections that have passed, as
long as their hash is unchanged. The frozen ids are pruned only by a targeted check, so
after a full one they outlive a rewriting of their section, while the hashes are
taken anew. `VerifyRevised` asks about what a section retry returned, or about the
changed sections, drops the earlier checks of every section in scope, and keeps of
several checks of one kind on one section the last (`_dedup_checks`), by which a
failure can vanish, a fresh one too. `CarryForward` asks nothing. Which mode it is
follows `Certified` (no failed check of substance: coverage, accuracy, teaching
alignment) and the flaws found without the judge.

Abstracted: prompts, how a check is mapped to sections, the thresholds above which
failures are widespread (a full regeneration is always possible), what a
recommendation names beyond the failed checks (a checklist item it calls missing
counts as a failed check of it). A judge that withdraws a failure ("no action
needed") or reports one of the document twice is one that answers otherwise: any
answer is possible. Left out: what the judge says of sections it was not shown, the
checkpoints inside external research, and the guards for states no route leads to.

`graph` has two sections (one revised, one not), the code's 3 attempts at the
check, 2 at a well-formed document, and one resumption; a second one repeats the
first from a state `Resume` can already reach. The judge finds at most one fault at a
time (`Judgements`), of kinds that differ in what the code makes of them: one
blocks, is of substance and can be frozen, one only blocks, one is only of
substance, and three are about the whole document. One fault that vanishes is
enough to pass a document wrongly. Flaws, faults and losses are explored up to two
at a time (`FewWrongs`), so that one can be lost while another keeps the graph
going; states with a third are checked and not left. Beyond the first check one way
of preparing is explored (`OneModeChecked`), since no later node reads it. The
proofs have none of these bounds.

`PassIsEarned` is about single sections: in a document that passes, one whose record
was not lost was shown to the judge in its present text and found without a blocking
fault. The five losses are the code's, each is reachable, and each lets a
section pass that should not: a check that could not be made (`infra`), a revision that
leaves out a section it was asked for (`omitted`), misplaced blocks that narrow what is
looked at (`narrowed`), the merge (`deduped`), what is not asked again (`frozen`).
The document's refusal passes by intention and is exempt. `NearerToEnd` is the
termination argument: a bounded measure that each node lowers; no fairness is
needed for it. A resumed run may check once more after its attempts are used up,
which `TypeOK` bounds.

### Finding

`NeverFakePass`: the result of a check that could not be made has no failed check
in it; the next visit takes it for certified, sees no changed section, and passes a
document nobody judged.

### Proofs (`StudyGraphProofs`)

For any set of sections, any limits on the attempts and any number of resumptions
(`GraphAssumption`): `IInv` is inductive, hence `TypeOK`, `PreparedFirst`,
`PassIsEarned` and the action property `NearerToEnd`.

The argument. `PassIsEarned` speaks of the visit that passes; what that visit did
not look at was recorded by earlier ones. `ChecksAreTrue` says of the state between
visits: where nothing is lost, the checks of a section whose text has not
changed are what the judge last found there, and during a section retry whatever is
neither unchanged nor among the returned sections does not exist. `RecordsKept` adds
that while an infrastructure failure stands for the result, every section is
marked, so that an empty result is never taken for a clean one unmarked. Each mode
of verification then has to show the same of its own record: a section not marked
was shown to the judge in its present text, and what is concluded of it is what the
judge found. `RetryPending` carries the pending sections over a failed call and a
resumption, `PassEndsIt` says that only a further check follows a pass. For
`PreparedFirst`, `PreparedInOrder` adds what a resumption would run next; for
`NearerToEnd`, `AttemptsLeft` says that a node that may run has an attempt left.

## 9. `TraineeAttempts`

One trainee's attempts at one quiz. `attempt` has the status and the sums a
submission computes, `response` the rows per attempt and question, `req` what each
overlapping request has read. `given` and `raced` are history: the kinds of answer
given to a question, and the attempts at which a request wrote what another had
outdated.

| Action | Code |
|---|---|
| `StartRead`, `StartCreate` | `start_attempt`; only the creation holds the quiz's lock |
| `AnswerRead`, `AnswerWrite` | `submit_response`, `upsert_response` |
| `NavigateRead`, `NavigateWrite` | `patch_attempt_state`, the one request that locks the attempt (`Held`) |
| `SubmitRead`, `SubmitWrite` | `submit_attempt`, `_finalize_skipped_responses`, the score |
| `RequestDies` | refused, rolled back or lost |
| `Publish`, `Unpublish`, `Supersede`, `DeleteTopic`, `CreateQuestion`, `DeleteQuestion` | the mentor; publication of another quiz and the topic's deletion abandon attempts, unpublication does not |

A session keeps the rows it loaded and its UPDATE writes the columns that differ
from them (`Flush`), so overlapping answers may write half a row each. An answer
is right or wrong by the key of the moment it was read, which the mentor may have
changed while the quiz was down: options are left out. So are the navigation marks,
the resume position, and the check of the material at the start.

`attempts` has two attempts, one question, two requests and one level of hints.
Two attempts are needed for `OneInProgress`; two requests for one to outdate the
other; questions are independent but for the sums, and `NothingInvented` is also
proved for any number of them. `LockedStays` and `ScoreWithinOne` state their
exceptions: a second answer that passed the lock check before the first locked the
question makes a right answer wrong (`quiz_schema.py:584` says locked questions
cannot be changed); a question deleted after it was answered counts in the score
and not in the total, so the score exceeds the 1.0 of `quiz_schema.py:612`. No
fairness: nothing must happen.

### Proofs (`TraineeAttemptsProofs`)

For any attempts, any finite set of questions, any number of hint levels and of
overlapping requests (`HintAssumption`, `QuestionsFinite`): `IInv` is inductive,
hence `TypeOK`, `OneInProgress`, `NothingInvented`, `ScoreWithinOne` and the action
property `LockedStays`.

The argument. `OneInProgress` is inductive by itself: only `StartCreate` begins an
attempt, and it looks. The others speak of rows that requests hold, so `IInv` says
of each request what it may write (`RequestKnown`): an answer's row is `Backed` by
the answers given so far and itself, although it was graded long ago; a
submission's rows are backed, and those not among its active questions belong to
deleted ones. Both stay true because questions, answers and rows are never taken
back (`Forward`). A flush takes each column from one of two backed rows, so it is
backed, too (`FlushBacked`). `LockedStays` needs `LockedIsAnswered`: a response
that was locked without a race is answered and not marked as skipped, so neither
navigation nor the finalization has a reason to touch it. The sums are cardinalities
of subsets of finite sets, which is where `QuestionsFinite` is used.

## 10. Not modelled

* The LLM key pool: `await` points and a clock per key; its effect on the rest, a
  call that fails, is in every model that makes calls. First in the plan.
* The quiz and hint graphs' routing and retry caps; what their nodes write is
  `QuizContent`. External research: web search, extraction and distillation, one
  node of `StudyGraph`.
* Reference materials and the LlamaParse cache: mostly I/O; `StudyGraph` has the
  cached text as a flag.
* Read models (panels, dashboards, rollups) have no state but
  `trainee_space_progress`, which is recomputed. Routes, schemas and exceptions are
  stateless; storage and media access are I/O.
* Prompts, parsing and scoring of model output: string processing, which a model of
  the control would only repeat. Together with schemas, routes and read models they
  are most of the repository's lines, which is why the models cover the smaller part of
  them although they cover most of what changes state.

Within the modelled parts, each component's `note` in `PROJECT.json` says what is
left out.
