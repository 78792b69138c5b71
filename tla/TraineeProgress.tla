-------------------------- MODULE TraineeProgress --------------------------
(***************************************************************************)
(* The progress of one trainee on the topic nodes of a space: the row of   *)
(* traineenodeprogress of every node, the durable unlock grants of the     *)
(* nodes below a gate, the quizzes published on the nodes and the          *)
(* trainee's attempts at them.                                             *)
(*                                                                         *)
(* Callers are concurrent requests, of the trainee (scroll, open, start    *)
(* and submit an attempt) and of the mentor (publish, unpublish, change a  *)
(* threshold).  The database runs at READ COMMITTED and no request locks   *)
(* the progress row: a request keeps the row it loaded and its UPDATE      *)
(* writes the columns it changed in memory (Flush).  A handler is          *)
(* therefore a reading step followed by a writing step that commits; a     *)
(* handler that commits several times has one step per commit.             *)
(***************************************************************************)
EXTENDS Integers, FiniteSets

CONSTANTS
  Nodes, Parent, NoNode,   \* the active topic nodes and their tree
  Quizzes, Home, NoQuiz,   \* the quizzes and the node each belongs to
  AttemptIds,              \* the attempts that can be created
  Callers,                 \* requests that can be under way at once
  Full,                    \* the read percentage that completes the material
  MaxScore,                \* scores are 0..MaxScore, thresholds 1..MaxScore
  Failures                 \* may a mentor's request fail between its commits

ASSUME TreeAssumption ==
  /\ Parent \in [Nodes -> Nodes \cup {NoNode}]
  /\ NoNode \notin Nodes

ASSUME QuizAssumption ==
  /\ Home \in [Quizzes -> Nodes]
  /\ NoQuiz \notin Quizzes

ASSUME GradeAssumption ==
  /\ Full \in Nat \ {0}
  /\ MaxScore \in Nat \ {0}
  /\ Failures \in BOOLEAN

VARIABLES
  material,  \* nodes with published study material
  live,      \* the published quiz of a node, or NoQuiz
  bar,       \* the pass threshold of the published quiz, 0 without one
  attempt,   \* quizattempts: quiz, status and score
  row,       \* traineenodeprogress of the trainee, per node
  grants,    \* traineenodeunlocks of the trainee
  req,       \* what each request has read and has still to do
  finished,  \* history: nodes whose material was once read in full
  stale      \* history: the facts of a row last written from an outdated reading

content == <<material, live, bar>>
history == <<finished, stale>>
vars == <<content, attempt, row, grants, req, history>>

NoScore == -1

Statuses == {"not_started", "in_progress", "completed"}

Rows == [read: 0..Full, done: BOOLEAN, best: NoScore..MaxScore, passed: BOOLEAN,
         count: Nat, status: Statuses \cup {"absent"}]

NoRow == [read |-> 0, done |-> FALSE, best |-> NoScore, passed |-> FALSE,
          count |-> 0, status |-> "absent"]

\* What a row says of its node: the attempts counted and their best score,
\* whether the quiz is passed, and whether the node is complete.
Facts == {"ledger", "pass", "status"}

Attempts == [quiz: Quizzes \cup {NoQuiz}, score: 0..MaxScore,
             status: {"unused", "in_progress", "submitted", "abandoned"}]

Idle == [op |-> "idle"]

Requests ==
  {Idle}
    \cup [op: {"scroll"}, node: Nodes, seen: Rows, bar: 0..MaxScore,
          arg: 0..Full, lazy: BOOLEAN]
    \cup [op: {"view"}, node: Nodes, seen: Rows, bar: 0..MaxScore, lazy: BOOLEAN]
    \cup [op: {"start"}, node: Nodes, quiz: Quizzes, lazy: BOOLEAN]
    \cup [op: {"submit"}, attempt: AttemptIds]
    \cup [op: {"record"}, node: Nodes, seen: Rows, bar: 0..MaxScore,
          attempt: AttemptIds, score: 0..MaxScore]
    \cup [op: {"reset", "grant", "sync"}, node: Nodes]

Init ==
  /\ material = {}
  /\ live = [n \in Nodes |-> NoQuiz]
  /\ bar = [n \in Nodes |-> 0]
  /\ attempt = [a \in AttemptIds |->
                  [quiz |-> NoQuiz, score |-> 0, status |-> "unused"]]
  /\ row = [n \in Nodes |-> NoRow]
  /\ grants = {}
  /\ req = [c \in Callers |-> Idle]
  /\ finished = {}
  /\ stale = {}

-----------------------------------------------------------------------------
(* Completion and unlocking rules                                          *)

\* compute_completion_status: the status of row r where a quiz is published
\* or not.
Derive(r, hasQuiz) ==
  IF r.done /\ (hasQuiz => r.passed) THEN "completed"
  ELSE IF r.read > 0 \/ r.count > 0 THEN "in_progress"
  ELSE "not_started"

\* is_progress_complete on the current row and quiz.
Complete(n) == Derive(row[n], bar[n] # 0) = "completed"

\* n and its ancestors.
Upward[n \in Nodes] ==
  {n} \cup (IF Parent[n] = NoNode THEN {} ELSE Upward[Parent[n]])

HasContent(n) == \E m \in material : n \in Upward[m]

EligibleAnyChild(n) == {k \in Nodes : Parent[k] = n}
Eligible(n) == {k \in Nodes : Parent[k] = n /\ HasContent(k)}

\* is_parent_learning_unit: the direct parent has published material.
Gated(n) == Parent[n] \in material

\* resolve_node_access = prerequisite_locked.
Locked(n) ==
  HasContent(n) /\ Gated(n) /\ n \notin grants /\ ~Complete(Parent[n])

LazyGrantUnchecked(n) == HasContent(n) /\ Gated(n) /\ n \notin grants
\* resolve_node_access_with_grant writes a grant on the way.
LazyGrant(n) ==
  HasContent(n) /\ Gated(n) /\ n \notin grants /\ Complete(Parent[n])

IdleCaller(c) == req[c] = Idle
Doing(c, op) == req[c].op = op
Then(c, r) == req' = [req EXCEPT ![c] = r]
Return(c) == Then(c, Idle)
Given(test, S) == IF test THEN S ELSE {}

-----------------------------------------------------------------------------
(* Writing the progress row                                                *)

\* A column is in the UPDATE only if the request changed it in memory.
Kept(new, seen, now) == IF new = seen THEN now ELSE new

\* The flush of new over the row as it is now, for a request that loaded
\* seen; a request that found no row inserts one, and fails if another
\* request has inserted it meanwhile.
Flush(n, seen, new) ==
  /\ seen.status = "absent" => row[n].status = "absent"
  /\ row' = [row EXCEPT ![n] =
       [read   |-> Kept(new.read, seen.read, row[n].read),
        done   |-> Kept(new.done, seen.done, row[n].done),
        best   |-> Kept(new.best, seen.best, row[n].best),
        passed |-> Kept(new.passed, seen.passed, row[n].passed),
        count  |-> Kept(new.count, seen.count, row[n].count),
        status |-> Kept(new.status, seen.status, row[n].status)]]

\* A bulk UPDATE of the node's rows, evaluated by the database.
BulkUpdate(n, new) ==
  row' = [row EXCEPT ![n] = IF row[n].status = "absent" THEN row[n] ELSE new]

\* What a request gets wrong when it writes now, because another request has
\* written since it loaded what it writes from.
Overtaken(c) ==
  LET n == req[c].node
      submission == Doing(c, "record")
      derived == req[c].op \in {"scroll", "view", "record"}
  IN Given(/\ submission
           /\ \/ req[c].seen.count # row[n].count
              \/ req[c].seen.best # row[n].best
              \/ attempt[req[c].attempt].status = "submitted", {"ledger"})
     \cup Given(/\ submission
                /\ req[c].seen.best # row[n].best \/ req[c].bar # bar[n], {"pass"})
     \cup Given(\/ /\ derived
                   /\ req[c].seen # row[n] \/ (req[c].bar = 0) # (bar[n] = 0)
                \/ Doing(c, "sync") /\ bar[n] # 0, {"status"})

\* History: what the write of c to the row of n recomputes is no longer
\* stale, unless c was overtaken itself.
Settles(c, n, recomputed) ==
  stale' = (stale \ (recomputed \X {n})) \cup (Overtaken(c) \X {n})

WithStatus(r, hasQuiz) == [r EXCEPT !.status = Derive(r, hasQuiz)]

-----------------------------------------------------------------------------
(* Reading the study material                                              *)

AdvancesUnlessFinished(n, p) == p >= row[n].read \/ row[n].done
\* ReadPercentRegressionException otherwise.
Advances(n, p) == p >= row[n].read

ScrollRead(c, n, p) ==
  /\ IdleCaller(c)
  /\ n \in material
  /\ ~Locked(n)
  /\ Advances(n, p)
  /\ Then(c, [op |-> "scroll", node |-> n, seen |-> row[n], bar |-> bar[n],
              arg |-> p, lazy |-> LazyGrant(n)])
  /\ UNCHANGED <<content, attempt, row, grants, history>>

ScrollWrite(c) ==
  /\ Doing(c, "scroll")
  /\ LET n == req[c].node
         seen == req[c].seen
         hasQuiz == req[c].bar # 0
         new == WithStatus([seen EXCEPT !.read = req[c].arg,
                                        !.done = @ \/ req[c].arg = Full], hasQuiz)
     IN /\ Flush(n, seen, new)
        /\ grants' = grants
             \cup Given(req[c].lazy, {n})
             \cup Given(row'[n].status = "completed"
                          /\ Derive(seen, hasQuiz) # "completed", Eligible(n))
        /\ finished' = finished \cup Given(req[c].arg = Full, {n})
        /\ Settles(c, n, {"status"})
  /\ Return(c)
  /\ UNCHANGED <<content, attempt>>

ViewRead(c, n) ==
  /\ IdleCaller(c)
  /\ ~Locked(n)
  /\ Then(c, [op |-> "view", node |-> n, seen |-> row[n], bar |-> bar[n],
              lazy |-> LazyGrant(n)])
  /\ UNCHANGED <<content, attempt, row, grants, history>>

\* mark_study_material_viewed commits before the handler looks for a
\* published version: a node without material gets a row, too.
ViewWrite(c) ==
  /\ Doing(c, "view")
  /\ Flush(req[c].node, req[c].seen, WithStatus(req[c].seen, req[c].bar # 0))
  /\ grants' = grants \cup Given(req[c].lazy, {req[c].node})
  /\ Settles(c, req[c].node, {"status"})
  /\ Return(c)
  /\ UNCHANGED <<content, attempt, finished>>

\* The PDF download and the quiz discovery commit only a lazy grant.
Visit(c, n) ==
  /\ IdleCaller(c)
  /\ LazyGrant(n)
  /\ grants' = grants \cup {n}
  /\ UNCHANGED <<content, attempt, row, req, history>>

-----------------------------------------------------------------------------
(* Quiz attempts                                                           *)

StartRead(c, q) ==
  /\ IdleCaller(c)
  /\ live[Home[q]] = q
  /\ ~Locked(Home[q])
  /\ Then(c, [op |-> "start", node |-> Home[q], quiz |-> q,
              lazy |-> LazyGrant(Home[q])])
  /\ UNCHANGED <<content, attempt, row, grants, history>>

\* The quiz is selected again FOR UPDATE, but the session already holds the
\* object and does not refresh it: is_published is what StartRead saw.
StartCreate(c, a) ==
  /\ Doing(c, "start")
  /\ req[c].node \in material
  /\ \A b \in AttemptIds :
       attempt[b].quiz = req[c].quiz => attempt[b].status # "in_progress"
  /\ attempt[a].status = "unused"
  /\ attempt' = [attempt EXCEPT ![a] =
       [quiz |-> req[c].quiz, score |-> 0, status |-> "in_progress"]]
  /\ grants' = grants \cup Given(req[c].lazy, {req[c].node})
  /\ Return(c)
  /\ UNCHANGED <<content, row, history>>

SubmitCheck(c, a) ==
  /\ IdleCaller(c)
  /\ attempt[a].status = "in_progress"
  /\ Then(c, [op |-> "submit", attempt |-> a])
  /\ UNCHANGED <<content, attempt, row, grants, history>>

\* A flushed, uncommitted UPDATE of the attempt holds its row lock.
AttemptLocked(a) == \E c \in Callers : Doing(c, "record") /\ req[c].attempt = a

\* The attempt is flushed as submitted, then the progress row and the
\* published quiz of the node are loaded.
SubmitRecord(c, s) ==
  /\ Doing(c, "submit")
  /\ ~AttemptLocked(req[c].attempt)
  /\ LET n == Home[attempt[req[c].attempt].quiz]
     IN Then(c, [op |-> "record", node |-> n, seen |-> row[n], bar |-> bar[n],
                 attempt |-> req[c].attempt, score |-> s])
  /\ UNCHANGED <<content, attempt, row, grants, history>>

MeetsBar(score, threshold) ==
  score # NoScore /\ threshold # 0 /\ score >= threshold

Better(x, y) == IF x >= y THEN x ELSE y

GradedLastScore(seen, score, threshold) ==
  [seen EXCEPT !.best = score, !.count = @ + 1,
               !.passed = @ \/ MeetsBar(score, threshold)]
\* EC-22: the best score of all attempts counts, and a pass stays.
Graded(seen, score, threshold) ==
  LET best == Better(seen.best, score)
  IN [seen EXCEPT !.best = best, !.count = @ + 1,
                  !.passed = @ \/ MeetsBar(best, threshold)]

SubmitWrite(c) ==
  /\ Doing(c, "record")
  /\ LET n == req[c].node
         seen == req[c].seen
         hasQuiz == req[c].bar # 0
         new == WithStatus(Graded(seen, req[c].score, req[c].bar), hasQuiz)
     IN /\ Flush(n, seen, new)
        /\ grants' = grants
             \cup Given(new.status = "completed"
                          /\ Derive(seen, hasQuiz) # "completed", Eligible(n))
        /\ Settles(c, n, {"status"})
  /\ attempt' = [attempt EXCEPT ![req[c].attempt].status = "submitted",
                                ![req[c].attempt].score = req[c].score]
  /\ Return(c)
  /\ UNCHANGED <<content, finished>>

-----------------------------------------------------------------------------
(* The mentor's study material                                             *)

PublishMaterial(c, n) ==
  /\ IdleCaller(c)
  /\ material' = material \cup {n}
  /\ Then(c, [op |-> IF n \in material THEN "reset" ELSE "grant", node |-> n])
  /\ UNCHANGED <<live, bar, attempt, row, grants, history>>

Active(r) == r.read > 0 \/ r.count > 0 \/ r.done

UnreadKeepsStatus(r) == [r EXCEPT !.read = 0, !.done = FALSE]
\* _completion_after_read_reset
Unread(r) ==
  [r EXCEPT !.read = 0, !.done = FALSE,
            !.status = IF r.count > 0 THEN "in_progress" ELSE "not_started"]

\* Superseding a published version resets the reading, in its own commit.
ResetRead(c) ==
  /\ Doing(c, "reset")
  /\ BulkUpdate(req[c].node, Unread(row[req[c].node]))
  /\ Settles(c, req[c].node, {"status"})
  /\ Then(c, [req[c] EXCEPT !.op = "grant"])
  /\ UNCHANGED <<content, attempt, grants, finished>>

\* A failing reset is logged and the publication goes on.
ResetFails(c) ==
  /\ Failures
  /\ Doing(c, "reset")
  /\ Then(c, [req[c] EXCEPT !.op = "grant"])
  /\ UNCHANGED <<content, attempt, row, grants, history>>

GrantAfterPublish(c) ==
  /\ Doing(c, "grant")
  /\ LET n == req[c].node
     IN grants' = IF HasContent(n) /\ Gated(n) /\ Complete(Parent[n])
                  THEN grants \cup Eligible(Parent[n]) ELSE grants
  /\ Return(c)
  /\ UNCHANGED <<content, attempt, row, history>>

UnpublishMaterial(c, n) ==
  /\ IdleCaller(c)
  /\ n \in material
  /\ material' = material \ {n}
  /\ UNCHANGED <<live, bar, attempt, row, grants, req, history>>

-----------------------------------------------------------------------------
(* The mentor's quizzes                                                    *)

\* _completion_after_quiz_passed_reset with a published quiz, and without.
UnpassedKeepsFlag(r) ==
  [r EXCEPT !.status = IF Active(r) THEN "in_progress" ELSE "not_started"]
Unpassed(r) ==
  [r EXCEPT !.passed = FALSE,
            !.status = IF Active(r) THEN "in_progress" ELSE "not_started"]

ReadingOnly(r) ==
  [r EXCEPT !.status = IF r.done THEN "completed"
                       ELSE IF r.read > 0 THEN "in_progress" ELSE "not_started"]

\* recompute_node_quiz_passed_for_threshold
Regraded(r, threshold) ==
  LET passed == MeetsBar(r.best, threshold)
  IN [r EXCEPT !.passed = passed,
               !.status = IF r.done /\ passed THEN "completed"
                          ELSE IF Active(r) THEN "in_progress" ELSE "not_started"]

SwappedOutAll(n) == {a \in AttemptIds : attempt[a].quiz = live[n] /\ live[n] # NoQuiz}
\* The attempts in progress at the quiz of n that is live.
SwappedOut(n) ==
  {a \in AttemptIds : attempt[a].quiz = live[n] /\ attempt[a].status = "in_progress"}

\* The publication, the archiving of the quiz it replaces, the abandonment
\* of that quiz's attempts and the EC-20 reset are one commit.
PublishQuiz(c, q, t) ==
  LET n == Home[q]
  IN /\ IdleCaller(c)
     /\ n \in material
     /\ live[n] # q
     /\ \A a \in SwappedOut(n) : ~AttemptLocked(a)
     /\ live' = [live EXCEPT ![n] = q]
     /\ bar' = [bar EXCEPT ![n] = t]
     /\ attempt' = [a \in AttemptIds |->
          IF a \in SwappedOut(n) THEN [attempt[a] EXCEPT !.status = "abandoned"]
          ELSE attempt[a]]
     /\ BulkUpdate(n, Unpassed(row[n]))
     /\ Settles(c, n, {"pass", "status"})
     /\ UNCHANGED <<material, grants, req, finished>>

\* Setting the threshold of a live quiz, to a new value or the same,
\* re-evaluates quiz_passed from the best score.
SetThreshold(c, n, t) ==
  /\ IdleCaller(c)
  /\ live[n] # NoQuiz
  /\ bar' = [bar EXCEPT ![n] = t]
  /\ BulkUpdate(n, Regraded(row[n], t))
  /\ Settles(c, n, {"pass", "status"})
  /\ grants' = grants \cup Given(Derive(row'[n], TRUE) = "completed", Eligible(n))
  /\ UNCHANGED <<material, live, attempt, req, finished>>

\* Attempts at the quiz stay in progress.
UnpublishQuiz(c, n) ==
  /\ IdleCaller(c)
  /\ live[n] # NoQuiz
  /\ live' = [live EXCEPT ![n] = NoQuiz]
  /\ bar' = [bar EXCEPT ![n] = 0]
  /\ Then(c, [op |-> "sync", node |-> n])
  /\ UNCHANGED <<material, attempt, row, grants, history>>

\* C3, in a second commit: the stored status assumes there is no quiz, the
\* grants look at the quiz that is published by now.
SyncUnpublished(c) ==
  /\ Doing(c, "sync")
  /\ LET n == req[c].node
     IN /\ BulkUpdate(n, ReadingOnly(row[n]))
        /\ grants' = grants \cup Given(Complete(n), Eligible(n))
        /\ Settles(c, n, {"status"})
  /\ Return(c)
  /\ UNCHANGED <<content, attempt, finished>>

-----------------------------------------------------------------------------

\* A request that is refused, fails or dies with its process leaves what it
\* has committed so far.
RequestDies(c) ==
  /\ ~IdleCaller(c)
  /\ req[c].op \in {"reset", "grant", "sync"} => Failures
  /\ Return(c)
  /\ UNCHANGED <<content, attempt, row, grants, history>>

TraineeStep(c) ==
  \/ \E n \in Nodes :
       \/ \E p \in 0..Full : ScrollRead(c, n, p)
       \/ ViewRead(c, n)
       \/ Visit(c, n)
  \/ ScrollWrite(c)
  \/ ViewWrite(c)
  \/ \E q \in Quizzes : StartRead(c, q)
  \/ \E a \in AttemptIds : StartCreate(c, a) \/ SubmitCheck(c, a)
  \/ \E s \in 0..MaxScore : SubmitRecord(c, s)
  \/ SubmitWrite(c)

MentorStep(c) ==
  \/ \E n \in Nodes :
       \/ PublishMaterial(c, n)
       \/ UnpublishMaterial(c, n)
       \/ \E t \in 1..MaxScore : SetThreshold(c, n, t)
       \/ UnpublishQuiz(c, n)
  \/ \E q \in Quizzes, t \in 1..MaxScore : PublishQuiz(c, q, t)
  \/ ResetRead(c)
  \/ ResetFails(c)
  \/ GrantAfterPublish(c)
  \/ SyncUnpublished(c)

Next == \E c \in Callers : TraineeStep(c) \/ MentorStep(c) \/ RequestDies(c)

Spec == Init /\ [][Next]_vars

-----------------------------------------------------------------------------
(* Properties of every interleaving                                        *)

Submitted(n) == {a \in AttemptIds : attempt[a].status = "submitted"
                                      /\ Home[attempt[a].quiz] = n}

\* The variables keep their types; an attempt in use belongs to a quiz, and
\* a threshold is set exactly while a quiz is published.
TypeOK ==
  /\ material \subseteq Nodes
  /\ live \in [Nodes -> Quizzes \cup {NoQuiz}]
  /\ bar \in [Nodes -> 0..MaxScore]
  /\ attempt \in [AttemptIds -> Attempts]
  /\ row \in [Nodes -> Rows]
  /\ grants \subseteq Nodes
  /\ req \in [Callers -> Requests]
  /\ finished \subseteq Nodes
  /\ stale \subseteq Facts \X Nodes
  /\ \A n \in Nodes : live[n] = NoQuiz <=> bar[n] = 0
  /\ \A a \in AttemptIds : attempt[a].quiz = NoQuiz <=> attempt[a].status = "unused"
  /\ \A c \in Callers : Doing(c, "submit") \/ Doing(c, "record") =>
       attempt[req[c].attempt].status # "unused"

\* A durable grant is never given below a node the trainee has not read in
\* full at some time, however the resets, publications and stale requests
\* interleave (unlocking.py: grants follow the completion of the parent).
GrantNeedsReading ==
  \A k \in grants : Parent[k] \in finished

\* A grade comes from a submitted attempt: no passed flag, best score or
\* attempt count without one, whatever a threshold change or a republication
\* recomputes meanwhile.
GradeNeedsAttempt ==
  \A n \in Nodes :
    row[n].passed \/ row[n].best # NoScore \/ row[n].count > 0 =>
      Submitted(n) # {}

\* What holds of the stored rows and of every snapshot a request may still
\* write back, however old.
ReadingKnown(n, r) ==
  r.done \/ r.status = "completed" => n \in finished

GradeKnown(n, r) ==
  r.passed \/ r.best # NoScore \/ r.count > 0 => Submitted(n) # {}

Known(n, r) == ReadingKnown(n, r) /\ GradeKnown(n, r)

RequestKnown(c) ==
  /\ req[c].op \in {"scroll", "view", "record"} => Known(req[c].node, req[c].seen)
  /\ req[c].op \in {"scroll", "view", "start"} /\ req[c].lazy =>
       Parent[req[c].node] \in finished
  /\ req[c].op = "record" => req[c].node = Home[attempt[req[c].attempt].quiz]

\* The inductive invariant behind GrantNeedsReading and GradeNeedsAttempt:
\* it extends both to the snapshots requests hold and to pending grants.
IInv ==
  /\ TypeOK
  /\ GrantNeedsReading
  /\ \A n \in Nodes : Known(n, row[n])
  /\ \A c \in Callers : RequestKnown(c)

-----------------------------------------------------------------------------
(* What the row of a node says, and what an overlap can do to it           *)

\* EC-22: the row counts the submitted attempts and its best score is the
\* greatest of theirs, across quiz swaps, resets and failed requests.
Ledger(n) ==
  /\ row[n].count = Cardinality(Submitted(n))
  /\ \A a \in Submitted(n) : attempt[a].score <= row[n].best
  /\ row[n].best # NoScore => \E a \in Submitted(n) : attempt[a].score = row[n].best

\* The count and the best score of a node are those of its submitted
\* attempts unless a submission has written there that another one overtook.
LedgerAgrees ==
  \A n \in Nodes : <<"ledger", n>> \notin stale => Ledger(n)

\* While a quiz is live the stored quiz_passed is what its threshold and the
\* best score allow (recompute on threshold changes, reset on publication),
\* or else was set by a submission that loaded another threshold or best
\* score, and then only until the next publication or threshold change.
PassedMeetsBar ==
  \A n \in Nodes : <<"pass", n>> \notin stale =>
    (live[n] # NoQuiz /\ row[n].passed => row[n].best >= bar[n])

\* The stored completion_status says completed of a node that is not
\* (count_completed_nodes and the dashboards read it) only if the request that
\* wrote it last had been overtaken; a mentor's request that dies between its
\* commits never leaves it so.
CachedNeverOverclaims ==
  \A n \in Nodes : <<"status", n>> \notin stale =>
    (row[n].status = "completed" => Complete(n))

Acts(c) == req'[c] # req[c]

\* Only the reset of a superseded material takes a finished reading away, and
\* only it or a scroll that has been overtaken by a longer one lowers the
\* saved percentage.
ReadNeverRegresses ==
  [][\A n \in Nodes :
       LET wasReset == \E c \in Callers :
             Acts(c) /\ Doing(c, "reset") /\ req[c].node = n /\ row'[n].read = 0
       IN /\ row[n].done /\ ~row'[n].done => wasReset
          /\ row'[n].read < row[n].read =>
               \/ wasReset
               \/ \E c \in Callers :
                    /\ Acts(c) /\ Doing(c, "scroll") /\ req[c].node = n
                    /\ req[c].seen.read < row[n].read]_vars

\* The lazy grant c still has to write is no longer due.
AccessOvertaken(c) ==
  /\ req[c].op \in {"scroll", "view", "start"}
  /\ req[c].lazy
  /\ ~(HasContent(req[c].node) /\ Complete(Parent[req[c].node]))

\* A node is granted only below a node that is complete when the grant is
\* written, by the rules of that moment, unless the request that writes it
\* was overtaken since it found the parent complete, or wrote its completion.
GrantedOnlyByCompletion ==
  [][\A k \in grants' \ grants :
       \/ Parent[k] \in Nodes /\ Complete(Parent[k])' /\ HasContent(k)
       \/ \E c \in Callers : Acts(c) /\ AccessOvertaken(c) /\ req[c].node = k
       \/ \E c \in Callers : /\ Acts(c)
                            /\ req[c].op \in {"scroll", "record"}
                            /\ req[c].node = Parent[k]
                            /\ "status" \in Overtaken(c)]_vars

\* What a request in flight holds of its row: a row once written stays, and a
\* scroll goes no further back than what it loaded.
Loaded(c) ==
  /\ req[c].op \in {"scroll", "view", "record"} /\ req[c].seen.status # "absent" =>
       row[req[c].node].status # "absent"
  /\ req[c].op = "scroll" => req[c].arg >= req[c].seen.read

\* The inductive invariant behind the properties of the rows.
RowIInv ==
  /\ IInv
  /\ LedgerAgrees
  /\ PassedMeetsBar
  /\ CachedNeverOverclaims
  /\ \A n \in Nodes : /\ IsFiniteSet(Submitted(n))
                      /\ row[n].status = "absent" => ~row[n].passed
  /\ \A c \in Callers : Loaded(c)

-----------------------------------------------------------------------------
(* What the documentation says and the code does not do                    *)

\* "Once a quiz is published, both reading and a passing score are required":
\* a node with a live quiz is complete only if an attempt at that quiz passed.
PassingScoreRequired ==
  \A n \in Nodes : live[n] # NoQuiz /\ Complete(n) =>
    \E a \in Submitted(n) : attempt[a].quiz = live[n] /\ attempt[a].score >= bar[n]

=============================================================================
