----------------------- MODULE TraineeProgressProofs -----------------------
(***************************************************************************)
(* For any tree, quizzes, attempts and number of overlapping requests:     *)
(* grants need reading and grades need a submitted attempt; what a row     *)
(* says agrees with the attempts and the quiz, grants follow completion    *)
(* and no reading is lost, unless the very request that writes has been    *)
(* overtaken by another.                                                   *)
(***************************************************************************)
EXTENDS TraineeProgress, FiniteSetTheorems, TLAPS

Ops == {"scroll", "view", "start", "submit", "record", "reset", "grant", "sync"}

(* What the shape of a request in flight says of its fields.               *)
LEMMA RequestFields ==
  ASSUME NEW r \in Requests
  PROVE  /\ r.op \in Ops \cup {"idle"}
         /\ r.op = "scroll" => /\ r.node \in Nodes /\ r.seen \in Rows
                               /\ r.bar \in 0..MaxScore /\ r.arg \in 0..Full
                               /\ r.lazy \in BOOLEAN
         /\ r.op = "view" => /\ r.node \in Nodes /\ r.seen \in Rows
                             /\ r.bar \in 0..MaxScore /\ r.lazy \in BOOLEAN
         /\ r.op = "start" => /\ r.node \in Nodes /\ r.quiz \in Quizzes
                              /\ r.lazy \in BOOLEAN
         /\ r.op = "submit" => r.attempt \in AttemptIds
         /\ r.op = "record" => /\ r.node \in Nodes /\ r.seen \in Rows
                               /\ r.bar \in 0..MaxScore
                               /\ r.attempt \in AttemptIds
                               /\ r.score \in 0..MaxScore
         /\ r.op \in {"reset", "grant", "sync"} =>
              r = [op |-> r.op, node |-> r.node] /\ r.node \in Nodes
BY DEF Requests, Idle, Ops

(* compute_completion_status yields a status, and completed only if the    *)
(* material is read.                                                       *)
LEMMA DeriveFacts ==
  ASSUME NEW r, NEW h
  PROVE  /\ Derive(r, h) \in Statuses
         /\ Derive(r, h) = "completed" => r.done
BY DEF Derive, Statuses

(* A complete node was once read in full.                                  *)
LEMMA CompleteWasRead ==
  ASSUME IInv, NEW n \in Nodes, Complete(n)
  PROVE  n \in finished
BY DeriveFacts DEF IInv, Complete, Known, ReadingKnown

(* A lazy grant is below a node that was read.                             *)
LEMMA LazyGrantBelowRead ==
  ASSUME IInv, NEW n \in Nodes, LazyGrant(n)
  PROVE  Parent[n] \in finished
<1>1. Parent[n] \in Nodes
  BY DEF LazyGrant, Gated, IInv, TypeOK
<1> QED BY <1>1, CompleteWasRead DEF LazyGrant

(* The nodes granted below n are children of n.                            *)
LEMMA EligibleBelow ==
  ASSUME NEW n, NEW k \in Eligible(n)
  PROVE  k \in Nodes /\ Parent[k] = n
BY DEF Eligible

(* The attempts submitted at a node stay submitted, and an attempt in use  *)
(* keeps its quiz.                                                         *)
AttemptsKept ==
  /\ \A n \in Nodes : Submitted(n) \subseteq Submitted(n)'
  /\ \A a \in AttemptIds : attempt[a].status # "unused" =>
       attempt'[a].quiz = attempt[a].quiz /\ attempt'[a].status # "unused"

(* A step of c keeps the invariant if it keeps types and attempts, only    *)
(* adds to finished, and leaves known what it writes.                      *)
LEMMA StepKeeps ==
  ASSUME IInv, TypeOK', NEW c \in Callers, AttemptsKept,
         finished \subseteq finished',
         \A d \in Callers : d # c => req'[d] = req[d],
         \A n \in Nodes : Known(n, row[n])',
         RequestKnown(c)',
         \A k \in grants' : k \in grants \/ Parent[k] \in finished'
  PROVE  IInv'
<1>1. GrantNeedsReading'
  BY DEF IInv, GrantNeedsReading
<1>2. ASSUME NEW d \in Callers PROVE RequestKnown(d)'
  <2>1. CASE d = c BY <2>1
  <2>2. CASE d # c
    <3>1. req'[d] = req[d] /\ RequestKnown(d)
      BY <2>2 DEF IInv
    <3>2. req[d] \in Requests BY DEF IInv, TypeOK
    <3>3. req[d].op \in {"scroll", "view", "record"} => Known(req[d].node, req[d].seen)'
      <4>1. SUFFICES ASSUME req[d].op \in {"scroll", "view", "record"}
                     PROVE  Known(req[d].node, req[d].seen)'
        OBVIOUS
      <4>2. req[d].node \in Nodes BY <3>2, <4>1, RequestFields
      <4> QED BY <3>1, <4>1, <4>2 DEF RequestKnown, Known, ReadingKnown, GradeKnown, AttemptsKept
    <3>4. req[d].op = "record" => req[d].node = Home[attempt'[req[d].attempt].quiz]
      BY <3>1, <3>2, RequestFields DEF RequestKnown, AttemptsKept, IInv, TypeOK, Doing
    <3> QED BY <3>1, <3>3, <3>4 DEF RequestKnown
  <2> QED BY <2>1, <2>2
<1> QED BY <1>1, <1>2 DEF IInv

(* What a write of new over the row of n must satisfy.                     *)
MayWrite(n, new) ==
  /\ new \in Rows
  /\ new.done \/ new.status = "completed" => n \in finished'
  /\ new.passed \/ new.best # NoScore \/ new.count > 0 => Submitted(n)' # {}

(* A row that takes each column from the stored row or from new is known.  *)
LEMMA WriteKeepsKnown ==
  ASSUME IInv, NEW n \in Nodes, NEW new, MayWrite(n, new), NEW r \in Rows,
         AttemptsKept, finished \subseteq finished',
         row' = [row EXCEPT ![n] = r],
         r.done \in {row[n].done, new.done},
         r.status \in {row[n].status, new.status},
         r.passed \in {row[n].passed, new.passed},
         r.best \in {row[n].best, new.best},
         r.count \in {row[n].count, new.count}
  PROVE  row' \in [Nodes -> Rows] /\ \A m \in Nodes : Known(m, row[m])'
<1>1. row \in [Nodes -> Rows] /\ row' \in [Nodes -> Rows]
  BY DEF IInv, TypeOK
<1>2. ASSUME NEW m \in Nodes PROVE Known(m, row[m])'
  <2>1. CASE m = n
    <3>1. row'[m] = r BY <1>1, <2>1
    <3>2. Known(n, row[n]) BY DEF IInv
    <3>3. Submitted(n) \subseteq Submitted(n)' BY DEF AttemptsKept
    <3>4. r.done \/ r.status = "completed" => n \in finished'
      BY <3>2 DEF Known, ReadingKnown, MayWrite
    <3>5. r.passed \/ r.best # NoScore \/ r.count > 0 => Submitted(n)' # {}
      BY <3>2, <3>3 DEF Known, GradeKnown, MayWrite
    <3> QED BY <2>1, <3>1, <3>4, <3>5 DEF Known, ReadingKnown, GradeKnown
  <2>2. CASE m # n
    <3>1. row'[m] = row[m] BY <1>1, <2>2
    <3>2. Known(m, row[m]) BY DEF IInv
    <3>3. Submitted(m) \subseteq Submitted(m)' BY DEF AttemptsKept
    <3> QED BY <3>1, <3>2, <3>3 DEF Known, ReadingKnown, GradeKnown
  <2> QED BY <2>1, <2>2
<1> QED BY <1>1, <1>2

(* A flush of a permitted row, over whatever is stored by now.             *)
LEMMA FlushKeepsKnown ==
  ASSUME IInv, NEW n \in Nodes, NEW seen \in Rows, NEW new,
         Flush(n, seen, new), MayWrite(n, new),
         AttemptsKept, finished \subseteq finished'
  PROVE  row' \in [Nodes -> Rows] /\ \A m \in Nodes : Known(m, row[m])'
<1> DEFINE r == [read   |-> Kept(new.read, seen.read, row[n].read),
                 done   |-> Kept(new.done, seen.done, row[n].done),
                 best   |-> Kept(new.best, seen.best, row[n].best),
                 passed |-> Kept(new.passed, seen.passed, row[n].passed),
                 count  |-> Kept(new.count, seen.count, row[n].count),
                 status |-> Kept(new.status, seen.status, row[n].status)]
<1>1. row[n] \in Rows BY DEF IInv, TypeOK
<1>2. r \in Rows
  BY <1>1 DEF MayWrite, Rows, Kept
<1>3. row' = [row EXCEPT ![n] = r] BY DEF Flush
<1>4. /\ r.done \in {row[n].done, new.done}
      /\ r.status \in {row[n].status, new.status}
      /\ r.passed \in {row[n].passed, new.passed}
      /\ r.best \in {row[n].best, new.best}
      /\ r.count \in {row[n].count, new.count}
  BY DEF Kept
<1> HIDE DEF r
<1> QED BY <1>2, <1>3, <1>4, WriteKeepsKnown

(* A bulk UPDATE to a permitted row.                                       *)
LEMMA BulkKeepsKnown ==
  ASSUME IInv, NEW n \in Nodes, NEW new, BulkUpdate(n, new), MayWrite(n, new),
         AttemptsKept, finished \subseteq finished'
  PROVE  row' \in [Nodes -> Rows] /\ \A m \in Nodes : Known(m, row[m])'
<1> DEFINE r == IF row[n].status = "absent" THEN row[n] ELSE new
<1>1. row[n] \in Rows BY DEF IInv, TypeOK
<1>2. r \in Rows /\ r \in {row[n], new} BY <1>1 DEF MayWrite
<1>3. row' = [row EXCEPT ![n] = r] BY DEF BulkUpdate
<1> HIDE DEF r
<1>4. /\ r.done \in {row[n].done, new.done}
      /\ r.status \in {row[n].status, new.status}
      /\ r.passed \in {row[n].passed, new.passed}
      /\ r.best \in {row[n].best, new.best}
      /\ r.count \in {row[n].count, new.count}
  BY <1>2
<1> QED BY <1>2, <1>3, <1>4, WriteKeepsKnown

(* Rows that are not written stay known.                                   *)
LEMMA UnwrittenStaysKnown ==
  ASSUME IInv, UNCHANGED row, AttemptsKept, finished \subseteq finished'
  PROVE  \A m \in Nodes : Known(m, row[m])'
<1> SUFFICES ASSUME NEW m \in Nodes PROVE Known(m, row[m])'
  OBVIOUS
<1>1. Known(m, row[m]) BY DEF IInv
<1>2. Submitted(m) \subseteq Submitted(m)' BY DEF AttemptsKept
<1> QED BY <1>1, <1>2 DEF Known, ReadingKnown, GradeKnown

(* Steps that leave the attempts alone keep them.                          *)
LEMMA AttemptsUnchanged ==
  ASSUME UNCHANGED attempt
  PROVE  AttemptsKept
BY DEF AttemptsKept, Submitted

(* Refreshing completion_status changes nothing else.                      *)
LEMMA WithStatusType ==
  ASSUME NEW r \in Rows, NEW h
  PROVE  /\ WithStatus(r, h) \in Rows
         /\ WithStatus(r, h).status = "completed" => r.done
         /\ WithStatus(r, h).done = r.done
         /\ WithStatus(r, h).passed = r.passed
         /\ WithStatus(r, h).best = r.best
         /\ WithStatus(r, h).count = r.count
BY DeriveFacts DEF WithStatus, Rows

-----------------------------------------------------------------------------
(* Nothing is read, granted or graded at first.                            *)
LEMMA InitIInv == Init => IInv
<1> SUFFICES ASSUME Init PROVE IInv
  OBVIOUS
<1>1. TypeOK
  <2>1. NoRow \in Rows BY GradeAssumption DEF NoRow, Rows, NoScore, Statuses
  <2>2. attempt \in [AttemptIds -> Attempts] BY GradeAssumption DEF Init, Attempts
  <2>3. req \in [Callers -> Requests] BY DEF Init, Requests
  <2>4. \A c \in Callers : ~Doing(c, "submit") /\ ~Doing(c, "record")
    BY DEF Init, Doing, Idle
  <2> QED BY <2>1, <2>2, <2>3, <2>4, GradeAssumption DEF Init, TypeOK
<1>2. \A n \in Nodes : Known(n, row[n])
  BY DEF Init, Known, ReadingKnown, GradeKnown, NoRow, NoScore
<1>3. \A c \in Callers : RequestKnown(c)
  BY DEF Init, RequestKnown, Idle
<1> QED BY <1>1, <1>2, <1>3 DEF IInv, GrantNeedsReading, Init

-----------------------------------------------------------------------------
(* A request moves on to r, the others stay where they are.                *)
LEMMA ThenFacts ==
  ASSUME TypeOK, NEW c \in Callers, NEW r \in Requests, Then(c, r)
  PROVE  /\ req' \in [Callers -> Requests]
         /\ req'[c] = r
         /\ \A d \in Callers : d # c => req'[d] = req[d]
BY DEF TypeOK, Then

(* Requests in flight hold attempts that exist.                            *)
InFlight(c) == Doing(c, "submit") \/ Doing(c, "record") =>
                 attempt[req[c].attempt].status # "unused"

(* What the other requests hold still exists.                              *)
LEMMA OthersInFlight ==
  ASSUME TypeOK, NEW c \in Callers, AttemptsKept, InFlight(c)',
         \A d \in Callers : d # c => req'[d] = req[d]
  PROVE  \A d \in Callers : InFlight(d)'
<1> SUFFICES ASSUME NEW d \in Callers, d # c PROVE InFlight(d)'
  OBVIOUS
<1>1. req'[d] = req[d] /\ req[d] \in Requests /\ InFlight(d)
  BY DEF TypeOK, InFlight
<1> QED BY <1>1, RequestFields DEF InFlight, Doing, AttemptsKept

(* A returned request knows nothing and holds nothing.                     *)
LEMMA IdleFacts ==
  ASSUME NEW c \in Callers, req'[c] = Idle
  PROVE  RequestKnown(c)' /\ InFlight(c)'
BY DEF Idle, RequestKnown, InFlight, Doing

(* Idle is a request.                                                      *)
LEMMA IdleRequest == Idle \in Requests
BY DEF Requests

(* A step that only moves one request on.                                  *)
LEMMA ReadKeeps ==
  ASSUME IInv, NEW c \in Callers, NEW r \in Requests, Then(c, r),
         UNCHANGED <<content, attempt, row, grants, history>>,
         r.op \in {"submit", "record"} => attempt[r.attempt].status # "unused",
         r.op \in {"scroll", "view", "record"} => Known(r.node, r.seen),
         r.op \in {"scroll", "view", "start"} /\ r.lazy => Parent[r.node] \in finished,
         r.op = "record" => r.node = Home[attempt[r.attempt].quiz]
  PROVE  IInv'
<1>0. TypeOK BY DEF IInv
<1>1. /\ req' \in [Callers -> Requests]
      /\ req'[c] = r
      /\ \A d \in Callers : d # c => req'[d] = req[d]
  BY <1>0, ThenFacts
<1>2. AttemptsKept /\ UNCHANGED <<finished, stale>> BY AttemptsUnchanged DEF history
<1>3. InFlight(c)' BY <1>1 DEF InFlight, Doing
<1>4. \A d \in Callers : InFlight(d)' BY <1>0, <1>1, <1>2, <1>3, OthersInFlight
<1>5. TypeOK' BY <1>0, <1>1, <1>2, <1>4 DEF TypeOK, InFlight, content
<1>6. RequestKnown(c)'
  BY <1>1, <1>2 DEF RequestKnown, Known, ReadingKnown, GradeKnown, Submitted
<1>7. \A n \in Nodes : Known(n, row[n])' BY <1>2, UnwrittenStaysKnown
<1> QED BY <1>1, <1>2, <1>5, <1>6, <1>7, StepKeeps

(* A scroll loads a known row, and a lazy grant only below a read node.    *)
LEMMA ScrollReadKeeps ==
  ASSUME IInv, NEW c \in Callers, NEW n \in Nodes, NEW p \in 0..Full,
         ScrollRead(c, n, p)
  PROVE  IInv'
<1> DEFINE r == [op |-> "scroll", node |-> n, seen |-> row[n], bar |-> bar[n],
                 arg |-> p, lazy |-> LazyGrant(n)]
<1>1. r \in Requests BY DEF IInv, TypeOK, Requests, LazyGrant
<1>2. Known(n, row[n]) BY DEF IInv
<1>3. LazyGrant(n) => Parent[n] \in finished BY LazyGrantBelowRead
<1>4. Then(c, r) BY DEF ScrollRead
<1> QED BY <1>1, <1>2, <1>3, <1>4, ReadKeeps DEF ScrollRead

(* Opening the material loads a known row, too.                            *)
LEMMA ViewReadKeeps ==
  ASSUME IInv, NEW c \in Callers, NEW n \in Nodes, ViewRead(c, n)
  PROVE  IInv'
<1> DEFINE r == [op |-> "view", node |-> n, seen |-> row[n], bar |-> bar[n],
                 lazy |-> LazyGrant(n)]
<1>1. r \in Requests BY DEF IInv, TypeOK, Requests, LazyGrant
<1>2. Known(n, row[n]) BY DEF IInv
<1>3. LazyGrant(n) => Parent[n] \in finished BY LazyGrantBelowRead
<1>4. Then(c, r) BY DEF ViewRead
<1> QED BY <1>1, <1>2, <1>3, <1>4, ReadKeeps DEF ViewRead

(* Starting an attempt may leave a lazy grant pending.                     *)
LEMMA StartReadKeeps ==
  ASSUME IInv, NEW c \in Callers, NEW q \in Quizzes, StartRead(c, q)
  PROVE  IInv'
<1> DEFINE r == [op |-> "start", node |-> Home[q], quiz |-> q,
                 lazy |-> LazyGrant(Home[q])]
<1>0. Home[q] \in Nodes BY QuizAssumption
<1>1. r \in Requests BY <1>0 DEF Requests, LazyGrant
<1>3. LazyGrant(Home[q]) => Parent[Home[q]] \in finished BY <1>0, LazyGrantBelowRead
<1>4. Then(c, r) BY DEF StartRead
<1> QED BY <1>1, <1>3, <1>4, ReadKeeps DEF StartRead

(* A submission holds an attempt in use.                                   *)
LEMMA SubmitCheckKeeps ==
  ASSUME IInv, NEW c \in Callers, NEW a \in AttemptIds, SubmitCheck(c, a)
  PROVE  IInv'
<1>1. [op |-> "submit", attempt |-> a] \in Requests BY DEF Requests
<1> QED BY <1>1, ReadKeeps DEF SubmitCheck

(* A submission loads the row of the node its attempt belongs to.          *)
LEMMA SubmitRecordKeeps ==
  ASSUME IInv, NEW c \in Callers, NEW s \in 0..MaxScore, SubmitRecord(c, s)
  PROVE  IInv'
<1> DEFINE a == req[c].attempt
           n == Home[attempt[a].quiz]
           r == [op |-> "record", node |-> n, seen |-> row[n], bar |-> bar[n],
                 attempt |-> a, score |-> s]
<1>1. a \in AttemptIds /\ attempt[a].status # "unused"
  BY RequestFields DEF IInv, TypeOK, SubmitRecord, Doing
<1>2. n \in Nodes
  BY <1>1, QuizAssumption DEF IInv, TypeOK, Attempts
<1>3. r \in Requests BY <1>1, <1>2 DEF IInv, TypeOK, Requests
<1>4. Known(n, row[n]) BY <1>2 DEF IInv
<1>5. Then(c, r) BY DEF SubmitRecord
<1> HIDE DEF a, n
<1>6. Home[attempt[a].quiz] = n BY DEF n
<1> QED BY <1>1, <1>3, <1>4, <1>5, <1>6, ReadKeeps DEF SubmitRecord

(* A failed reset only moves the publication on.                           *)
LEMMA ResetFailsKeeps ==
  ASSUME IInv, NEW c \in Callers, ResetFails(c)
  PROVE  IInv'
<1> DEFINE r == [req[c] EXCEPT !.op = "grant"]
<1>1. r = [op |-> "grant", node |-> req[c].node] /\ r \in Requests
  BY RequestFields DEF IInv, TypeOK, ResetFails, Doing, Requests
<1>2. Then(c, r) BY DEF ResetFails
<1> HIDE DEF r
<1> QED BY <1>1, <1>2, ReadKeeps DEF ResetFails

(* A request that dies writes nothing.                                     *)
LEMMA RequestDiesKeeps ==
  ASSUME IInv, NEW c \in Callers, RequestDies(c)
  PROVE  IInv'
BY IdleRequest, ReadKeeps DEF RequestDies, Return, Idle

(* What is noted as stale are facts of nodes.                              *)
LEMMA SettlesTyped ==
  ASSUME IInv, NEW c, NEW n \in Nodes, NEW F, Settles(c, n, F)
  PROVE  stale' \subseteq Facts \X Nodes
<1>1. Overtaken(c) \subseteq Facts BY DEF Overtaken, Given, Facts
<1> QED BY <1>1 DEF Settles, IInv, TypeOK

-----------------------------------------------------------------------------
(* A step that writes rows and grants and returns.                         *)
LEMMA WriteReturns ==
  ASSUME IInv, NEW c \in Callers, Return(c), AttemptsKept,
         UNCHANGED content,
         attempt' \in [AttemptIds -> Attempts],
         \A a \in AttemptIds : attempt'[a].quiz = NoQuiz <=> attempt'[a].status = "unused",
         row' \in [Nodes -> Rows],
         grants' \subseteq Nodes,
         finished \subseteq finished', finished' \subseteq Nodes,
         stale' \subseteq Facts \X Nodes,
         \A n \in Nodes : Known(n, row[n])',
         \A k \in grants' : k \in grants \/ Parent[k] \in finished'
  PROVE  IInv'
<1>0. TypeOK BY DEF IInv
<1>1. /\ req' \in [Callers -> Requests]
      /\ req'[c] = Idle
      /\ \A d \in Callers : d # c => req'[d] = req[d]
  BY <1>0, IdleRequest, ThenFacts DEF Return
<1>2. RequestKnown(c)' /\ InFlight(c)' BY <1>1, IdleFacts
<1>3. \A d \in Callers : InFlight(d)' BY <1>0, <1>1, <1>2, OthersInFlight
<1>4. TypeOK' BY <1>0, <1>1, <1>3 DEF TypeOK, InFlight, content
<1> QED BY <1>1, <1>2, <1>4, StepKeeps

(* A scroll that writes completion has just finished the reading.          *)
LEMMA ScrollWriteKeeps ==
  ASSUME IInv, NEW c \in Callers, ScrollWrite(c)
  PROVE  IInv'
<1>0. PICK n \in Nodes : n = req[c].node
  BY RequestFields DEF IInv, TypeOK, ScrollWrite, Doing
<1> DEFINE seen == req[c].seen
           hasQuiz == req[c].bar # 0
           read == [seen EXCEPT !.read = req[c].arg,
                                !.done = @ \/ req[c].arg = Full]
           new == WithStatus(read, hasQuiz)
<1>1. /\ seen \in Rows /\ req[c].arg \in 0..Full
      /\ req[c].lazy \in BOOLEAN
  BY RequestFields DEF IInv, TypeOK, ScrollWrite, Doing
<1>2. Known(n, seen) /\ (req[c].lazy => Parent[n] \in finished)
  BY <1>0, <1>1 DEF IInv, RequestKnown, ScrollWrite, Doing
<1>3. Flush(n, seen, new) BY <1>0 DEF ScrollWrite
<1>4. finished' = finished \cup Given(req[c].arg = Full, {n})
  BY <1>0 DEF ScrollWrite
<1>5. AttemptsKept BY AttemptsUnchanged DEF ScrollWrite
<1>6. finished \subseteq finished' /\ finished' \subseteq Nodes
  BY <1>1, <1>4 DEF Given, IInv, TypeOK
<1>7. read \in Rows BY <1>1 DEF Rows
<1>8. MayWrite(n, new)
  <2>1. read.done = (seen.done \/ req[c].arg = Full) /\ read.passed = seen.passed
          /\ read.best = seen.best /\ read.count = seen.count
    BY <1>1 DEF Rows
  <2>2. read.done => n \in finished'
    BY <1>2, <1>4, <2>1 DEF Known, ReadingKnown, Given
  <2>3. seen.passed \/ seen.best # NoScore \/ seen.count > 0 => Submitted(n)' # {}
    BY <1>1, <1>2, <1>5 DEF Known, GradeKnown, AttemptsKept
  <2> HIDE DEF read, seen
  <2> QED BY <1>7, <2>1, <2>2, <2>3, WithStatusType DEF MayWrite
<1> HIDE DEF new, read
<1>9. row' \in [Nodes -> Rows] /\ \A m \in Nodes : Known(m, row[m])'
  BY <1>1, <1>3, <1>5, <1>6, <1>8, FlushKeepsKnown
<1>10. row'[n].status = "completed" => n \in finished'
  BY <1>1, <1>9 DEF Known, ReadingKnown
<1>11. \A k \in grants' : k \in Nodes /\ (k \in grants \/ Parent[k] \in finished')
  BY <1>0, <1>1, <1>2, <1>6, <1>10, EligibleBelow DEF ScrollWrite, Given, IInv, TypeOK
<1>20. stale' \subseteq Facts \X Nodes
  BY <1>0, SettlesTyped DEF ScrollWrite
<1> QED BY <1>5, <1>6, <1>9, <1>11, <1>20, WriteReturns DEF ScrollWrite, IInv, TypeOK

(* Opening the material refreshes the status of a known row.               *)
LEMMA ViewWriteKeeps ==
  ASSUME IInv, NEW c \in Callers, ViewWrite(c)
  PROVE  IInv'
<1>0. PICK n \in Nodes : n = req[c].node
  BY RequestFields DEF IInv, TypeOK, ViewWrite, Doing
<1> DEFINE seen == req[c].seen
           new == WithStatus(seen, req[c].bar # 0)
<1>1. seen \in Rows /\ req[c].lazy \in BOOLEAN
  BY RequestFields DEF IInv, TypeOK, ViewWrite, Doing
<1>2. Known(n, seen) /\ (req[c].lazy => Parent[n] \in finished)
  BY <1>0, <1>1 DEF IInv, RequestKnown, ViewWrite, Doing
<1>3. Flush(n, seen, new) BY <1>0 DEF ViewWrite
<1>5. AttemptsKept BY AttemptsUnchanged DEF ViewWrite
<1>6. finished' = finished /\ finished' \subseteq Nodes
  BY DEF ViewWrite, IInv, TypeOK
<1>8. MayWrite(n, new)
  <2>1. seen.done => n \in finished'
    BY <1>2, <1>6 DEF Known, ReadingKnown
  <2>2. seen.passed \/ seen.best # NoScore \/ seen.count > 0 => Submitted(n)' # {}
    BY <1>1, <1>2, <1>5 DEF Known, GradeKnown, AttemptsKept
  <2> HIDE DEF seen
  <2> QED BY <1>1, <2>1, <2>2, WithStatusType DEF MayWrite
<1> HIDE DEF new
<1>9. row' \in [Nodes -> Rows] /\ \A m \in Nodes : Known(m, row[m])'
  BY <1>1, <1>3, <1>5, <1>6, <1>8, FlushKeepsKnown
<1>11. \A k \in grants' : k \in Nodes /\ (k \in grants \/ Parent[k] \in finished')
  BY <1>0, <1>1, <1>2, <1>6 DEF ViewWrite, Given, IInv, TypeOK
<1>20. stale' \subseteq Facts \X Nodes
  BY <1>0, SettlesTyped DEF ViewWrite
<1> QED BY <1>5, <1>6, <1>9, <1>11, <1>20, WriteReturns DEF ViewWrite, IInv, TypeOK

(* A new attempt takes an unused identifier.                               *)
LEMMA StartCreateKeeps ==
  ASSUME IInv, NEW c \in Callers, NEW a \in AttemptIds, StartCreate(c, a)
  PROVE  IInv'
<1>1. req[c].node \in Nodes /\ req[c].quiz \in Quizzes /\ req[c].lazy \in BOOLEAN
  BY RequestFields DEF IInv, TypeOK, StartCreate, history, Doing
<1>2. req[c].lazy => Parent[req[c].node] \in finished
  BY DEF IInv, RequestKnown, StartCreate, history, Doing
<1>3. attempt \in [AttemptIds -> Attempts] BY DEF IInv, TypeOK
<1>4. attempt' \in [AttemptIds -> Attempts]
  BY <1>1, <1>3, GradeAssumption DEF StartCreate, history, Attempts
<1>5. \A b \in AttemptIds : attempt'[b].quiz = NoQuiz <=> attempt'[b].status = "unused"
  BY <1>1, <1>3, QuizAssumption DEF StartCreate, history, IInv, TypeOK
<1>6. AttemptsKept BY <1>3 DEF StartCreate, history, AttemptsKept, Submitted
<1>7. finished' = finished /\ finished' \subseteq Nodes
  BY DEF StartCreate, history, IInv, TypeOK
<1>8. \A n \in Nodes : Known(n, row[n])'
  BY <1>6, <1>7, UnwrittenStaysKnown DEF StartCreate, history
<1>9. \A k \in grants' : k \in Nodes /\ (k \in grants \/ Parent[k] \in finished')
  BY <1>1, <1>2, <1>7 DEF StartCreate, history, Given, IInv, TypeOK
<1> QED BY <1>4, <1>5, <1>6, <1>7, <1>8, <1>9, WriteReturns DEF StartCreate, history, IInv, TypeOK

(* Grading a row keeps its type and its reading.                           *)
LEMMA GradedType ==
  ASSUME NEW seen \in Rows, NEW s \in 0..MaxScore, NEW t \in 0..MaxScore
  PROVE  Graded(seen, s, t) \in Rows /\ Graded(seen, s, t).done = seen.done
<1> DEFINE best == Better(seen.best, s)
           passed == seen.passed \/ MeetsBar(best, t)
<1>1. best \in NoScore..MaxScore
  BY GradeAssumption DEF Better, Rows, NoScore
<1>2. passed \in BOOLEAN
  BY DEF MeetsBar, Rows
<1> DEFINE count == seen.count + 1
<1>3. count \in Nat BY DEF Rows
<1>4. Graded(seen, s, t) = [seen EXCEPT !.best = best, !.count = count, !.passed = passed]
  BY DEF Graded, Rows
<1> HIDE DEF best, passed, count
<1> QED BY <1>1, <1>2, <1>3, <1>4 DEF Rows

(* A submission grades a row at whose node it is itself submitted.         *)
LEMMA SubmitWriteKeeps ==
  ASSUME IInv, NEW c \in Callers, SubmitWrite(c)
  PROVE  IInv'
<1>0. PICK n \in Nodes : n = req[c].node
  BY RequestFields DEF IInv, TypeOK, SubmitWrite, Doing
<1> DEFINE seen == req[c].seen
           a == req[c].attempt
           hasQuiz == req[c].bar # 0
           graded == Graded(seen, req[c].score, req[c].bar)
           new == WithStatus(graded, hasQuiz)
<1>1. /\ seen \in Rows /\ a \in AttemptIds
      /\ req[c].score \in 0..MaxScore /\ req[c].bar \in 0..MaxScore
  BY RequestFields DEF IInv, TypeOK, SubmitWrite, Doing
<1>2. Known(n, seen) /\ n = Home[attempt[a].quiz] /\ attempt[a].status # "unused"
  BY <1>0, <1>1 DEF IInv, TypeOK, RequestKnown, SubmitWrite, Doing
<1>3. Flush(n, seen, new) BY <1>0 DEF SubmitWrite
<1>4. attempt \in [AttemptIds -> Attempts] BY DEF IInv, TypeOK
<1>5. attempt' = [attempt EXCEPT ![a].status = "submitted", ![a].score = req[c].score]
  BY DEF SubmitWrite
<1>6. /\ attempt' \in [AttemptIds -> Attempts]
      /\ attempt'[a].status = "submitted"
      /\ \A b \in AttemptIds : attempt'[b].quiz = attempt[b].quiz
                                 /\ (b # a => attempt'[b] = attempt[b])
  BY <1>1, <1>4, <1>5 DEF Attempts
<1>7. AttemptsKept /\ a \in Submitted(n)'
  BY <1>1, <1>2, <1>6 DEF AttemptsKept, Submitted
<1>8. \A b \in AttemptIds : attempt'[b].quiz = NoQuiz <=> attempt'[b].status = "unused"
  BY <1>1, <1>2, <1>6 DEF IInv, TypeOK
<1>9. finished' = finished /\ finished' \subseteq Nodes
  BY DEF SubmitWrite, IInv, TypeOK
<1>10. graded \in Rows /\ graded.done = seen.done
  BY <1>1, GradedType
<1>11. MayWrite(n, new)
  <2>1. seen.done => n \in finished'
    BY <1>2, <1>9 DEF Known, ReadingKnown
  <2> HIDE DEF graded, seen
  <2> QED BY <1>7, <1>10, <2>1, WithStatusType DEF MayWrite
<1>12. new.status = "completed" => n \in finished
  BY <1>9, <1>11 DEF MayWrite
<1> HIDE DEF new, graded
<1>13. row' \in [Nodes -> Rows] /\ \A m \in Nodes : Known(m, row[m])'
  BY <1>1, <1>3, <1>7, <1>9, <1>11, FlushKeepsKnown
<1>14. grants' = grants \cup Given(new.status = "completed"
                     /\ Derive(seen, hasQuiz) # "completed", Eligible(n))
  BY <1>0 DEF SubmitWrite, new, graded
<1>15. \A k \in grants' : k \in Nodes /\ (k \in grants \/ Parent[k] \in finished')
  BY <1>9, <1>12, <1>14, EligibleBelow DEF Given, IInv, TypeOK
<1>20. stale' \subseteq Facts \X Nodes
  BY <1>0, SettlesTyped DEF SubmitWrite
<1> QED BY <1>6, <1>7, <1>8, <1>9, <1>13, <1>15, <1>20, WriteReturns DEF SubmitWrite, IInv, TypeOK

(* The grants after a publication follow the completion of the parent.     *)
LEMMA GrantAfterPublishKeeps ==
  ASSUME IInv, NEW c \in Callers, GrantAfterPublish(c)
  PROVE  IInv'
<1> DEFINE n == req[c].node
<1>1. AttemptsKept BY AttemptsUnchanged DEF GrantAfterPublish, history
<1>2. finished' = finished BY DEF GrantAfterPublish, history
<1>3. \A m \in Nodes : Known(m, row[m])'
  BY <1>1, <1>2, UnwrittenStaysKnown DEF GrantAfterPublish, history
<1>4. Gated(n) /\ Complete(Parent[n]) => Parent[n] \in finished
  BY CompleteWasRead DEF Gated, IInv, TypeOK
<1>5. \A k \in grants' : k \in Nodes /\ (k \in grants \/ Parent[k] \in finished')
  BY <1>2, <1>4, EligibleBelow DEF GrantAfterPublish, history, IInv, TypeOK
<1> QED BY <1>1, <1>2, <1>3, <1>5, WriteReturns DEF GrantAfterPublish, history, IInv, TypeOK

(* The second commit of an unpublication relies on the reading alone.      *)
LEMMA SyncUnpublishedKeeps ==
  ASSUME IInv, NEW c \in Callers, SyncUnpublished(c)
  PROVE  IInv'
<1>1. PICK n \in Nodes : n = req[c].node
  BY RequestFields DEF IInv, TypeOK, SyncUnpublished, Doing
<1> DEFINE new == ReadingOnly(row[n])
<1>2. AttemptsKept BY AttemptsUnchanged DEF SyncUnpublished
<1>3. finished' = finished BY DEF SyncUnpublished
<1>4. MayWrite(n, new)
  <2>1. row[n] \in Rows /\ Known(n, row[n]) BY <1>1 DEF IInv, TypeOK
  <2>2. new \in Rows /\ new.done = row[n].done
          /\ (new.status = "completed" => row[n].done)
          /\ new.passed = row[n].passed /\ new.best = row[n].best
          /\ new.count = row[n].count
    BY <2>1 DEF ReadingOnly, Rows, Statuses
  <2>3. Submitted(n) \subseteq Submitted(n)' BY <1>1, <1>2 DEF AttemptsKept
  <2> HIDE DEF new
  <2> QED BY <1>3, <2>1, <2>2, <2>3 DEF MayWrite, Known, ReadingKnown, GradeKnown
<1>5. BulkUpdate(n, new) BY <1>1 DEF SyncUnpublished
<1> HIDE DEF new
<1>6. row' \in [Nodes -> Rows] /\ \A m \in Nodes : Known(m, row[m])'
  BY <1>1, <1>2, <1>3, <1>4, <1>5, BulkKeepsKnown
<1>7. \A k \in grants' : k \in Nodes /\ (k \in grants \/ Parent[k] \in finished')
  BY <1>1, <1>3, CompleteWasRead, EligibleBelow DEF SyncUnpublished, Given, IInv, TypeOK
<1>20. stale' \subseteq Facts \X Nodes
  BY <1>1, SettlesTyped DEF SyncUnpublished
<1> QED BY <1>2, <1>3, <1>6, <1>7, <1>20, WriteReturns DEF SyncUnpublished, IInv, TypeOK

-----------------------------------------------------------------------------
(* A mentor's step: it may change content, and leaves its own request      *)
(* with nothing to write back.                                             *)
LEMMA MentorKeeps ==
  ASSUME IInv, NEW c \in Callers, NEW r \in Requests, Then(c, r),
         r.op \in {"idle", "reset", "grant", "sync"},
         material' \subseteq Nodes,
         live' \in [Nodes -> Quizzes \cup {NoQuiz}],
         bar' \in [Nodes -> 0..MaxScore],
         \A n \in Nodes : live'[n] = NoQuiz <=> bar'[n] = 0,
         AttemptsKept,
         attempt' \in [AttemptIds -> Attempts],
         \A a \in AttemptIds : attempt'[a].quiz = NoQuiz <=> attempt'[a].status = "unused",
         UNCHANGED finished, stale' \subseteq Facts \X Nodes,
         row' \in [Nodes -> Rows] /\ \A n \in Nodes : Known(n, row[n])',
         \A k \in grants' : k \in Nodes /\ (k \in grants \/ Parent[k] \in finished)
  PROVE  IInv'
<1>0. TypeOK BY DEF IInv
<1>1. /\ req' \in [Callers -> Requests]
      /\ req'[c] = r
      /\ \A d \in Callers : d # c => req'[d] = req[d]
  BY <1>0, ThenFacts
<1>2. RequestKnown(c)' /\ InFlight(c)' BY <1>1 DEF RequestKnown, InFlight, Doing
<1>3. \A d \in Callers : InFlight(d)' BY <1>0, <1>1, <1>2, OthersInFlight
<1>4. TypeOK' BY <1>0, <1>1, <1>3 DEF TypeOK, InFlight
<1> QED BY <1>1, <1>2, <1>4, StepKeeps

(* A caller that stays idle.                                               *)
LEMMA StaysIdle ==
  ASSUME IInv, NEW c \in Callers, IdleCaller(c), UNCHANGED req
  PROVE  Then(c, Idle)
BY DEF IInv, TypeOK, Then, IdleCaller

(* A lazy grant committed alone keeps the invariant.                       *)
LEMMA VisitKeeps ==
  ASSUME IInv, NEW c \in Callers, NEW n \in Nodes, Visit(c, n)
  PROVE  IInv'
<1>1. Then(c, Idle) BY StaysIdle DEF Visit, history
<1>2. AttemptsKept BY AttemptsUnchanged DEF Visit, history
<1>3. \A m \in Nodes : Known(m, row[m])' BY <1>2, UnwrittenStaysKnown DEF Visit, history
<1>4. \A k \in grants' : k \in Nodes /\ (k \in grants \/ Parent[k] \in finished)
  BY LazyGrantBelowRead DEF Visit, history, IInv, TypeOK
<1> QED BY <1>1, <1>2, <1>3, <1>4, IdleRequest, MentorKeeps
        DEF Visit, history, Idle, content, IInv, TypeOK

(* Publishing material touches no row and no grant.                        *)
LEMMA PublishMaterialKeeps ==
  ASSUME IInv, NEW c \in Callers, NEW n \in Nodes, PublishMaterial(c, n)
  PROVE  IInv'
<1> DEFINE r == [op |-> IF n \in material THEN "reset" ELSE "grant", node |-> n]
<1>1. r \in Requests /\ r.op \in {"idle", "reset", "grant", "sync"} BY DEF Requests
<1>2. Then(c, r) BY DEF PublishMaterial, history
<1> HIDE DEF r
<1>3. AttemptsKept BY AttemptsUnchanged DEF PublishMaterial, history
<1>4. \A m \in Nodes : Known(m, row[m])'
  BY <1>3, UnwrittenStaysKnown DEF PublishMaterial, history
<1> QED BY <1>1, <1>2, <1>3, <1>4, MentorKeeps DEF PublishMaterial, history, IInv, TypeOK

(* Unpublishing material touches no row and no grant.                      *)
LEMMA UnpublishMaterialKeeps ==
  ASSUME IInv, NEW c \in Callers, NEW n \in Nodes, UnpublishMaterial(c, n)
  PROVE  IInv'
<1>1. Then(c, Idle) BY StaysIdle DEF UnpublishMaterial, history
<1>2. AttemptsKept BY AttemptsUnchanged DEF UnpublishMaterial, history
<1>3. \A m \in Nodes : Known(m, row[m])'
  BY <1>2, UnwrittenStaysKnown DEF UnpublishMaterial, history
<1> QED BY <1>1, <1>2, <1>3, IdleRequest, MentorKeeps
        DEF UnpublishMaterial, history, Idle, IInv, TypeOK

(* A recomputed row that claims no more than the stored one, apart from a  *)
(* completion that the reading supports, may be written.                   *)
LEMMA RecomputedMayWrite ==
  ASSUME IInv, NEW n \in Nodes, NEW new \in Rows,
         AttemptsKept, UNCHANGED finished,
         new.done => row[n].done,
         new.status = "completed" => row[n].done,
         new.passed => row[n].passed \/ row[n].best # NoScore,
         new.best = row[n].best, new.count = row[n].count
  PROVE  MayWrite(n, new)
<1>1. Known(n, row[n]) BY DEF IInv
<1>2. Submitted(n) \subseteq Submitted(n)' BY DEF AttemptsKept
<1> QED BY <1>1, <1>2 DEF MayWrite, Known, ReadingKnown, GradeKnown

(* Resetting the reading of a superseded material.                         *)
LEMMA ResetReadKeeps ==
  ASSUME IInv, NEW c \in Callers, ResetRead(c)
  PROVE  IInv'
<1>1. PICK n \in Nodes : n = req[c].node
  BY RequestFields DEF IInv, TypeOK, ResetRead, Doing
<1> DEFINE new == Unread(row[n])
           r == [req[c] EXCEPT !.op = "grant"]
<1>2. r = [op |-> "grant", node |-> req[c].node] /\ r \in Requests
  BY RequestFields DEF IInv, TypeOK, ResetRead, Doing, Requests
<1>3. Then(c, r) BY DEF ResetRead
<1> HIDE DEF r
<1>4. AttemptsKept BY AttemptsUnchanged DEF ResetRead
<1>5. row[n] \in Rows BY DEF IInv, TypeOK
<1>6. /\ new \in Rows /\ ~new.done /\ new.status # "completed"
      /\ new.passed = row[n].passed
      /\ new.best = row[n].best /\ new.count = row[n].count
  <2> DEFINE status == IF row[n].count > 0 THEN "in_progress" ELSE "not_started"
  <2>1. status \in Statuses /\ status # "completed" BY DEF Statuses
  <2>2. 0 \in 0..Full BY GradeAssumption
  <2>3. new = [row[n] EXCEPT !.read = 0, !.done = FALSE, !.status = status]
    BY DEF Unread
  <2> HIDE DEF status, new
  <2> QED BY <1>5, <2>1, <2>2, <2>3 DEF Rows
<1>7. BulkUpdate(n, new) BY <1>1 DEF ResetRead
<1> HIDE DEF new
<1>8. MayWrite(n, new)
  <2>1. Known(n, row[n]) BY DEF IInv
  <2>2. Submitted(n) \subseteq Submitted(n)' BY <1>4 DEF AttemptsKept
  <2> QED BY <1>6, <2>1, <2>2 DEF MayWrite, Known, GradeKnown
<1>9. row' \in [Nodes -> Rows] /\ \A m \in Nodes : Known(m, row[m])'
  BY <1>4, <1>7, <1>8, BulkKeepsKnown DEF ResetRead
<1>10. \A k \in grants' : k \in Nodes /\ (k \in grants \/ Parent[k] \in finished)
  BY DEF ResetRead, IInv, TypeOK
<1>20. stale' \subseteq Facts \X Nodes
  BY <1>1, SettlesTyped DEF ResetRead
<1> QED BY <1>2, <1>3, <1>4, <1>9, <1>10, <1>20, MentorKeeps
        DEF ResetRead, content, IInv, TypeOK

(* Publishing a quiz abandons attempts in progress and takes passes away.  *)
LEMMA PublishQuizKeeps ==
  ASSUME IInv, NEW c \in Callers, NEW q \in Quizzes, NEW t \in 1..MaxScore,
         PublishQuiz(c, q, t)
  PROVE  IInv'
<1>1. PICK n \in Nodes : n = Home[q] BY QuizAssumption
<1> DEFINE new == Unpassed(row[n])
<1>2. Then(c, Idle) BY StaysIdle DEF PublishQuiz
<1>3. attempt \in [AttemptIds -> Attempts] BY DEF IInv, TypeOK
<1>4. attempt' = [a \in AttemptIds |->
        IF a \in SwappedOut(n) THEN [attempt[a] EXCEPT !.status = "abandoned"]
        ELSE attempt[a]]
  BY <1>1 DEF PublishQuiz
<1>5. \A a \in SwappedOut(n) : attempt[a].status = "in_progress" BY DEF SwappedOut
<1>6. /\ attempt' \in [AttemptIds -> Attempts]
      /\ \A a \in AttemptIds :
           /\ attempt'[a].quiz = attempt[a].quiz
           /\ attempt'[a].status = "unused" <=> attempt[a].status = "unused"
           /\ attempt[a].status = "submitted" => attempt'[a].status = "submitted"
  BY <1>3, <1>4, <1>5 DEF Attempts
<1>7. AttemptsKept BY <1>6 DEF AttemptsKept, Submitted
<1>8. row[n] \in Rows BY DEF IInv, TypeOK
<1>9. /\ new \in Rows /\ new.done = row[n].done /\ new.status # "completed"
      /\ ~new.passed /\ new.best = row[n].best /\ new.count = row[n].count
  BY <1>8 DEF Unpassed, Rows, Statuses
<1>10. BulkUpdate(n, new) BY <1>1 DEF PublishQuiz
<1> HIDE DEF new
<1>11. finished' = finished BY DEF PublishQuiz
<1>12. MayWrite(n, new) BY <1>7, <1>9, <1>11, RecomputedMayWrite
<1>13. row' \in [Nodes -> Rows] /\ \A m \in Nodes : Known(m, row[m])'
  BY <1>7, <1>10, <1>11, <1>12, BulkKeepsKnown
<1>14. live' = [live EXCEPT ![n] = q] /\ bar' = [bar EXCEPT ![n] = t]
  BY <1>1 DEF PublishQuiz
<1>15. /\ live' \in [Nodes -> Quizzes \cup {NoQuiz}]
       /\ bar' \in [Nodes -> 0..MaxScore]
       /\ \A m \in Nodes : live'[m] = NoQuiz <=> bar'[m] = 0
  <2>1. t \in 0..MaxScore /\ t # 0 /\ q # NoQuiz BY QuizAssumption
  <2> QED BY <1>14, <2>1 DEF IInv, TypeOK
<1>16. \A a \in AttemptIds : attempt'[a].quiz = NoQuiz <=> attempt'[a].status = "unused"
  BY <1>6 DEF IInv, TypeOK
<1>17. \A k \in grants' : k \in Nodes /\ (k \in grants \/ Parent[k] \in finished)
  BY DEF PublishQuiz, IInv, TypeOK
<1>18. material' \subseteq Nodes BY DEF PublishQuiz, IInv, TypeOK
<1>20. stale' \subseteq Facts \X Nodes
  BY <1>1, SettlesTyped DEF PublishQuiz
<1> QED BY <1>2, <1>6, <1>7, <1>11, <1>13, <1>15, <1>16, <1>17, <1>18,
           <1>20, IdleRequest, MentorKeeps DEF Idle

(* Re-evaluating quiz_passed from the best score under a new threshold.    *)
LEMMA SetThresholdKeeps ==
  ASSUME IInv, NEW c \in Callers, NEW n \in Nodes, NEW t \in 1..MaxScore,
         SetThreshold(c, n, t)
  PROVE  IInv'
<1> DEFINE new == Regraded(row[n], t)
<1>1. Then(c, Idle) BY StaysIdle DEF SetThreshold
<1>2. AttemptsKept /\ finished' = finished BY AttemptsUnchanged DEF SetThreshold
<1>3. row[n] \in Rows BY DEF IInv, TypeOK
<1>4. /\ new \in Rows /\ new.done = row[n].done
      /\ new.status = "completed" => row[n].done
      /\ new.passed => row[n].best # NoScore
      /\ new.best = row[n].best /\ new.count = row[n].count
  BY <1>3 DEF Regraded, MeetsBar, Rows, Statuses
<1>5. BulkUpdate(n, new) BY DEF SetThreshold
<1> HIDE DEF new
<1>6. MayWrite(n, new) BY <1>2, <1>4, RecomputedMayWrite
<1>7. row' \in [Nodes -> Rows] /\ \A m \in Nodes : Known(m, row[m])'
  BY <1>2, <1>5, <1>6, BulkKeepsKnown
<1>8. Derive(row'[n], TRUE) = "completed" => n \in finished
  BY <1>2, <1>7, DeriveFacts DEF Known, ReadingKnown
<1>9. \A k \in grants' : k \in Nodes /\ (k \in grants \/ Parent[k] \in finished)
  <2>1. grants' = grants \cup Given(Derive(row'[n], TRUE) = "completed", Eligible(n))
    BY DEF SetThreshold
  <2>2. grants \subseteq Nodes BY DEF IInv, TypeOK
  <2> QED BY <1>8, <2>1, <2>2, EligibleBelow DEF Given
<1>10. /\ bar' \in [Nodes -> 0..MaxScore]
       /\ \A m \in Nodes : live'[m] = NoQuiz <=> bar'[m] = 0
  <2>1. t \in 0..MaxScore /\ t # 0 OBVIOUS
  <2> QED BY <2>1 DEF SetThreshold, IInv, TypeOK
<1>20. stale' \subseteq Facts \X Nodes
  BY SettlesTyped DEF SetThreshold
<1> QED BY <1>1, <1>2, <1>7, <1>9, <1>10, <1>20, IdleRequest, MentorKeeps
        DEF SetThreshold, Idle, IInv, TypeOK

(* Unpublishing a quiz, before its second commit.                          *)
LEMMA UnpublishQuizKeeps ==
  ASSUME IInv, NEW c \in Callers, NEW n \in Nodes, UnpublishQuiz(c, n)
  PROVE  IInv'
<1> DEFINE r == [op |-> "sync", node |-> n]
<1>1. r \in Requests /\ r.op = "sync" BY DEF Requests
<1>2. Then(c, r) BY DEF UnpublishQuiz, history
<1> HIDE DEF r
<1>3. AttemptsKept BY AttemptsUnchanged DEF UnpublishQuiz, history
<1>4. \A m \in Nodes : Known(m, row[m])'
  BY <1>3, UnwrittenStaysKnown DEF UnpublishQuiz, history
<1>5. /\ live' \in [Nodes -> Quizzes \cup {NoQuiz}]
      /\ bar' \in [Nodes -> 0..MaxScore]
      /\ \A m \in Nodes : live'[m] = NoQuiz <=> bar'[m] = 0
  BY GradeAssumption DEF UnpublishQuiz, history, IInv, TypeOK
<1> QED BY <1>1, <1>2, <1>3, <1>4, <1>5, MentorKeeps DEF UnpublishQuiz, history, IInv, TypeOK

-----------------------------------------------------------------------------
(* A step that changes nothing.                                            *)
LEMMA StutterKeeps == IInv /\ UNCHANGED vars => IInv'
BY DEF IInv, TypeOK, GrantNeedsReading, Known, ReadingKnown, GradeKnown,
       Submitted, RequestKnown, Doing, vars, content, history

(* Every step, of the trainee, of a mentor or a failure, keeps IInv.       *)
LEMMA NextKeeps == IInv /\ [Next]_vars => IInv'
<1> SUFFICES ASSUME IInv, [Next]_vars PROVE IInv'
  OBVIOUS
<1>1. CASE UNCHANGED vars BY <1>1, StutterKeeps
<1>2. ASSUME NEW c \in Callers, TraineeStep(c) PROVE IInv'
  <2>1. ASSUME NEW n \in Nodes, NEW p \in 0..Full, ScrollRead(c, n, p) PROVE IInv'
    BY <2>1, ScrollReadKeeps
  <2>2. ASSUME NEW n \in Nodes, ViewRead(c, n) PROVE IInv'
    BY <2>2, ViewReadKeeps
  <2>3. ASSUME NEW n \in Nodes, Visit(c, n) PROVE IInv'
    BY <2>3, VisitKeeps
  <2>4. ASSUME NEW q \in Quizzes, StartRead(c, q) PROVE IInv'
    BY <2>4, StartReadKeeps
  <2>5. ASSUME NEW a \in AttemptIds, StartCreate(c, a) \/ SubmitCheck(c, a) PROVE IInv'
    BY <2>5, StartCreateKeeps, SubmitCheckKeeps
  <2>6. ASSUME NEW s \in 0..MaxScore, SubmitRecord(c, s) PROVE IInv'
    BY <2>6, SubmitRecordKeeps
  <2>7. CASE ScrollWrite(c) BY <2>7, ScrollWriteKeeps
  <2>8. CASE ViewWrite(c) BY <2>8, ViewWriteKeeps
  <2>9. CASE SubmitWrite(c) BY <2>9, SubmitWriteKeeps
  <2> QED BY <1>2, <2>1, <2>2, <2>3, <2>4, <2>5, <2>6, <2>7, <2>8, <2>9 DEF TraineeStep
<1>3. ASSUME NEW c \in Callers, MentorStep(c) PROVE IInv'
  <2>1. ASSUME NEW n \in Nodes, PublishMaterial(c, n) PROVE IInv'
    BY <2>1, PublishMaterialKeeps
  <2>2. ASSUME NEW n \in Nodes, UnpublishMaterial(c, n) PROVE IInv'
    BY <2>2, UnpublishMaterialKeeps
  <2>3. ASSUME NEW n \in Nodes, NEW t \in 1..MaxScore, SetThreshold(c, n, t) PROVE IInv'
    BY <2>3, SetThresholdKeeps
  <2>4. ASSUME NEW n \in Nodes, UnpublishQuiz(c, n) PROVE IInv'
    BY <2>4, UnpublishQuizKeeps
  <2>5. ASSUME NEW q \in Quizzes, NEW t \in 1..MaxScore, PublishQuiz(c, q, t) PROVE IInv'
    BY <2>5, PublishQuizKeeps
  <2>6. CASE ResetRead(c) BY <2>6, ResetReadKeeps
  <2>7. CASE ResetFails(c) BY <2>7, ResetFailsKeeps
  <2>8. CASE GrantAfterPublish(c) BY <2>8, GrantAfterPublishKeeps
  <2>9. CASE SyncUnpublished(c) BY <2>9, SyncUnpublishedKeeps
  <2> QED BY <1>3, <2>1, <2>2, <2>3, <2>4, <2>5, <2>6, <2>7, <2>8, <2>9 DEF MentorStep
<1>4. ASSUME NEW c \in Callers, RequestDies(c) PROVE IInv'
  BY <1>4, RequestDiesKeeps
<1> QED BY <1>1, <1>2, <1>3, <1>4 DEF Next

(* The inductive invariant: whatever a request has read, however long ago, *)
(* what it may write back was once true, because readings once finished    *)
(* and attempts once submitted stay so.                                    *)
THEOREM ProgressInvariance == Spec => []IInv
BY InitIInv, NextKeeps, PTL DEF Spec

(* Rows, requests and content keep their types; the threshold column is    *)
(* set exactly while a quiz is published on the node.                      *)
THEOREM ProgressTypes == Spec => []TypeOK
<1>1. IInv => TypeOK BY DEF IInv
<1> QED BY <1>1, ProgressInvariance, PTL

(* For any tree and any number of concurrent requests, a durable unlock is *)
(* written only below a node whose material was once read in full, in      *)
(* spite of resets, quiz swaps, threshold changes and lost updates.        *)
THEOREM UnlockingIsEarned == Spec => []GrantNeedsReading
<1>1. IInv => GrantNeedsReading BY DEF IInv
<1> QED BY <1>1, ProgressInvariance, PTL

(* A progress row carries a grade only if an attempt was submitted at a    *)
(* quiz of that node: neither a bulk recomputation nor a stale write back  *)
(* invents one.                                                            *)
THEOREM GradesAreEarned == Spec => []GradeNeedsAttempt
<1>1. IInv => GradeNeedsAttempt
  BY DEF IInv, Known, GradeKnown, GradeNeedsAttempt
<1> QED BY <1>1, ProgressInvariance, PTL

-----------------------------------------------------------------------------
(* What the rows say, and which writes have been overtaken                 *)

(* The parts of the invariant of the rows that concern one node.           *)
RowTrue(n) ==
  /\ <<"ledger", n>> \notin stale => Ledger(n)
  /\ <<"pass", n>> \notin stale =>
       (live[n] # NoQuiz /\ row[n].passed => row[n].best >= bar[n])
  /\ <<"status", n>> \notin stale => (row[n].status = "completed" => Complete(n))
  /\ IsFiniteSet(Submitted(n))
  /\ row[n].status = "absent" => ~row[n].passed

LEMMA RowByRow ==
  RowIInv <=> /\ IInv
              /\ \A n \in Nodes : RowTrue(n)
              /\ \A c \in Callers : Loaded(c)
BY DEF RowIInv, RowTrue, LedgerAgrees, PassedMeetsBar, CachedNeverOverclaims

(* What happened at the other nodes.                                       *)
OnlyAt(n) ==
  \A m \in Nodes \ {n} :
    /\ row'[m] = row[m]
    /\ live'[m] = live[m]
    /\ bar'[m] = bar[m]
    /\ Submitted(m)' = Submitted(m)
    /\ \A a \in Submitted(m) : attempt'[a].score = attempt[a].score

\* Nothing becomes up to date at the other nodes.
StaleElsewhere(n) ==
  \A m \in Nodes \ {n} : \A f : <<f, m>> \in stale => <<f, m>> \in stale'

\* A row once written stays.
RowsStay ==
  \A m \in Nodes : row[m].status # "absent" => row'[m].status # "absent"

(* A step that writes one node.                                            *)
LEMMA OneNodeKeeps ==
  ASSUME RowIInv, IInv', NEW c \in Callers, NEW n \in Nodes,
         OnlyAt(n), StaleElsewhere(n), RowsStay,
         RowTrue(n)',
         Loaded(c)',
         \A d \in Callers : d # c => req'[d] = req[d]
  PROVE  RowIInv'
<1>1. ASSUME NEW m \in Nodes PROVE RowTrue(m)'
  <2>1. CASE m = n
    BY <2>1
  <2>2. CASE m # n
    <3>1. RowTrue(m)
      BY RowByRow
    <3>2. /\ row'[m] = row[m] /\ live'[m] = live[m] /\ bar'[m] = bar[m]
          /\ Submitted(m)' = Submitted(m)
          /\ \A a \in Submitted(m) : attempt'[a].score = attempt[a].score
      BY <2>2 DEF OnlyAt
    <3>3. \A f : <<f, m>> \notin stale' => <<f, m>> \notin stale
      BY <2>2 DEF StaleElsewhere
    <3>4. Complete(m)' <=> Complete(m)
      BY <3>2 DEF Complete
    <3>5. Ledger(m) => Ledger(m)'
      BY <3>2 DEF Ledger
    <3> QED BY <3>1, <3>2, <3>3, <3>4, <3>5 DEF RowTrue
  <2> QED BY <2>1, <2>2
<1>2. ASSUME NEW d \in Callers PROVE Loaded(d)'
  <2>1. CASE d = c
    BY <2>1
  <2>2. CASE d # c
    <3>1. req'[d] = req[d] /\ Loaded(d) /\ req[d] \in Requests
      BY <2>2 DEF RowIInv, IInv, TypeOK
    <3>2. req[d].op \in {"scroll", "view", "record"} => req[d].node \in Nodes
      BY <3>1, RequestFields
    <3> QED BY <3>1, <3>2 DEF Loaded, RowsStay
  <2> QED BY <2>1, <2>2
<1> QED BY <1>1, <1>2
        DEF RowIInv, RowTrue, LedgerAgrees, PassedMeetsBar, CachedNeverOverclaims

(* What is up to date after a write of c to the row of n.                  *)
LEMMA UpToDate ==
  ASSUME NEW c, NEW n, NEW F, Settles(c, n, F), NEW f, <<f, n>> \notin stale'
  PROVE  f \notin Overtaken(c) /\ (f \notin F => <<f, n>> \notin stale)
BY DEF Settles

LEMMA SettlesHere ==
  ASSUME NEW c, NEW n, NEW F, Settles(c, n, F)
  PROVE  StaleElsewhere(n)
BY DEF Settles, StaleElsewhere

(* A caller at rest overtakes nothing and is not overtaken.                *)
LEMMA IdleNotOvertaken ==
  ASSUME NEW c, req[c].op \notin {"scroll", "view", "record", "sync"}
  PROVE  Overtaken(c) = {}
BY DEF Overtaken, Given, Doing

(* A request that is about to return, or has no row, holds none.           *)
LEMMA HoldsNoRow ==
  ASSUME NEW c, req'[c].op \notin {"scroll", "view", "record"}
  PROVE  Loaded(c)'
BY DEF Loaded

(* The columns a flush leaves in the row, whatever is stored by now.       *)
LEMMA FlushedRow ==
  ASSUME NEW n \in Nodes, row[n] \in Rows, NEW seen \in Rows, NEW new \in Rows,
         new.status # "absent",
         seen.status # "absent" => row[n].status # "absent",
         Flush(n, seen, new)
  PROVE  \E r \in Rows :
           /\ row' = [row EXCEPT ![n] = r]
           /\ r.read = Kept(new.read, seen.read, row[n].read)
           /\ r.done = Kept(new.done, seen.done, row[n].done)
           /\ r.best = Kept(new.best, seen.best, row[n].best)
           /\ r.passed = Kept(new.passed, seen.passed, row[n].passed)
           /\ r.count = Kept(new.count, seen.count, row[n].count)
           /\ r.status # "absent"
           /\ seen = row[n] => r = new
<1> DEFINE r == [read   |-> Kept(new.read, seen.read, row[n].read),
                 done   |-> Kept(new.done, seen.done, row[n].done),
                 best   |-> Kept(new.best, seen.best, row[n].best),
                 passed |-> Kept(new.passed, seen.passed, row[n].passed),
                 count  |-> Kept(new.count, seen.count, row[n].count),
                 status |-> Kept(new.status, seen.status, row[n].status)]
<1>1. r \in Rows
  BY DEF Rows, Kept
<1>2. row' = [row EXCEPT ![n] = r]
  BY DEF Flush
<1>3. r.status # "absent"
  BY DEF Kept
<1>4. ASSUME seen = row[n] PROVE r = new
  <2>1. new = [read |-> new.read, done |-> new.done, best |-> new.best,
               passed |-> new.passed, count |-> new.count, status |-> new.status]
    BY DEF Rows
  <2>2. \A x, y : Kept(x, y, y) = x
    BY DEF Kept
  <2> QED BY <1>4, <2>1, <2>2
<1>5. /\ r.read = Kept(new.read, seen.read, row[n].read)
      /\ r.done = Kept(new.done, seen.done, row[n].done)
      /\ r.best = Kept(new.best, seen.best, row[n].best)
      /\ r.passed = Kept(new.passed, seen.passed, row[n].passed)
      /\ r.count = Kept(new.count, seen.count, row[n].count)
  OBVIOUS
<1> HIDE DEF r
<1> QED BY <1>1, <1>2, <1>3, <1>4, <1>5

(* A status derived from the row itself claims what the row supports.      *)
LEMMA RefreshJudged ==
  ASSUME NEW r \in Rows, NEW h \in BOOLEAN
  PROVE  /\ WithStatus(r, h) \in Rows
         /\ WithStatus(r, h).status = Derive(r, h)
         /\ WithStatus(r, h).status # "absent"
         /\ Derive(WithStatus(r, h), h) = Derive(r, h)
         /\ WithStatus(r, h).read = r.read
         /\ WithStatus(r, h).done = r.done
         /\ WithStatus(r, h).passed = r.passed
         /\ WithStatus(r, h).best = r.best
         /\ WithStatus(r, h).count = r.count
<1>1. Derive(r, h) \in Statuses
  BY DeriveFacts
<1>2. /\ WithStatus(r, h) \in Rows
      /\ WithStatus(r, h).status = Derive(r, h)
      /\ WithStatus(r, h).read = r.read
      /\ WithStatus(r, h).done = r.done
      /\ WithStatus(r, h).passed = r.passed
      /\ WithStatus(r, h).best = r.best
      /\ WithStatus(r, h).count = r.count
  BY <1>1 DEF WithStatus, Rows
<1> QED BY <1>1, <1>2 DEF Derive, Statuses

(* What a request in flight has loaded is a row, if an old one.            *)
LEMMA SeenIsARow ==
  ASSUME RowIInv, NEW c \in Callers, req[c].op \in {"scroll", "view", "record"}
  PROVE  /\ req[c].node \in Nodes
         /\ req[c].seen \in Rows
         /\ req[c].bar \in 0..MaxScore
         /\ row[req[c].node] \in Rows
         /\ bar[req[c].node] \in 0..MaxScore
         /\ req[c].seen.status # "absent" => row[req[c].node].status # "absent"
<1>1. req[c] \in Requests
  BY DEF RowIInv, IInv, TypeOK
<1>2. req[c].node \in Nodes /\ req[c].seen \in Rows /\ req[c].bar \in 0..MaxScore
  BY <1>1, RequestFields
<1> QED BY <1>2 DEF RowIInv, Loaded, IInv, TypeOK

(* A scroll takes neither grade nor a finished reading away, and derives   *)
(* the status of what it has loaded.                                       *)
LEMMA ScrolledRow ==
  ASSUME RowIInv, NEW c \in Callers, ScrollWrite(c), NEW n, n = req[c].node
  PROVE  \E r \in Rows :
           /\ n \in Nodes
           /\ row' = [row EXCEPT ![n] = r]
           /\ r.read = Kept(req[c].arg, req[c].seen.read, row[n].read)
           /\ row[n].done => r.done
           /\ r.passed = row[n].passed /\ r.count = row[n].count /\ r.best = row[n].best
           /\ req[c].seen = row[n] => r.status = Derive(r, req[c].bar # 0)
           /\ r.status # "absent"
<1>1. /\ n \in Nodes /\ req[c].seen \in Rows /\ row[n] \in Rows
      /\ req[c].seen.status # "absent" => row[n].status # "absent"
  BY SeenIsARow DEF ScrollWrite, Doing
<1>2. req[c].arg \in 0..Full
  BY RequestFields DEF RowIInv, IInv, TypeOK, ScrollWrite, Doing
<1>3. PICK seen, p, hasQuiz : seen = req[c].seen /\ p = req[c].arg /\ hasQuiz = (req[c].bar # 0)
  OBVIOUS
<1> DEFINE read == [seen EXCEPT !.read = p, !.done = @ \/ p = Full]
           new == WithStatus(read, hasQuiz)
<1>4. /\ read \in Rows /\ read.read = p /\ read.done = (seen.done \/ p = Full)
      /\ read.passed = seen.passed /\ read.count = seen.count /\ read.best = seen.best
  BY <1>1, <1>2, <1>3 DEF Rows
<1>5. Flush(n, seen, new)
  BY <1>3 DEF ScrollWrite
<1>6. hasQuiz \in BOOLEAN
  BY <1>3
<1> HIDE DEF read
<1>7. /\ new \in Rows /\ new.read = p /\ (seen.done => new.done)
      /\ new.passed = seen.passed /\ new.count = seen.count /\ new.best = seen.best
      /\ new.status = Derive(new, hasQuiz) /\ new.status # "absent"
      /\ new.done \in BOOLEAN /\ seen.done \in BOOLEAN
  <2>1. /\ new \in Rows /\ new.read = read.read /\ new.done = read.done
        /\ new.passed = read.passed /\ new.count = read.count /\ new.best = read.best
        /\ new.status = Derive(new, hasQuiz) /\ new.status # "absent"
    BY <1>4, <1>6, RefreshJudged
  <2>2. seen.done \in BOOLEAN
    BY <1>1, <1>3 DEF Rows
  <2> HIDE DEF new
  <2>3. new.done \in BOOLEAN
    BY <2>1 DEF Rows
  <2> QED BY <1>4, <2>1, <2>2, <2>3
<1> HIDE DEF new
<1>8. PICK r \in Rows :
           /\ row' = [row EXCEPT ![n] = r]
           /\ r.read = Kept(new.read, seen.read, row[n].read)
           /\ r.done = Kept(new.done, seen.done, row[n].done)
           /\ r.best = Kept(new.best, seen.best, row[n].best)
           /\ r.passed = Kept(new.passed, seen.passed, row[n].passed)
           /\ r.count = Kept(new.count, seen.count, row[n].count)
           /\ r.status # "absent"
           /\ seen = row[n] => r = new
  BY <1>1, <1>3, <1>5, <1>7, FlushedRow
<1>9. row[n].done => r.done
  BY <1>7, <1>8 DEF Kept
<1>10. r.passed = row[n].passed /\ r.count = row[n].count /\ r.best = row[n].best
  BY <1>7, <1>8 DEF Kept
<1> QED BY <1>1, <1>3, <1>7, <1>8, <1>9, <1>10, ZenonT(60)

(* Opening the material refreshes the status of the row.                   *)
LEMMA ViewedRow ==
  ASSUME RowIInv, NEW c \in Callers, ViewWrite(c), NEW n, n = req[c].node
  PROVE  \E r \in Rows :
           /\ n \in Nodes
           /\ row' = [row EXCEPT ![n] = r]
           /\ r.read = row[n].read /\ r.done = row[n].done
           /\ r.passed = row[n].passed /\ r.count = row[n].count /\ r.best = row[n].best
           /\ req[c].seen = row[n] => r.status = Derive(r, req[c].bar # 0)
           /\ r.status # "absent"
<1>1. /\ n \in Nodes /\ req[c].seen \in Rows /\ row[n] \in Rows
      /\ req[c].seen.status # "absent" => row[n].status # "absent"
  BY SeenIsARow DEF ViewWrite, Doing
<1>3. PICK seen, hasQuiz : seen = req[c].seen /\ hasQuiz = (req[c].bar # 0)
  OBVIOUS
<1> DEFINE new == WithStatus(seen, hasQuiz)
<1>5. Flush(n, seen, new)
  BY <1>3 DEF ViewWrite
<1>6. hasQuiz \in BOOLEAN
  BY <1>3
<1>4. seen \in Rows
  BY <1>1, <1>3
<1>7. /\ new \in Rows /\ new.read = seen.read /\ new.done = seen.done
      /\ new.passed = seen.passed /\ new.count = seen.count /\ new.best = seen.best
      /\ new.status = Derive(new, hasQuiz) /\ new.status # "absent"
  BY <1>4, <1>6, RefreshJudged
<1> HIDE DEF new
<1>8. PICK r \in Rows :
           /\ row' = [row EXCEPT ![n] = r]
           /\ r.read = Kept(new.read, seen.read, row[n].read)
           /\ r.done = Kept(new.done, seen.done, row[n].done)
           /\ r.best = Kept(new.best, seen.best, row[n].best)
           /\ r.passed = Kept(new.passed, seen.passed, row[n].passed)
           /\ r.count = Kept(new.count, seen.count, row[n].count)
           /\ r.status # "absent"
           /\ seen = row[n] => r = new
  BY <1>1, <1>3, <1>5, <1>7, FlushedRow
<1>9. /\ r.read = row[n].read /\ r.done = row[n].done
      /\ r.passed = row[n].passed /\ r.count = row[n].count /\ r.best = row[n].best
  BY <1>7, <1>8 DEF Kept
<1> QED BY <1>1, <1>3, <1>7, <1>8, <1>9

(* A row that exists is not lost by writing another that exists.           *)
LEMMA WrittenStays ==
  ASSUME RowIInv, NEW n \in Nodes, NEW r, row' = [row EXCEPT ![n] = r],
         row[n].status # "absent" => r.status # "absent"
  PROVE  /\ RowsStay
         /\ row'[n] = r
         /\ \A m \in Nodes \ {n} : row'[m] = row[m]
BY DEF RowsStay, RowIInv, IInv, TypeOK

(* The submitted attempts and their scores are what they were.             *)
SameSubmissions ==
  \A m \in Nodes : /\ Submitted(m)' = Submitted(m)
                   /\ \A a \in Submitted(m) : attempt'[a].score = attempt[a].score

(* Steps that leave the attempts alone leave the submissions.              *)
LEMMA SubmissionsUnchanged ==
  ASSUME UNCHANGED attempt
  PROVE  SameSubmissions
BY DEF SameSubmissions, Submitted

(* A commit on the row and the quiz of one node that leaves the grades to  *)
(* the attempts: what it says of pass and status must hold where it is not *)
(* stale.                                                                  *)
LEMMA JudgementKeeps ==
  ASSUME RowIInv, IInv', NEW c \in Callers, NEW n \in Nodes,
         NEW r, row' = [row EXCEPT ![n] = r],
         r.count = row[n].count, r.best = row[n].best,
         row[n].status # "absent" => r.status # "absent",
         r.status = "absent" => ~r.passed,
         <<"ledger", n>> \in stale => <<"ledger", n>> \in stale',
         <<"pass", n>> \notin stale' =>
           (live'[n] # NoQuiz /\ r.passed => r.best >= bar'[n]),
         <<"status", n>> \notin stale' =>
           (r.status = "completed" => Derive(r, bar'[n] # 0) = "completed"),
         StaleElsewhere(n),
         \A m \in Nodes \ {n} : live'[m] = live[m] /\ bar'[m] = bar[m],
         SameSubmissions,
         Loaded(c)',
         \A d \in Callers : d # c => req'[d] = req[d]
  PROVE  RowIInv'
<1>1. RowsStay /\ row'[n] = r /\ \A m \in Nodes \ {n} : row'[m] = row[m]
  BY WrittenStays
<1>2. OnlyAt(n)
  BY <1>1 DEF OnlyAt, SameSubmissions
<1>3. Submitted(n)' = Submitted(n) /\ \A a \in Submitted(n) : attempt'[a].score = attempt[a].score
  BY DEF SameSubmissions
<1>4. RowTrue(n)
  BY RowByRow
<1>5. Ledger(n) => Ledger(n)'
  BY <1>1, <1>3 DEF Ledger
<1>6. (r.status = "completed" /\ Derive(r, bar'[n] # 0) = "completed") => Complete(n)'
  BY <1>1 DEF Complete
<1>7. RowTrue(n)'
  BY <1>1, <1>3, <1>4, <1>5, <1>6 DEF RowTrue
<1> QED BY <1>1, <1>2, <1>7, OneNodeKeeps

(* The request of c moves on or returns, the others stay.                  *)
LEMMA OthersStay ==
  ASSUME RowIInv, NEW c \in Callers, NEW r, Then(c, r)
  PROVE  req'[c] = r /\ \A d \in Callers : d # c => req'[d] = req[d]
BY DEF Then, RowIInv, IInv, TypeOK

(* A returning request holds no row.                                       *)
LEMMA Returned ==
  ASSUME RowIInv, NEW c \in Callers, Return(c)
  PROVE  Loaded(c)' /\ \A d \in Callers : d # c => req'[d] = req[d]
<1>1. req'[c] = Idle /\ \A d \in Callers : d # c => req'[d] = req[d]
  BY OthersStay DEF Return
<1> QED BY <1>1, HoldsNoRow DEF Idle

(* A request writes the reading or the status of its row and returns: the  *)
(* status is up to date if it has not been overtaken.                      *)
LEMMA ReadingKeeps ==
  ASSUME RowIInv, IInv', NEW c \in Callers, NEW n \in Nodes, n = req[c].node,
         req[c].op \in {"scroll", "view"},
         NEW r \in Rows, row' = [row EXCEPT ![n] = r],
         r.passed = row[n].passed, r.count = row[n].count, r.best = row[n].best,
         req[c].seen = row[n] => r.status = Derive(r, req[c].bar # 0),
         r.status # "absent",
         UNCHANGED <<content, attempt>>,
         Settles(c, n, {"status"}),
         Return(c)
  PROVE  RowIInv'
<1>1. RowTrue(n)
  BY RowByRow
<1>2. UNCHANGED <<live, bar>> /\ SameSubmissions
  BY SubmissionsUnchanged DEF content
<1>3. StaleElsewhere(n)
  BY SettlesHere
<1>4. <<"ledger", n>> \in stale => <<"ledger", n>> \in stale'
  BY DEF Settles
<1>5. <<"pass", n>> \notin stale' => (live'[n] # NoQuiz /\ r.passed => r.best >= bar'[n])
  <2>1. <<"pass", n>> \notin stale' => <<"pass", n>> \notin stale
    BY DEF Settles
  <2> QED BY <1>1, <1>2, <2>1 DEF RowTrue
<1>6. ASSUME <<"status", n>> \notin stale', r.status = "completed"
      PROVE  Derive(r, bar'[n] # 0) = "completed"
  <2>1. "status" \notin Overtaken(c)
    BY <1>6, UpToDate
  <2>2. req[c].seen = row[n] /\ (req[c].bar = 0) = (bar[n] = 0)
    BY <2>1 DEF Overtaken, Given
  <2>3. (req[c].bar # 0) = (bar'[n] # 0)
    BY <1>2, <2>2
  <2>4. r.status = Derive(r, bar'[n] # 0)
    BY <2>2, <2>3
  <2> QED BY <1>6, <2>4
<1>7. Loaded(c)' /\ \A d \in Callers : d # c => req'[d] = req[d]
  BY Returned
<1> QED BY <1>2, <1>3, <1>4, <1>5, <1>6, <1>7, JudgementKeeps

(* A scroll refreshes the status from the reading it has written.          *)
LEMMA ScrollWriteTrue ==
  ASSUME RowIInv, IInv', NEW c \in Callers, ScrollWrite(c)
  PROVE  RowIInv'
<1>0. PICK n : n = req[c].node
  OBVIOUS
<1>1. PICK r \in Rows :
           /\ n \in Nodes
           /\ row' = [row EXCEPT ![n] = r]
           /\ r.read = Kept(req[c].arg, req[c].seen.read, row[n].read)
           /\ row[n].done => r.done
           /\ r.passed = row[n].passed /\ r.count = row[n].count /\ r.best = row[n].best
           /\ req[c].seen = row[n] => r.status = Derive(r, req[c].bar # 0)
           /\ r.status # "absent"
  BY <1>0, ScrolledRow
<1>2. /\ req[c].op \in {"scroll", "view"} /\ UNCHANGED <<content, attempt>>
      /\ Settles(c, n, {"status"}) /\ Return(c)
  BY <1>0 DEF ScrollWrite, Doing
<1> QED BY <1>0, <1>1, <1>2, ReadingKeeps

(* Opening the material only refreshes the status.                         *)
LEMMA ViewWriteTrue ==
  ASSUME RowIInv, IInv', NEW c \in Callers, ViewWrite(c)
  PROVE  RowIInv'
<1>0. PICK n : n = req[c].node
  OBVIOUS
<1>1. PICK r \in Rows :
           /\ n \in Nodes
           /\ row' = [row EXCEPT ![n] = r]
           /\ r.read = row[n].read /\ r.done = row[n].done
           /\ r.passed = row[n].passed /\ r.count = row[n].count /\ r.best = row[n].best
           /\ req[c].seen = row[n] => r.status = Derive(r, req[c].bar # 0)
           /\ r.status # "absent"
  BY <1>0, ViewedRow
<1>2. /\ req[c].op \in {"scroll", "view"} /\ UNCHANGED <<content, attempt>>
      /\ Settles(c, n, {"status"}) /\ Return(c)
  BY <1>0 DEF ViewWrite, Doing
<1> QED BY <1>0, <1>1, <1>2, ReadingKeeps

(* Grading keeps a pass, raises the best score and counts the attempt.     *)
LEMMA GradedFields ==
  ASSUME NEW r \in Rows, NEW s \in 0..MaxScore, NEW t \in 0..MaxScore
  PROVE  /\ Graded(r, s, t) \in Rows
         /\ Graded(r, s, t).read = r.read
         /\ Graded(r, s, t).done = r.done
         /\ Graded(r, s, t).count = r.count + 1
         /\ Graded(r, s, t).best = Better(r.best, s)
         /\ r.passed => Graded(r, s, t).passed
         /\ Graded(r, s, t).passed => r.passed \/ MeetsBar(Better(r.best, s), t)
<1>1. Graded(r, s, t) \in Rows
  BY GradedType
<1>2. \A x : MeetsBar(x, t) \in BOOLEAN
  BY DEF MeetsBar
<1> QED BY <1>1, <1>2 DEF Graded, Rows

(* The better score is one of the two, and no less than either.            *)
LEMMA BetterFacts ==
  ASSUME NEW x \in Int, NEW y \in Int
  PROVE  Better(x, y) \in {x, y} /\ Better(x, y) >= x /\ Better(x, y) >= y
BY DEF Better

(* The graded row: a pass is kept or comes from the threshold and the best *)
(* score that were loaded, count and best score go on from what was        *)
(* loaded.                                                                 *)
LEMMA SubmittedRow ==
  ASSUME RowIInv, NEW c \in Callers, SubmitWrite(c), NEW n, n = req[c].node
  PROVE  \E r \in Rows :
           /\ n \in Nodes
           /\ row' = [row EXCEPT ![n] = r]
           /\ r.read = row[n].read /\ r.done = row[n].done
           /\ row[n].passed => r.passed
           /\ r.passed => row[n].passed
                            \/ MeetsBar(Better(req[c].seen.best, req[c].score), req[c].bar)
           /\ req[c].seen.count = row[n].count => r.count = row[n].count + 1
           /\ req[c].seen.best = row[n].best => r.best = Better(row[n].best, req[c].score)
           /\ r.status # "absent"
           /\ grants' \subseteq grants \cup Eligible(n)
           /\ req[c].seen = row[n] =>
                /\ r.status = Derive(r, req[c].bar # 0)
                /\ grants' \subseteq grants \cup Given(r.status = "completed", Eligible(n))
<1>1. /\ n \in Nodes /\ req[c].seen \in Rows /\ row[n] \in Rows
      /\ req[c].bar \in 0..MaxScore
      /\ req[c].seen.status # "absent" => row[n].status # "absent"
  BY SeenIsARow DEF SubmitWrite, Doing
<1>2. req[c].score \in 0..MaxScore
  BY RequestFields DEF RowIInv, IInv, TypeOK, SubmitWrite, Doing
<1>3. PICK seen, s, t : seen = req[c].seen /\ s = req[c].score /\ t = req[c].bar
  OBVIOUS
<1>4. seen \in Rows /\ s \in 0..MaxScore /\ t \in 0..MaxScore
  BY <1>1, <1>2, <1>3
<1> DEFINE graded == Graded(seen, s, t)
           hasQuiz == t # 0
           new == WithStatus(graded, hasQuiz)
<1>5. /\ graded \in Rows /\ graded.read = seen.read /\ graded.done = seen.done
      /\ seen.passed => graded.passed
      /\ graded.passed => seen.passed \/ MeetsBar(Better(seen.best, s), t)
      /\ graded.count = seen.count + 1 /\ graded.best = Better(seen.best, s)
  BY <1>4, GradedFields
<1>6. /\ Flush(n, seen, new)
      /\ grants' = grants \cup
           Given(new.status = "completed" /\ Derive(seen, hasQuiz) # "completed", Eligible(n))
  BY <1>1, <1>3 DEF SubmitWrite
<1>7. hasQuiz \in BOOLEAN
  OBVIOUS
<1> HIDE DEF graded, hasQuiz
<1>8. /\ new \in Rows /\ new.read = graded.read /\ new.done = graded.done
      /\ new.passed = graded.passed /\ new.count = graded.count /\ new.best = graded.best
      /\ new.status = Derive(new, hasQuiz) /\ new.status # "absent"
  BY <1>5, <1>7, RefreshJudged
<1> HIDE DEF new
<1>9. PICK r \in Rows :
           /\ row' = [row EXCEPT ![n] = r]
           /\ r.read = Kept(new.read, seen.read, row[n].read)
           /\ r.done = Kept(new.done, seen.done, row[n].done)
           /\ r.best = Kept(new.best, seen.best, row[n].best)
           /\ r.passed = Kept(new.passed, seen.passed, row[n].passed)
           /\ r.count = Kept(new.count, seen.count, row[n].count)
           /\ r.status # "absent"
           /\ seen = row[n] => r = new
  BY <1>1, <1>3, <1>4, <1>6, <1>8, FlushedRow
<1>10. r.read = row[n].read /\ r.done = row[n].done
  BY <1>5, <1>8, <1>9 DEF Kept
<1>11. /\ row[n].passed => r.passed
       /\ r.passed => row[n].passed \/ MeetsBar(Better(seen.best, s), t)
  <2>1. new.passed \in BOOLEAN /\ seen.passed \in BOOLEAN
    BY <1>4, <1>8 DEF Rows
  <2> QED BY <1>5, <1>8, <1>9, <2>1 DEF Kept
<1>12. seen.count = row[n].count => r.count = row[n].count + 1
  BY <1>5, <1>8, <1>9 DEF Kept
<1>13. seen.best = row[n].best => r.best = Better(row[n].best, s)
  BY <1>5, <1>8, <1>9 DEF Kept
<1>14. grants' \subseteq grants \cup Given(new.status = "completed", Eligible(n))
  BY <1>6 DEF Given
<1>15. grants' \subseteq grants \cup Eligible(n)
  BY <1>14 DEF Given
<1>16. seen = row[n] => /\ r.status = Derive(r, t # 0)
                        /\ grants' \subseteq grants \cup Given(r.status = "completed", Eligible(n))
  BY <1>8, <1>9, <1>14 DEF hasQuiz
<1> QED BY <1>1, <1>3, <1>9, <1>10, <1>11, <1>12, <1>13, <1>15, <1>16

(* What a set of attempts says of the count and the best score of a row.   *)
LedgerOf(count, best, S, attempts) ==
  /\ count = Cardinality(S)
  /\ \A a \in S : attempts[a].score <= best
  /\ best # NoScore => \E a \in S : attempts[a].score = best

LEMMA LedgerIsOf ==
  ASSUME NEW n
  PROVE  Ledger(n) <=> LedgerOf(row[n].count, row[n].best, Submitted(n), attempt)
BY DEF Ledger, LedgerOf

(* One more submitted attempt is one more in the ledger.                   *)
LEMMA LedgerGrows ==
  ASSUME NEW count, NEW best \in Int, NEW S, IsFiniteSet(S),
         NEW att, NEW now, NEW a, NEW s \in 0..MaxScore,
         LedgerOf(count, best, S, att), a \notin S,
         \A b \in S : att[b].score \in Int,
         \A b \in S : now[b].score = att[b].score,
         now[a].score = s
  PROVE  LedgerOf(count + 1, Better(best, s), S \cup {a}, now)
<1>1. Cardinality(S \cup {a}) = Cardinality(S) + 1
  BY FS_AddElement
<1>2. s \in Int
  BY GradeAssumption
<1>3. PICK top : top = Better(best, s)
  OBVIOUS
<1>4. top \in {best, s} /\ top >= best /\ top >= s
  BY <1>2, <1>3, BetterFacts
<1>5. \A b \in S \cup {a} : now[b].score <= top
  BY <1>2, <1>4 DEF LedgerOf
<1>6. top # NoScore => \E b \in S \cup {a} : now[b].score = top
  BY <1>4 DEF LedgerOf
<1> QED BY <1>1, <1>3, <1>5, <1>6 DEF LedgerOf

(* A submission grades the row and its attempt in one commit; what it has  *)
(* not been overtaken in is right afterwards.                              *)
LEMMA SubmitWriteTrue ==
  ASSUME RowIInv, IInv', NEW c \in Callers, SubmitWrite(c)
  PROVE  RowIInv'
<1>0. PICK n, a, s : n = req[c].node /\ a = req[c].attempt /\ s = req[c].score
  OBVIOUS
<1>1. PICK r \in Rows :
           /\ n \in Nodes
           /\ row' = [row EXCEPT ![n] = r]
           /\ row[n].passed => r.passed
           /\ r.passed => row[n].passed \/ MeetsBar(Better(req[c].seen.best, s), req[c].bar)
           /\ req[c].seen.count = row[n].count => r.count = row[n].count + 1
           /\ req[c].seen.best = row[n].best => r.best = Better(row[n].best, s)
           /\ r.status # "absent"
           /\ req[c].seen = row[n] => r.status = Derive(r, req[c].bar # 0)
  BY <1>0, SubmittedRow
<1>2. req[c] \in Requests /\ req[c].op = "record"
  BY DEF SubmitWrite, Doing, RowIInv, IInv, TypeOK
<1>3. a \in AttemptIds /\ s \in 0..MaxScore
  BY <1>0, <1>2, RequestFields
<1>4. n = Home[attempt[a].quiz]
  BY <1>0, <1>2 DEF RowIInv, IInv, RequestKnown
<1>5. attempt \in [AttemptIds -> Attempts] /\ row[n] \in Rows /\ bar[n] \in 0..MaxScore
  BY <1>1 DEF RowIInv, IInv, TypeOK
<1>6. /\ attempt' = [attempt EXCEPT ![a].status = "submitted", ![a].score = s]
      /\ Settles(c, n, {"status"}) /\ UNCHANGED <<live, bar>> /\ Return(c)
  BY <1>0 DEF SubmitWrite, content
<1>7. /\ attempt'[a].status = "submitted" /\ attempt'[a].quiz = attempt[a].quiz
      /\ attempt'[a].score = s
      /\ \A b \in AttemptIds : b # a => attempt'[b] = attempt[b]
  BY <1>3, <1>5, <1>6 DEF Attempts
<1>8. Submitted(n)' = Submitted(n) \cup {a}
  BY <1>3, <1>4, <1>7 DEF Submitted
<1>9. \A m \in Nodes \ {n} : Submitted(m)' = Submitted(m) /\ a \notin Submitted(m)
  BY <1>3, <1>4, <1>7 DEF Submitted
<1>10. \A m \in Nodes : Submitted(m) \subseteq AttemptIds
  BY DEF Submitted
<1>11. RowTrue(n)
  BY <1>1, RowByRow
<1>12. RowsStay /\ row'[n] = r /\ \A m \in Nodes \ {n} : row'[m] = row[m]
  BY <1>1, WrittenStays
<1>13. OnlyAt(n) /\ StaleElsewhere(n)
  BY <1>6, <1>7, <1>9, <1>10, <1>12, SettlesHere DEF OnlyAt
<1>14. Loaded(c)' /\ \A d \in Callers : d # c => req'[d] = req[d]
  BY <1>6, Returned
<1>15. IsFiniteSet(Submitted(n)')
  BY <1>8, <1>11, FS_AddElement DEF RowTrue
<1>16. \A f : <<f, n>> \notin stale' =>
         f \notin Overtaken(c) /\ (f # "status" => <<f, n>> \notin stale)
  BY <1>6, UpToDate
<1>17. ASSUME <<"ledger", n>> \notin stale' PROVE Ledger(n)'
  <2>1. "ledger" \notin Overtaken(c) /\ Ledger(n)
    BY <1>11, <1>16, <1>17 DEF RowTrue
  <2>2. /\ req[c].seen.count = row[n].count
        /\ req[c].seen.best = row[n].best
        /\ attempt[a].status # "submitted"
    BY <1>0, <1>2, <2>1 DEF Overtaken, Given, Doing
  <2>3. LedgerOf(row[n].count, row[n].best, Submitted(n), attempt)
    BY <2>1, LedgerIsOf
  <2>4. a \notin Submitted(n)
    BY <2>2 DEF Submitted
  <2>5. \A b \in Submitted(n) : attempt[b].score \in Int /\ attempt'[b].score = attempt[b].score
    BY <1>1, <1>5, <1>7, <1>10, <2>4 DEF Attempts
  <2>6. row[n].best \in Int
    BY <1>5, GradeAssumption DEF Rows, NoScore
  <2>7. LedgerOf(row[n].count + 1, Better(row[n].best, s), Submitted(n) \cup {a}, attempt')
    <3>1. IsFiniteSet(Submitted(n)) /\ s \in 0..MaxScore /\ attempt'[a].score = s
      BY <1>3, <1>7, <1>11 DEF RowTrue
    <3>2. /\ \A b \in Submitted(n) : attempt[b].score \in Int
          /\ \A b \in Submitted(n) : attempt'[b].score = attempt[b].score
      BY <2>5
    <3> QED BY <2>3, <2>4, <2>6, <3>1, <3>2, LedgerGrows
  <2>8. row'[n].count = row[n].count + 1 /\ row'[n].best = Better(row[n].best, s)
    <3>1. row'[n] = r
      BY <1>12
    <3>2. r.count = row[n].count + 1
      BY <1>1, <2>2
    <3>3. r.best = Better(row[n].best, s)
      BY <1>1, <2>2
    <3> QED BY <3>1, <3>2, <3>3
  <2>9. LedgerOf(row'[n].count, row'[n].best, Submitted(n)', attempt')
    BY <1>8, <2>7, <2>8, Zenon
  <2> QED BY <2>9 DEF Ledger, LedgerOf
<1>18. ASSUME <<"pass", n>> \notin stale', live'[n] # NoQuiz, r.passed
       PROVE  r.best >= bar'[n]
  <2>1. "pass" \notin Overtaken(c) /\ <<"pass", n>> \notin stale
    BY <1>16, <1>18
  <2>2. req[c].seen.best = row[n].best /\ req[c].bar = bar[n]
    BY <1>0, <1>2, <2>1 DEF Overtaken, Given, Doing
  <2>3. row[n].best \in Int /\ s \in Int /\ bar[n] \in Int
    BY <1>3, <1>5, GradeAssumption DEF Rows, NoScore
  <2>4. PICK top \in Int : top = r.best /\ top >= row[n].best /\ top = Better(row[n].best, s)
    BY <1>1, <2>2, <2>3, BetterFacts
  <2>5. row[n].passed => row[n].best >= bar[n]
    BY <1>6, <1>11, <1>18, <2>1 DEF RowTrue
  <2>6. row[n].passed \/ top >= bar[n]
    BY <1>1, <1>18, <2>2, <2>4 DEF MeetsBar
  <2> QED BY <1>6, <2>3, <2>4, <2>5, <2>6
<1>19. ASSUME <<"status", n>> \notin stale', r.status = "completed" PROVE Complete(n)'
  <2>1. "status" \notin Overtaken(c)
    BY <1>16, <1>19
  <2>2. req[c].seen = row[n] /\ (req[c].bar = 0) = (bar[n] = 0)
    BY <1>0, <1>2, <2>1 DEF Overtaken, Given
  <2>3. Derive(r, req[c].bar # 0) = "completed"
    BY <1>1, <1>19, <2>2
  <2>4. (req[c].bar # 0) = (bar'[n] # 0)
    BY <1>6, <2>2
  <2> QED BY <1>12, <2>3, <2>4 DEF Complete
<1>20. RowTrue(n)'
  BY <1>1, <1>12, <1>15, <1>17, <1>18, <1>19 DEF RowTrue
<1> QED BY <1>1, <1>13, <1>12, <1>14, <1>20, OneNodeKeeps

(* A mentor's bulk UPDATE of the rows of a node, with what it recomputes:  *)
(* where the row exists it says what new says.                             *)
LEMMA BulkTrue ==
  ASSUME RowIInv, IInv', NEW c \in Callers, NEW n \in Nodes, NEW new,
         BulkUpdate(n, new),
         new.count = row[n].count, new.best = row[n].best, new.status # "absent",
         NEW F, Settles(c, n, F), "ledger" \notin F,
         <<"pass", n>> \notin stale' =>
           (live'[n] # NoQuiz /\ new.passed => new.best >= bar'[n]),
         <<"status", n>> \notin stale' =>
           (new.status = "completed" => Derive(new, bar'[n] # 0) = "completed"),
         \A m \in Nodes \ {n} : live'[m] = live[m] /\ bar'[m] = bar[m],
         SameSubmissions,
         Loaded(c)',
         \A d \in Callers : d # c => req'[d] = req[d]
  PROVE  RowIInv'
<1>1. RowTrue(n)
  BY RowByRow
<1>2. PICK r : /\ row' = [row EXCEPT ![n] = r]
               /\ r = IF row[n].status = "absent" THEN row[n] ELSE new
  BY DEF BulkUpdate
<1>3. <<"ledger", n>> \in stale => <<"ledger", n>> \in stale'
  BY DEF Settles
<1>4. StaleElsewhere(n)
  BY SettlesHere
<1>5. CASE row[n].status = "absent"
  <2>1. r = row[n] /\ ~r.passed /\ r.status = "absent"
    BY <1>1, <1>2, <1>5 DEF RowTrue
  <2> QED BY <1>2, <1>3, <1>4, <2>1, JudgementKeeps
<1>6. CASE row[n].status # "absent"
  <2>1. r = new
    BY <1>2, <1>6
  <2> QED BY <1>2, <1>3, <1>4, <2>1, JudgementKeeps
<1> QED BY <1>5, <1>6

(* The reset of a superseded material takes the completion away, too.      *)
LEMMA ResetReadTrue ==
  ASSUME RowIInv, IInv', NEW c \in Callers, ResetRead(c)
  PROVE  RowIInv'
<1>1. PICK n \in Nodes : n = req[c].node
  BY RequestFields DEF RowIInv, IInv, TypeOK, ResetRead, Doing
<1>2. row[n] \in Rows /\ RowTrue(n)
  BY RowByRow DEF IInv, TypeOK
<1> DEFINE new == Unread(row[n])
<1>3. /\ new.count = row[n].count /\ new.best = row[n].best /\ new.passed = row[n].passed
      /\ new.status \in {"in_progress", "not_started"}
  BY <1>2 DEF Unread, Rows
<1>4. BulkUpdate(n, new) /\ Settles(c, n, {"status"})
  BY <1>1 DEF ResetRead
<1> HIDE DEF new
<1>5. UNCHANGED <<live, bar>> /\ SameSubmissions
  BY SubmissionsUnchanged DEF ResetRead, content
<1>6. <<"pass", n>> \notin stale' => <<"pass", n>> \notin stale
  BY <1>4 DEF Settles
<1>7. <<"pass", n>> \notin stale' => (live'[n] # NoQuiz /\ new.passed => new.best >= bar'[n])
  BY <1>2, <1>3, <1>5, <1>6 DEF RowTrue
<1>8. req'[c].op = "grant" /\ \A d \in Callers : d # c => req'[d] = req[d]
  BY RequestFields, OthersStay DEF ResetRead, Doing, RowIInv, IInv, TypeOK
<1>9. Loaded(c)'
  BY <1>8, HoldsNoRow
<1> QED BY <1>3, <1>4, <1>5, <1>7, <1>8, <1>9, BulkTrue

(* A new threshold re-evaluates the pass from the best score, and heals    *)
(* what an overtaken request has left.                                     *)
LEMMA SetThresholdTrue ==
  ASSUME RowIInv, IInv', NEW c \in Callers, NEW n \in Nodes,
         NEW t \in 1..MaxScore, SetThreshold(c, n, t)
  PROVE  RowIInv'
<1>1. row[n] \in Rows /\ t \in Int /\ t # 0
  BY GradeAssumption DEF RowIInv, IInv, TypeOK
<1> DEFINE passed == MeetsBar(row[n].best, t)
           new == Regraded(row[n], t)
<1>2. passed \in BOOLEAN /\ (passed => row[n].best >= t)
  BY DEF MeetsBar
<1>3. new = [row[n] EXCEPT !.passed = passed,
               !.status = IF row[n].done /\ passed THEN "completed"
                          ELSE IF Active(row[n]) THEN "in_progress" ELSE "not_started"]
  BY DEF Regraded
<1>4. BulkUpdate(n, new) /\ Settles(c, n, {"pass", "status"})
  BY DEF SetThreshold
<1> HIDE DEF new, passed
<1>5. /\ new.count = row[n].count /\ new.best = row[n].best
      /\ new.passed = passed /\ new.done = row[n].done /\ new.status # "absent"
      /\ new.status = "completed" => row[n].done /\ passed
  BY <1>1, <1>2, <1>3 DEF Rows
<1>6. bar' = [bar EXCEPT ![n] = t] /\ UNCHANGED <<live, attempt, req>> /\ IdleCaller(c)
  BY DEF SetThreshold
<1>7. bar'[n] = t /\ \A m \in Nodes \ {n} : live'[m] = live[m] /\ bar'[m] = bar[m]
  BY <1>6 DEF RowIInv, IInv, TypeOK
<1>8. new.passed => new.best >= bar'[n]
  BY <1>2, <1>5, <1>7
<1>9. new.status = "completed" => Derive(new, bar'[n] # 0) = "completed"
  BY <1>5 DEF Derive
<1>10. SameSubmissions
  BY <1>6, SubmissionsUnchanged
<1>11. Loaded(c)'
  BY <1>6, HoldsNoRow DEF IdleCaller, Idle
<1>12. "ledger" \notin {"pass", "status"}
  OBVIOUS
<1> QED BY <1>4, <1>5, <1>6, <1>7, <1>8, <1>9, <1>10, <1>11, <1>12, BulkTrue

(* The second commit of an unpublication is right as long as no quiz has   *)
(* been published meanwhile.                                               *)
LEMMA SyncUnpublishedTrue ==
  ASSUME RowIInv, IInv', NEW c \in Callers, SyncUnpublished(c)
  PROVE  RowIInv'
<1>1. PICK n \in Nodes : n = req[c].node
  BY RequestFields DEF RowIInv, IInv, TypeOK, SyncUnpublished, Doing
<1>2. row[n] \in Rows /\ RowTrue(n)
  BY RowByRow DEF IInv, TypeOK
<1> DEFINE new == ReadingOnly(row[n])
<1>3. /\ new.count = row[n].count /\ new.best = row[n].best
      /\ new.passed = row[n].passed /\ new.done = row[n].done /\ new.status # "absent"
      /\ new.status = "completed" => row[n].done
  BY <1>2 DEF ReadingOnly, Rows
<1>4. BulkUpdate(n, new) /\ Settles(c, n, {"status"}) /\ Return(c) /\ Doing(c, "sync")
  BY <1>1 DEF SyncUnpublished
<1> HIDE DEF new
<1>5. UNCHANGED <<live, bar>> /\ SameSubmissions
  BY SubmissionsUnchanged DEF SyncUnpublished, content
<1>6. <<"pass", n>> \notin stale' => <<"pass", n>> \notin stale
  BY <1>4 DEF Settles
<1>7. <<"pass", n>> \notin stale' => (live'[n] # NoQuiz /\ new.passed => new.best >= bar'[n])
  BY <1>2, <1>3, <1>5, <1>6 DEF RowTrue
<1>8. ASSUME <<"status", n>> \notin stale', new.status = "completed"
      PROVE  Derive(new, bar'[n] # 0) = "completed"
  <2>1. "status" \notin Overtaken(c)
    BY <1>4, <1>8, UpToDate
  <2>2. bar[n] = 0
    BY <1>1, <1>4, <2>1 DEF Overtaken, Given
  <2> QED BY <1>3, <1>5, <1>8, <2>2 DEF Derive
<1>9. Loaded(c)' /\ \A d \in Callers : d # c => req'[d] = req[d]
  BY <1>4, Returned
<1> QED BY <1>3, <1>4, <1>5, <1>7, <1>8, <1>9, BulkTrue

(* A publication takes the pass away and abandons only attempts that are   *)
(* in progress.                                                            *)
LEMMA PublishQuizTrue ==
  ASSUME RowIInv, IInv', NEW c \in Callers, NEW q \in Quizzes,
         NEW t \in 1..MaxScore, PublishQuiz(c, q, t)
  PROVE  RowIInv'
<1>1. PICK n \in Nodes : n = Home[q]
  BY QuizAssumption
<1>2. row[n] \in Rows /\ attempt \in [AttemptIds -> Attempts]
  BY DEF RowIInv, IInv, TypeOK
<1> DEFINE new == Unpassed(row[n])
<1>3. /\ new.count = row[n].count /\ new.best = row[n].best /\ ~new.passed
      /\ new.status \in {"in_progress", "not_started"}
  BY <1>2 DEF Unpassed, Rows
<1>4. BulkUpdate(n, new) /\ Settles(c, n, {"pass", "status"})
  BY <1>1 DEF PublishQuiz
<1> HIDE DEF new
<1>5. live' = [live EXCEPT ![n] = q] /\ bar' = [bar EXCEPT ![n] = t]
      /\ UNCHANGED req /\ IdleCaller(c)
  BY <1>1 DEF PublishQuiz
<1>6. \A m \in Nodes \ {n} : live'[m] = live[m] /\ bar'[m] = bar[m]
  BY <1>5 DEF RowIInv, IInv, TypeOK
<1>7. \A a \in AttemptIds :
        /\ attempt'[a].quiz = attempt[a].quiz /\ attempt'[a].score = attempt[a].score
        /\ attempt'[a].status = "submitted" <=> attempt[a].status = "submitted"
  <2>1. attempt' = [a \in AttemptIds |->
          IF a \in SwappedOut(n) THEN [attempt[a] EXCEPT !.status = "abandoned"]
          ELSE attempt[a]]
    BY <1>1 DEF PublishQuiz
  <2>2. \A a \in SwappedOut(n) : attempt[a].status = "in_progress"
    BY DEF SwappedOut
  <2> QED BY <1>2, <2>1, <2>2 DEF Attempts
<1>8. SameSubmissions
  BY <1>7 DEF SameSubmissions, Submitted
<1>9. Loaded(c)'
  BY <1>5, HoldsNoRow DEF IdleCaller, Idle
<1>10. "ledger" \notin {"pass", "status"}
  OBVIOUS
<1> QED BY <1>3, <1>4, <1>5, <1>6, <1>8, <1>9, <1>10, BulkTrue

(* A step that writes no row.                                              *)
LEMMA RowsAlone ==
  ASSUME RowIInv, IInv', NEW c \in Callers,
         UNCHANGED <<live, bar, row, stale>>, SameSubmissions,
         Loaded(c)',
         \A d \in Callers : d # c => req'[d] = req[d]
  PROVE  RowIInv'
<1>1. ASSUME NEW n \in Nodes PROVE RowTrue(n)'
  <2>1. RowTrue(n)
    BY RowByRow
  <2>2. Submitted(n)' = Submitted(n) /\ \A a \in Submitted(n) : attempt'[a].score = attempt[a].score
    BY DEF SameSubmissions
  <2>3. Ledger(n) => Ledger(n)'
    BY <2>2 DEF Ledger
  <2>4. Complete(n)' <=> Complete(n)
    BY DEF Complete
  <2> QED BY <2>1, <2>2, <2>3, <2>4 DEF RowTrue
<1>2. ASSUME NEW d \in Callers PROVE Loaded(d)'
  <2>1. d # c => req'[d] = req[d] /\ Loaded(d)
    BY DEF RowIInv
  <2> QED BY <2>1 DEF Loaded
<1> QED BY <1>1, <1>2
        DEF RowIInv, RowTrue, LedgerAgrees, PassedMeetsBar, CachedNeverOverclaims

(* Without a quiz, a row that claimed completion claims less.              *)
LEMMA UnpublishQuizTrue ==
  ASSUME RowIInv, IInv', NEW c \in Callers, NEW n \in Nodes, UnpublishQuiz(c, n)
  PROVE  RowIInv'
<1>1. RowTrue(n)
  BY RowByRow
<1>2. row' = [row EXCEPT ![n] = row[n]] /\ UNCHANGED stale
  BY DEF UnpublishQuiz, history, RowIInv, IInv, TypeOK
<1>3. /\ live'[n] = NoQuiz /\ bar'[n] = 0
      /\ \A m \in Nodes \ {n} : live'[m] = live[m] /\ bar'[m] = bar[m]
  BY DEF UnpublishQuiz, RowIInv, IInv, TypeOK
<1>4. <<"status", n>> \notin stale' =>
        (row[n].status = "completed" => Derive(row[n], bar'[n] # 0) = "completed")
  BY <1>1, <1>2, <1>3, DeriveFacts DEF RowTrue, Complete, Derive
<1>5. StaleElsewhere(n) /\ SameSubmissions
  BY <1>2, SubmissionsUnchanged DEF StaleElsewhere, UnpublishQuiz
<1>6. /\ req'[c] = [op |-> "sync", node |-> n]
      /\ \A d \in Callers : d # c => req'[d] = req[d]
  BY OthersStay DEF UnpublishQuiz
<1>7. Loaded(c)'
  BY <1>6, HoldsNoRow
<1>8. row[n].status = "absent" => ~row[n].passed
  BY <1>1 DEF RowTrue
<1> QED BY <1>2, <1>3, <1>4, <1>5, <1>6, <1>7, <1>8, JudgementKeeps

(* A new attempt is not yet submitted.                                     *)
LEMMA StartCreateTrue ==
  ASSUME RowIInv, IInv', NEW c \in Callers, NEW a \in AttemptIds, StartCreate(c, a)
  PROVE  RowIInv'
<1>1. SameSubmissions
  BY DEF SameSubmissions, Submitted, StartCreate, RowIInv, IInv, TypeOK
<1>2. Loaded(c)' /\ \A d \in Callers : d # c => req'[d] = req[d]
  BY Returned DEF StartCreate
<1> QED BY <1>1, <1>2, RowsAlone DEF StartCreate, content, history

(* Each reading step leaves its request with what is stored, and a scroll  *)
(* only with what goes on from there.                                      *)
LEMMA TraineeReadsTrue ==
  ASSUME RowIInv, IInv', NEW c \in Callers,
         \/ \E n \in Nodes : (\E p \in 0..Full : ScrollRead(c, n, p)) \/ ViewRead(c, n)
         \/ \E q \in Quizzes : StartRead(c, q)
         \/ \E a \in AttemptIds : SubmitCheck(c, a)
         \/ \E s \in 0..MaxScore : SubmitRecord(c, s)
  PROVE  RowIInv'
<1>0. ASSUME NEW r, Then(c, r), UNCHANGED <<content, attempt, row, grants, history>>,
             r.op \in {"scroll", "view", "record"} => r.seen = row[r.node],
             r.op = "scroll" => r.arg >= r.seen.read
      PROVE  RowIInv'
  <2>1. req'[c] = r /\ \A d \in Callers : d # c => req'[d] = req[d]
    BY <1>0, OthersStay
  <2>2. Loaded(c)'
    BY <1>0, <2>1 DEF Loaded
  <2>3. SameSubmissions
    BY <1>0, SubmissionsUnchanged
  <2> QED BY <1>0, <2>1, <2>2, <2>3, RowsAlone DEF content, history
<1>1. ASSUME NEW n \in Nodes, NEW p \in 0..Full, ScrollRead(c, n, p) PROVE RowIInv'
  <2> DEFINE r == [op |-> "scroll", node |-> n, seen |-> row[n], bar |-> bar[n],
                   arg |-> p, lazy |-> LazyGrant(n)]
  <2>1. Then(c, r) /\ p >= row[n].read
    BY <1>1 DEF ScrollRead, Advances
  <2> QED BY <1>0, <1>1, <2>1 DEF ScrollRead
<1>2. ASSUME NEW n \in Nodes, ViewRead(c, n) PROVE RowIInv'
  <2> DEFINE r == [op |-> "view", node |-> n, seen |-> row[n], bar |-> bar[n],
                   lazy |-> LazyGrant(n)]
  <2>1. Then(c, r)
    BY <1>2 DEF ViewRead
  <2> QED BY <1>0, <1>2, <2>1 DEF ViewRead
<1>3. ASSUME NEW q \in Quizzes, StartRead(c, q) PROVE RowIInv'
  <2> DEFINE r == [op |-> "start", node |-> Home[q], quiz |-> q, lazy |-> LazyGrant(Home[q])]
  <2>1. Then(c, r)
    BY <1>3 DEF StartRead
  <2> QED BY <1>0, <1>3, <2>1 DEF StartRead
<1>4. ASSUME NEW a \in AttemptIds, SubmitCheck(c, a) PROVE RowIInv'
  BY <1>0, <1>4 DEF SubmitCheck
<1>5. ASSUME NEW s \in 0..MaxScore, SubmitRecord(c, s) PROVE RowIInv'
  <2> DEFINE a == req[c].attempt
             n == Home[attempt[a].quiz]
             r == [op |-> "record", node |-> n, seen |-> row[n], bar |-> bar[n],
                   attempt |-> a, score |-> s]
  <2>1. Then(c, r)
    BY <1>5 DEF SubmitRecord
  <2> HIDE DEF a, n
  <2> QED BY <1>0, <1>5, <2>1 DEF SubmitRecord
<1> QED BY <1>1, <1>2, <1>3, <1>4, <1>5

(* Steps that write no row, quiz or attempt.                               *)
LEMMA OtherStepsTrue ==
  ASSUME RowIInv, IInv', NEW c \in Callers,
         \/ \E n \in Nodes : Visit(c, n) \/ PublishMaterial(c, n) \/ UnpublishMaterial(c, n)
         \/ ResetFails(c)
         \/ GrantAfterPublish(c)
         \/ RequestDies(c)
  PROVE  RowIInv'
<1>1. UNCHANGED <<live, bar, attempt, row, stale>>
  BY DEF Visit, PublishMaterial, UnpublishMaterial, ResetFails, GrantAfterPublish,
         RequestDies, content, history
<1>2. req'[c].op \in {"idle", "reset", "grant"} /\ \A d \in Callers : d # c => req'[d] = req[d]
  <2>1. ASSUME NEW n \in Nodes, Visit(c, n) \/ UnpublishMaterial(c, n)
        PROVE  req'[c].op = "idle" /\ UNCHANGED req
    BY <2>1 DEF Visit, UnpublishMaterial, IdleCaller, Idle
  <2>2. ASSUME NEW n \in Nodes, PublishMaterial(c, n)
        PROVE  /\ req'[c].op \in {"reset", "grant"}
               /\ \A d \in Callers : d # c => req'[d] = req[d]
    BY <2>2, OthersStay DEF PublishMaterial
  <2>3. CASE ResetFails(c)
    BY <2>3, RequestFields, OthersStay DEF ResetFails, Doing, RowIInv, IInv, TypeOK
  <2>4. CASE GrantAfterPublish(c) \/ RequestDies(c)
    BY <2>4, OthersStay DEF GrantAfterPublish, RequestDies, Return, Idle
  <2> QED BY <2>1, <2>2, <2>3, <2>4
<1>3. Loaded(c)' /\ SameSubmissions
  BY <1>1, <1>2, HoldsNoRow, SubmissionsUnchanged
<1> QED BY <1>1, <1>2, <1>3, RowsAlone

(* Without rows and attempts nothing is claimed.                           *)
LEMMA InitRows == Init => RowIInv
<1> SUFFICES ASSUME Init PROVE RowIInv
  OBVIOUS
<1>1. \A n \in Nodes : Submitted(n) = {}
  BY DEF Init, Submitted
<1>2. ASSUME NEW n \in Nodes PROVE RowTrue(n)
  <2>1. row[n] = NoRow /\ live[n] = NoQuiz
    BY DEF Init
  <2>2. Ledger(n)
    BY <1>1, <2>1, FS_EmptySet DEF Ledger, NoRow
  <2> QED BY <1>1, <2>1, <2>2, FS_EmptySet DEF RowTrue, NoRow
<1>3. \A c \in Callers : Loaded(c)
  BY DEF Init, Idle, Loaded
<1> QED BY <1>2, <1>3, InitIInv, RowByRow

(* Every step, of however many requests, keeps the invariant.              *)
LEMMA RowsKeep == RowIInv /\ [Next]_vars => RowIInv'
<1> SUFFICES ASSUME RowIInv, [Next]_vars PROVE RowIInv'
  OBVIOUS
<1>1. IInv'
  BY NextKeeps DEF RowIInv
<1>2. CASE UNCHANGED vars
  <2>1. UNCHANGED <<live, bar, attempt, row, stale, req>>
    BY <1>2 DEF vars, content, history
  <2> QED BY <1>1, <2>1 DEF RowIInv, LedgerAgrees, Ledger, PassedMeetsBar,
             CachedNeverOverclaims, Complete, Submitted, Loaded
<1>3. ASSUME NEW c \in Callers, TraineeStep(c) PROVE RowIInv'
  BY <1>1, <1>3, TraineeReadsTrue, OtherStepsTrue, ScrollWriteTrue, ViewWriteTrue,
     StartCreateTrue, SubmitWriteTrue DEF TraineeStep
<1>4. ASSUME NEW c \in Callers, MentorStep(c) PROVE RowIInv'
  BY <1>1, <1>4, OtherStepsTrue, SetThresholdTrue, UnpublishQuizTrue, PublishQuizTrue,
     ResetReadTrue, SyncUnpublishedTrue DEF MentorStep
<1>5. ASSUME NEW c \in Callers, RequestDies(c) PROVE RowIInv'
  BY <1>1, <1>5, OtherStepsTrue
<1> QED BY <1>2, <1>3, <1>4, <1>5 DEF Next

(* For any number of overlapping requests: what the rows say of attempts,  *)
(* passes and completion, and what the requests in flight have loaded.     *)
THEOREM RowInvariance == Spec => []RowIInv
BY InitRows, RowsKeep, PTL DEF Spec

(* EC-22: the row counts the submitted attempts, and its best score is the *)
(* greatest of theirs, unless a submission wrote that had been overtaken.  *)
THEOREM LedgerIsTheAttempts == Spec => []LedgerAgrees
<1>1. RowIInv => LedgerAgrees
  BY DEF RowIInv
<1> QED BY <1>1, RowInvariance, PTL

(* A stored pass meets the threshold of the quiz that is live, unless it   *)
(* was given under another threshold or best score since the last          *)
(* publication or threshold change.                                        *)
THEOREM PassesMeetTheBar == Spec => []PassedMeetsBar
<1>1. RowIInv => PassedMeetsBar
  BY DEF RowIInv
<1> QED BY <1>1, RowInvariance, PTL

(* A stored completion_status claims no completion that the rules would    *)
(* deny, between two commits either, unless its last writer had been       *)
(* overtaken.                                                              *)
THEOREM CachedStatusIsEarned == Spec => []CachedNeverOverclaims
<1>1. RowIInv => CachedNeverOverclaims
  BY DEF RowIInv
<1> QED BY <1>1, RowInvariance, PTL

-----------------------------------------------------------------------------
(* What a step may never do                                                *)

\* c resets the reading of n.
Resets(c, n) ==
  Acts(c) /\ Doing(c, "reset") /\ req[c].node = n /\ row'[n].read = 0

\* c writes a scroll that a longer one has overtaken.
ScrollsBack(c, n) ==
  Acts(c) /\ Doing(c, "scroll") /\ req[c].node = n /\ req[c].seen.read < row[n].read

\* No reading is lost at n but to a reset or an overtaken scroll.
ReadingStays(n) ==
  /\ row[n].done /\ ~row'[n].done => \E c \in Callers : Resets(c, n)
  /\ row'[n].read < row[n].read =>
       (\E c \in Callers : Resets(c, n)) \/ (\E c \in Callers : ScrollsBack(c, n))

(* A row that takes over its reading, or goes beyond it.                   *)
LEMMA ReadingKept ==
  ASSUME RowIInv, NEW n \in Nodes, NEW r,
         row' = [row EXCEPT ![n] = r],
         r.read \in Int,
         r.read >= row[n].read \/ \E c \in Callers : ScrollsBack(c, n),
         row[n].done => r.done
  PROVE  \A m \in Nodes : ReadingStays(m)
<1>1. row \in [Nodes -> Rows]
  BY DEF RowIInv, IInv, TypeOK
<1>2. \A m \in Nodes : row[m].read \in Int
  BY <1>1, GradeAssumption DEF Rows
<1>3. row'[n] = r /\ \A m \in Nodes \ {n} : row'[m] = row[m]
  BY <1>1
<1>4. ReadingStays(n)
  BY <1>2, <1>3 DEF ReadingStays
<1>5. ASSUME NEW m \in Nodes \ {n} PROVE ReadingStays(m)
  BY <1>2, <1>3 DEF ReadingStays
<1> QED BY <1>4, <1>5

(* Rows that are not written keep their reading.                           *)
LEMMA ReadingUnwritten ==
  ASSUME RowIInv, UNCHANGED row
  PROVE  \A m \in Nodes : ReadingStays(m)
BY GradeAssumption DEF ReadingStays, RowIInv, IInv, TypeOK, Rows

(* A bulk UPDATE that leaves the reading alone.                            *)
LEMMA ReadingBulk ==
  ASSUME RowIInv, NEW n \in Nodes, NEW new, BulkUpdate(n, new),
         new.read = row[n].read, new.done = row[n].done
  PROVE  \A m \in Nodes : ReadingStays(m)
<1>1. PICK r \in {row[n], new} : row' = [row EXCEPT ![n] = r]
  BY DEF BulkUpdate
<1>2. row[n].read \in Int
  BY GradeAssumption DEF RowIInv, IInv, TypeOK, Rows
<1>3. r.read \in Int /\ r.read >= row[n].read /\ (row[n].done => r.done)
  BY <1>1, <1>2
<1> QED BY <1>1, <1>3, ReadingKept

(* A scroll ends below the saved percentage only if that has grown since   *)
(* it was loaded.                                                          *)
LEMMA ScrollReading ==
  ASSUME RowIInv, NEW c \in Callers, ScrollWrite(c)
  PROVE  \A m \in Nodes : ReadingStays(m)
<1>0. PICK n, p : n = req[c].node /\ p = req[c].arg
  OBVIOUS
<1>1. PICK r \in Rows :
         /\ n \in Nodes
         /\ row' = [row EXCEPT ![n] = r]
         /\ r.read = Kept(p, req[c].seen.read, row[n].read)
         /\ row[n].done => r.done
  BY <1>0, ScrolledRow
<1>2. PICK old : old = req[c].seen.read
  OBVIOUS
<1>3. req[c] \in Requests /\ req[c].op = "scroll"
  BY DEF ScrollWrite, Doing, RowIInv, IInv, TypeOK
<1>4. p \in 0..Full /\ req[c].seen \in Rows /\ row[n] \in Rows
  BY <1>0, <1>1, <1>3, RequestFields DEF RowIInv, IInv, TypeOK
<1>5. p \in Int /\ old \in Int /\ row[n].read \in Int /\ r.read \in Int
  BY <1>2, <1>4, GradeAssumption DEF Rows
<1>6. p >= old
  BY <1>0, <1>2, <1>3 DEF RowIInv, Loaded
<1>7. Acts(c)
  BY <1>3, OthersStay DEF ScrollWrite, Return, Idle, Acts
<1>8. r.read >= row[n].read \/ old < row[n].read
  BY <1>1, <1>2, <1>5, <1>6 DEF Kept
<1>9. r.read >= row[n].read \/ ScrollsBack(c, n)
  BY <1>0, <1>2, <1>3, <1>7, <1>8 DEF ScrollsBack, Doing
<1> QED BY <1>1, <1>5, <1>9, ReadingKept

(* Only the reset of a superseded material takes a finished reading away.  *)
LEMMA ReadingStep ==
  ASSUME RowIInv, Next
  PROVE  \A n \in Nodes : ReadingStays(n)
<1>0. PICK c \in Callers : TraineeStep(c) \/ MentorStep(c) \/ RequestDies(c)
  BY DEF Next
<1>1. row \in [Nodes -> Rows] /\ req[c] \in Requests
  BY DEF RowIInv, IInv, TypeOK
<1>2. \A n \in Nodes : row[n] \in Rows /\ row[n].read \in Int
  BY <1>1, GradeAssumption DEF Rows
<1>3. CASE ScrollWrite(c)
  BY <1>3, ScrollReading
<1>4. CASE ViewWrite(c) \/ SubmitWrite(c)
  <2>0. PICK n : n = req[c].node
    OBVIOUS
  <2>1. PICK r \in Rows :
           /\ n \in Nodes
           /\ row' = [row EXCEPT ![n] = r]
           /\ r.read = row[n].read /\ r.done = row[n].done
    <3>1. CASE ViewWrite(c)
      BY <2>0, <3>1, ViewedRow
    <3>2. CASE SubmitWrite(c)
      BY <2>0, <3>2, SubmittedRow
    <3> QED BY <1>4, <3>1, <3>2
  <2>2. r.read \in Int /\ r.read >= row[n].read /\ (row[n].done => r.done)
    BY <1>2, <2>1
  <2> QED BY <2>1, <2>2, ReadingKept
<1>5. CASE ResetRead(c)
  <2>1. PICK n \in Nodes : n = req[c].node
    BY <1>1, <1>5, RequestFields DEF ResetRead, Doing
  <2>2. Acts(c) /\ Doing(c, "reset")
    <3>1. req[c].op = "reset" /\ req'[c].op = "grant"
      BY <1>1, <1>5, RequestFields, OthersStay DEF ResetRead, Doing
    <3> QED BY <3>1 DEF Acts, Doing
  <2>3. row' = [row EXCEPT ![n] = IF row[n].status = "absent" THEN row[n] ELSE Unread(row[n])]
    BY <1>5, <2>1 DEF ResetRead, BulkUpdate
  <2>4. Unread(row[n]).read = 0
    BY <1>2 DEF Unread, Rows
  <2>5. row'[n] = row[n] \/ row'[n].read = 0
    BY <1>1, <2>3, <2>4
  <2>6. \A m \in Nodes \ {n} : row'[m] = row[m]
    BY <1>1, <2>3
  <2>7. row'[n] = row[n] \/ Resets(c, n)
    BY <2>1, <2>2, <2>5 DEF Resets
  <2>8. ReadingStays(n)
    BY <1>2, <2>7 DEF ReadingStays
  <2>9. ASSUME NEW m \in Nodes \ {n} PROVE ReadingStays(m)
    BY <1>2, <2>6 DEF ReadingStays
  <2> QED BY <2>8, <2>9
<1>6. ASSUME NEW n \in Nodes, NEW t \in 1..MaxScore, SetThreshold(c, n, t)
      PROVE  \A m \in Nodes : ReadingStays(m)
  <2>1. Regraded(row[n], t).read = row[n].read /\ Regraded(row[n], t).done = row[n].done
    BY <1>2 DEF Regraded, Rows
  <2> QED BY <1>6, <2>1, ReadingBulk DEF SetThreshold
<1>7. ASSUME NEW q \in Quizzes, NEW t \in 1..MaxScore, PublishQuiz(c, q, t)
      PROVE  \A m \in Nodes : ReadingStays(m)
  <2>1. PICK n \in Nodes : n = Home[q]
    BY QuizAssumption
  <2>2. Unpassed(row[n]).read = row[n].read /\ Unpassed(row[n]).done = row[n].done
    BY <1>2 DEF Unpassed, Rows
  <2>3. BulkUpdate(n, Unpassed(row[n]))
    BY <1>7, <2>1 DEF PublishQuiz
  <2> QED BY <2>2, <2>3, ReadingBulk
<1>8. CASE SyncUnpublished(c)
  <2>1. PICK n \in Nodes : n = req[c].node
    BY <1>1, <1>8, RequestFields DEF SyncUnpublished, Doing
  <2>2. ReadingOnly(row[n]).read = row[n].read /\ ReadingOnly(row[n]).done = row[n].done
    BY <1>2 DEF ReadingOnly, Rows
  <2>3. BulkUpdate(n, ReadingOnly(row[n]))
    BY <1>8, <2>1 DEF SyncUnpublished
  <2> QED BY <2>2, <2>3, ReadingBulk
<1>9. CASE UNCHANGED row
  BY <1>9, ReadingUnwritten
<1> QED BY <1>0, <1>3, <1>4, <1>5, <1>6, <1>7, <1>8, <1>9
        DEF TraineeStep, MentorStep, RequestDies, ScrollRead, ViewRead, Visit, StartRead,
            StartCreate, SubmitCheck, SubmitRecord, PublishMaterial, UnpublishMaterial,
            UnpublishQuiz, ResetFails, GrantAfterPublish

\* The grant of k is below a node that is complete now, or the request that
\* writes it has been overtaken.
Earned(k) == Parent[k] \in Nodes /\ Complete(Parent[k])' /\ HasContent(k)

Late(c, k) ==
  \/ Acts(c) /\ AccessOvertaken(c) /\ req[c].node = k
  \/ /\ Acts(c)
     /\ req[c].op \in {"scroll", "record"}
     /\ req[c].node = Parent[k]
     /\ "status" \in Overtaken(c)

NewGrantsEarned ==
  \A k \in grants' \ grants : Earned(k) \/ \E c \in Callers : Late(c, k)

(* A row that loses neither its reading nor its pass stays complete, and   *)
(* so do the others.                                                       *)
LEMMA CompleteStays ==
  ASSUME RowIInv, NEW n \in Nodes, NEW r,
         row' = [row EXCEPT ![n] = r], UNCHANGED bar,
         row[n].done => r.done, row[n].passed => r.passed,
         NEW m \in Nodes, Complete(m)
  PROVE  Complete(m)'
<1>1. row'[m] = IF m = n THEN r ELSE row[m]
  BY DEF RowIInv, IInv, TypeOK
<1>2. Derive(row[m], bar[m] # 0) = "completed"
  BY DEF Complete
<1>3. Derive(row'[m], bar[m] # 0) = "completed"
  BY <1>1, <1>2 DEF Derive
<1> QED BY <1>3 DEF Complete

(* Grants to the children of a node that is complete now.                  *)
LEMMA ChildrenEarned ==
  ASSUME NEW n \in Nodes, Complete(n)', NEW k \in Eligible(n)
  PROVE  Earned(k)
BY DEF Eligible, Earned

(* A lazy grant is below a complete node.                                  *)
LEMMA LazyBelowComplete ==
  ASSUME RowIInv, NEW k, LazyGrant(k)
  PROVE  Parent[k] \in Nodes /\ Complete(Parent[k]) /\ HasContent(k)
BY DEF LazyGrant, Gated, RowIInv, IInv, TypeOK

(* A pending lazy grant is still due, or its request has been overtaken.   *)
LEMMA PendingGrant ==
  ASSUME RowIInv, NEW c \in Callers, req[c].op \in {"scroll", "view", "start"},
         req[c].lazy, Return(c),
         \A m \in Nodes : Complete(m) => Complete(m)',
         NEW k, k = req[c].node
  PROVE  Earned(k) \/ Late(c, k)
<1>2. Parent[k] \in Nodes
  BY DEF RowIInv, IInv, RequestKnown, TypeOK
<1>3. Acts(c)
  BY OthersStay DEF Return, Idle, Acts
<1>4. CASE HasContent(k) /\ Complete(Parent[k])
  BY <1>2, <1>4 DEF Earned
<1>5. CASE ~(HasContent(k) /\ Complete(Parent[k]))
  BY <1>3, <1>5 DEF Late, AccessOvertaken
<1> QED BY <1>4, <1>5

(* The status written by a request that has not been overtaken.            *)
LEMMA StatusInTime ==
  ASSUME NEW c, req[c].op \in {"scroll", "view", "record"},
         "status" \notin Overtaken(c), NEW n, n = req[c].node
  PROVE  req[c].seen = row[n] /\ (req[c].bar # 0) = (bar[n] # 0)
BY DEF Overtaken, Given

(* A scroll grants its own node, or the children of a node it completes.   *)
LEMMA ScrollGrants ==
  ASSUME RowIInv, NEW c \in Callers, ScrollWrite(c)
  PROVE  NewGrantsEarned
<1>0. PICK n : n = req[c].node
  OBVIOUS
<1>1. PICK r \in Rows :
         /\ n \in Nodes
         /\ row' = [row EXCEPT ![n] = r]
         /\ row[n].done => r.done
         /\ r.passed = row[n].passed
         /\ req[c].seen = row[n] => r.status = Derive(r, req[c].bar # 0)
  BY <1>0, ScrolledRow
<1>2. req[c].op = "scroll" /\ Return(c) /\ UNCHANGED bar
  BY DEF ScrollWrite, Doing, content
<1>3. Acts(c)
  BY <1>2, OthersStay DEF Return, Idle, Acts
<1>4. row'[n] = r
  BY <1>1 DEF RowIInv, IInv, TypeOK
<1>5. \A m \in Nodes : Complete(m) => Complete(m)'
  BY <1>1, <1>2, CompleteStays
<1>6. \A k \in grants' \ grants :
        (k = n /\ req[c].lazy) \/ (row'[n].status = "completed" /\ k \in Eligible(n))
  BY <1>0 DEF ScrollWrite, Given
<1>7. ASSUME NEW k \in grants' \ grants
      PROVE  Earned(k) \/ Late(c, k)
  <2>1. CASE k = n /\ req[c].lazy
    BY <1>0, <1>2, <1>5, <2>1, PendingGrant
  <2>2. CASE row'[n].status = "completed" /\ k \in Eligible(n)
    <3>1. CASE "status" \in Overtaken(c)
      BY <1>0, <1>2, <1>3, <2>2, <3>1, EligibleBelow DEF Late
    <3>2. CASE "status" \notin Overtaken(c)
      <4>1. req[c].seen = row[n] /\ (req[c].bar # 0) = (bar[n] # 0)
        BY <1>0, <1>2, <3>2, StatusInTime
      <4>2. Derive(r, bar[n] # 0) = "completed"
        BY <1>1, <1>4, <2>2, <4>1
      <4>3. Complete(n)'
        BY <1>2, <1>4, <4>2 DEF Complete
      <4> QED BY <1>1, <2>2, <4>3, ChildrenEarned
    <3> QED BY <3>1, <3>2
  <2> QED BY <1>6, <2>1, <2>2
<1> QED BY <1>7 DEF NewGrantsEarned

(* Opening the material grants only its own node.                          *)
LEMMA ViewGrants ==
  ASSUME RowIInv, NEW c \in Callers, ViewWrite(c)
  PROVE  NewGrantsEarned
<1>0. PICK n : n = req[c].node
  OBVIOUS
<1>1. PICK r \in Rows :
         /\ n \in Nodes
         /\ row' = [row EXCEPT ![n] = r]
         /\ r.read = row[n].read /\ r.done = row[n].done
         /\ r.passed = row[n].passed
  BY <1>0, ViewedRow
<1>2. UNCHANGED bar /\ Return(c) /\ req[c].op = "view"
  BY DEF ViewWrite, content, Doing
<1>3. \A m \in Nodes : Complete(m) => Complete(m)'
  BY <1>1, <1>2, CompleteStays
<1>4. \A k \in grants' \ grants : req[c].lazy /\ k = req[c].node
  BY DEF ViewWrite, Given
<1> QED BY <1>2, <1>3, <1>4, PendingGrant DEF NewGrantsEarned

(* A submission grants the children of a node it completes.                *)
LEMMA SubmitGrants ==
  ASSUME RowIInv, NEW c \in Callers, SubmitWrite(c)
  PROVE  NewGrantsEarned
<1>0. PICK n : n = req[c].node
  OBVIOUS
<1>1. PICK r \in Rows :
         /\ n \in Nodes
         /\ row' = [row EXCEPT ![n] = r]
         /\ grants' \subseteq grants \cup Eligible(n)
         /\ req[c].seen = row[n] =>
              /\ r.status = Derive(r, req[c].bar # 0)
              /\ grants' \subseteq grants \cup Given(r.status = "completed", Eligible(n))
  BY <1>0, SubmittedRow
<1>2. UNCHANGED bar /\ row'[n] = r /\ req[c].op = "record" /\ Return(c)
  BY <1>1 DEF SubmitWrite, Doing, content, RowIInv, IInv, TypeOK
<1>3. Acts(c)
  BY <1>2, OthersStay DEF Return, Idle, Acts
<1>4. ASSUME NEW k \in grants' \ grants
      PROVE  Earned(k) \/ Late(c, k)
  <2>1. k \in Eligible(n)
    BY <1>1
  <2>2. CASE "status" \in Overtaken(c)
    BY <1>0, <1>2, <1>3, <2>1, <2>2, EligibleBelow DEF Late
  <2>3. CASE "status" \notin Overtaken(c)
    <3>1. req[c].seen = row[n] /\ (req[c].bar # 0) = (bar[n] # 0)
      BY <1>0, <1>2, <2>3, StatusInTime
    <3>2. r.status = "completed" /\ r.status = Derive(r, req[c].bar # 0)
      BY <1>1, <3>1 DEF Given
    <3>3. Derive(r, bar[n] # 0) = "completed"
      BY <3>1, <3>2
    <3>4. Complete(n)'
      BY <1>2, <3>3 DEF Complete
    <3> QED BY <1>1, <2>1, <3>4, ChildrenEarned
  <2> QED BY <2>2, <2>3
<1> QED BY <1>4 DEF NewGrantsEarned

(* Grants of requests that write no row.                                   *)
LEMMA RowlessGrants ==
  ASSUME RowIInv, NEW c \in Callers,
         \/ \E n \in Nodes : Visit(c, n)
         \/ \E a \in AttemptIds : StartCreate(c, a)
         \/ GrantAfterPublish(c)
  PROVE  NewGrantsEarned
<1>1. UNCHANGED <<row, bar>>
  BY DEF Visit, StartCreate, GrantAfterPublish, content
<1>2. \A m : Complete(m) => Complete(m)'
  BY <1>1 DEF Complete
<1>3. ASSUME NEW n \in Nodes, Visit(c, n) PROVE NewGrantsEarned
  BY <1>2, <1>3, LazyBelowComplete DEF Visit, NewGrantsEarned, Earned
<1>4. ASSUME NEW a \in AttemptIds, StartCreate(c, a) PROVE NewGrantsEarned
  <2>1. \A k \in grants' \ grants : req[c].lazy /\ k = req[c].node
    BY <1>4 DEF StartCreate, Given
  <2>2. req[c].op = "start" /\ Return(c)
    BY <1>4 DEF StartCreate, Doing
  <2> QED BY <1>2, <2>1, <2>2, PendingGrant DEF NewGrantsEarned
<1>5. CASE GrantAfterPublish(c)
  <2>1. ASSUME NEW k \in grants' \ grants
        PROVE  Complete(Parent[req[c].node]) /\ k \in Eligible(Parent[req[c].node])
                 /\ Parent[req[c].node] \in Nodes
    BY <1>5, <2>1 DEF GrantAfterPublish, Gated, RowIInv, IInv, TypeOK
  <2>2. PICK p : p = Parent[req[c].node]
    OBVIOUS
  <2> QED BY <1>2, <2>1, <2>2, ChildrenEarned DEF NewGrantsEarned
<1> QED BY <1>3, <1>4, <1>5

(* A new threshold grants by the pass it has just re-evaluated.            *)
LEMMA ThresholdGrants ==
  ASSUME RowIInv, NEW c \in Callers, NEW n \in Nodes, NEW t \in 1..MaxScore,
         SetThreshold(c, n, t)
  PROVE  NewGrantsEarned
<1>1. bar'[n] = t /\ t # 0
  BY DEF SetThreshold, RowIInv, IInv, TypeOK
<1>2. Derive(row'[n], TRUE) = "completed" => Complete(n)'
  BY <1>1 DEF Complete, Derive
<1>3. \A k \in grants' \ grants : Derive(row'[n], TRUE) = "completed" /\ k \in Eligible(n)
  BY DEF SetThreshold, Given
<1> QED BY <1>2, <1>3, ChildrenEarned DEF NewGrantsEarned

(* The second commit of an unpublication leaves what was complete so.      *)
LEMMA SyncGrants ==
  ASSUME RowIInv, NEW c \in Callers, SyncUnpublished(c)
  PROVE  NewGrantsEarned
<1>1. PICK n \in Nodes : n = req[c].node
  BY RequestFields DEF RowIInv, IInv, TypeOK, SyncUnpublished, Doing
<1>2. row[n] \in Rows
  BY DEF RowIInv, IInv, TypeOK
<1> DEFINE new == ReadingOnly(row[n])
<1>3. new.done = row[n].done /\ new.passed = row[n].passed
  BY <1>2 DEF ReadingOnly, Rows
<1>4. BulkUpdate(n, new) /\ UNCHANGED bar
  BY <1>1 DEF SyncUnpublished, content
<1> HIDE DEF new
<1>5. PICK r \in {row[n], new} : row' = [row EXCEPT ![n] = r]
  BY <1>4 DEF BulkUpdate
<1>6. (row[n].done => r.done) /\ (row[n].passed => r.passed)
  BY <1>3, <1>5
<1>7. ASSUME Complete(n) PROVE Complete(n)'
  <2>1. UNCHANGED bar
    BY <1>4
  <2>2. row[n].done => r.done
    BY <1>6
  <2>3. row[n].passed => r.passed
    BY <1>6
  <2> QED BY <1>5, <1>7, <2>1, <2>2, <2>3, CompleteStays
<1>8. \A k \in grants' \ grants : Complete(n) /\ k \in Eligible(n)
  BY <1>1 DEF SyncUnpublished, Given
<1> QED BY <1>7, <1>8, ChildrenEarned DEF NewGrantsEarned

(* Every step grants only below a node that is complete after it, unless   *)
(* its request has been overtaken.                                         *)
LEMMA GrantStep ==
  ASSUME RowIInv, Next
  PROVE  NewGrantsEarned
<1>1. PICK c \in Callers : TraineeStep(c) \/ MentorStep(c) \/ RequestDies(c)
  BY DEF Next
<1>2. CASE UNCHANGED grants
  BY <1>2 DEF NewGrantsEarned
<1> QED BY <1>1, <1>2, ScrollGrants, ViewGrants, SubmitGrants, RowlessGrants, ThresholdGrants,
           SyncGrants
        DEF TraineeStep, MentorStep, RequestDies, ScrollRead, ViewRead, StartRead, SubmitCheck,
            SubmitRecord, PublishMaterial, UnpublishMaterial, PublishQuiz, UnpublishQuiz,
            ResetRead, ResetFails

(* However the requests overlap, only the reset of a superseded material   *)
(* takes a finished reading away, and only it or a scroll overtaken by a   *)
(* longer one lowers the saved percentage.                                 *)
THEOREM ReadingIsKept == Spec => ReadNeverRegresses
<1> DEFINE Stays == \A n \in Nodes :
       LET wasReset == \E c \in Callers :
             Acts(c) /\ Doing(c, "reset") /\ req[c].node = n /\ row'[n].read = 0
       IN /\ row[n].done /\ ~row'[n].done => wasReset
          /\ row'[n].read < row[n].read =>
               \/ wasReset
               \/ \E c \in Callers :
                    /\ Acts(c) /\ Doing(c, "scroll") /\ req[c].node = n
                    /\ req[c].seen.read < row[n].read
<1>1. RowIInv /\ [Next]_vars => [Stays]_vars
  BY ReadingStep DEF ReadingStays, Resets, ScrollsBack
<1> QED BY <1>1, RowInvariance, PTL DEF Spec, ReadNeverRegresses

(* However the requests overlap, a durable unlock is written only below a  *)
(* node that is complete by the rules of that moment, unless the request   *)
(* that writes it has been overtaken.                                      *)
THEOREM GrantsFollowCompletion == Spec => GrantedOnlyByCompletion
<1> DEFINE Granted == \A k \in grants' \ grants :
       \/ Parent[k] \in Nodes /\ Complete(Parent[k])' /\ HasContent(k)
       \/ \E c \in Callers : Acts(c) /\ AccessOvertaken(c) /\ req[c].node = k
       \/ \E c \in Callers : /\ Acts(c)
                            /\ req[c].op \in {"scroll", "record"}
                            /\ req[c].node = Parent[k]
                            /\ "status" \in Overtaken(c)
<1>1. RowIInv /\ [Next]_vars => [Granted]_vars
  <2>1. NewGrantsEarned => Granted
    BY DEF NewGrantsEarned, Earned, Late
  <2> QED BY <2>1, GrantStep
<1> QED BY <1>1, RowInvariance, PTL DEF Spec, GrantedOnlyByCompletion

=============================================================================
