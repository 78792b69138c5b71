-------------------------- MODULE QuizContentProofs --------------------------
(***************************************************************************)
(* For any number of quizzes, questions, runs and publications: trainees   *)
(* see one quiz with all its hints, and no run stores its questions twice  *)
(* or leaves a hint for a replaced text unless it is known to be mixed.    *)
(***************************************************************************)
EXTENDS QuizContent, FiniteSetTheorems, TLAPS

-----------------------------------------------------------------------------
(* What becomes of a run, field by field.                                  *)

(* The fields of a run.                                                    *)
LEMMA RunFields ==
  ASSUME NEW x \in RunRecords
  PROVE  /\ x.kind \in {"none", "make", "rework", "hint", "rehint"}
         /\ x.quiz \in Quizzes \cup {NoQuiz}
         /\ x.status \in {"over", "running", "stopped"}
         /\ x.pc \in {"queued", "loaded", "stored"}
         /\ x.seen \in [Slots -> Readings] /\ x.mixed \in BOOLEAN /\ x.made \in 0..2
BY DEF RunRecords

LEMMA NoRunFields ==
  /\ NoRun \in RunRecords /\ NoRun.kind = "none" /\ NoRun.status = "over" /\ NoRun.made = 0
BY DEF NoRun, RunRecords, Blank, Readings

LEMMA FreshFields ==
  ASSUME NEW kind \in {"make", "rework", "hint", "rehint"}, NEW q \in Quizzes \cup {NoQuiz},
         NEW S, NEW reworks
  PROVE  LET x == Fresh(kind, q, S, reworks)
         IN /\ x \in RunRecords /\ x.kind = kind /\ x.quiz = q /\ x.status = "running"
            /\ x.mixed = (reworks # {}) /\ x.made = 0
            /\ \A s \in Slots : x.seen[s] \in {"same", "no"}
<1>1. [s \in Slots |-> IF s \in S THEN "same" ELSE "no"] \in [Slots -> Readings]
  BY DEF Readings
<1> QED
  BY <1>1 DEF Fresh, RunRecords

LEMMA StoppedFields ==
  ASSUME NEW x \in RunRecords
  PROVE  /\ Stopped(x) \in RunRecords
         /\ Stopped(x).kind = x.kind /\ Stopped(x).quiz = x.quiz /\ Stopped(x).seen = x.seen
         /\ Stopped(x).mixed = x.mixed /\ Stopped(x).made = x.made
         /\ Stopped(x).status = "stopped"
         /\ x.pc # "queued" => Stopped(x).pc # "queued"
<1>1. CASE x.pc = "stored"
  BY <1>1 DEF Stopped, RunRecords
<1>2. CASE x.pc # "stored"
  BY <1>2 DEF Stopped, RunRecords
<1> QED
  BY <1>1, <1>2

LEMMA LoadedFields ==
  ASSUME NEW x \in RunRecords, NEW S
  PROVE  /\ Loaded(x, S) \in RunRecords
         /\ Loaded(x, S).kind = IF x.kind = "rehint" THEN "hint" ELSE x.kind
         /\ Loaded(x, S).quiz = x.quiz /\ Loaded(x, S).status = x.status
         /\ Loaded(x, S).mixed = x.mixed /\ Loaded(x, S).made = x.made
         /\ Loaded(x, S).pc = "loaded"
         /\ \A s \in Slots : Loaded(x, S).seen[s] \in {"same", "no"}
BY DEF Loaded, RunRecords, Readings

LEMMA StoredFields ==
  ASSUME NEW x \in RunRecords, NEW created \in {0, 1}, x.made + created <= 2
  PROVE  /\ Stored(x, created) \in RunRecords
         /\ Stored(x, created).kind = x.kind /\ Stored(x, created).quiz = x.quiz
         /\ Stored(x, created).status = x.status /\ Stored(x, created).seen = x.seen
         /\ Stored(x, created).mixed = x.mixed /\ Stored(x, created).pc = "stored"
         /\ Stored(x, created).made = x.made + created
<1>1. x.made + created \in 0..2
  BY RunFields
<1> QED
  BY <1>1 DEF Stored, RunRecords

LEMMA ResumedFields ==
  ASSUME NEW x \in RunRecords
  PROVE  /\ Resumed(x) \in RunRecords
         /\ Resumed(x).kind = x.kind /\ Resumed(x).quiz = x.quiz /\ Resumed(x).seen = x.seen
         /\ Resumed(x).pc = x.pc /\ Resumed(x).made = x.made
         /\ Resumed(x).mixed = (x.mixed \/ x.kind \in Hintwork)
BY DEF Resumed, RunRecords

LEMMA MixedFields ==
  ASSUME NEW x \in RunRecords
  PROVE  /\ Mixed(x) \in RunRecords
         /\ Mixed(x).kind = x.kind /\ Mixed(x).quiz = x.quiz /\ Mixed(x).seen = x.seen
         /\ Mixed(x).status = x.status /\ Mixed(x).pc = x.pc /\ Mixed(x).made = x.made
         /\ Mixed(x).mixed
BY DEF Mixed, RunRecords

LEMMA OutdatedFields ==
  ASSUME NEW x \in RunRecords, NEW S, NEW how \in {"edited", "replaced", "gone"}
  PROVE  LET y == Outdated(x, S, how)
         IN /\ y \in RunRecords
            /\ y.kind = x.kind /\ y.quiz = x.quiz /\ y.status = x.status
            /\ y.pc = x.pc /\ y.mixed = x.mixed /\ y.made = x.made
            /\ \A s \in Slots : y.seen[s] = x.seen[s] \/ y.seen[s] = how
BY DEF Outdated, RunRecords, Readings

LEMMA SetLifeFields ==
  ASSUME TypeOK, NEW q \in Quizzes, NEW life \in Lives, SetLife(q, life)
  PROVE  /\ quiz' \in [Quizzes -> [life: Lives, published: BOOLEAN]]
         /\ \A p \in Quizzes : quiz'[p].published = quiz[p].published
         /\ \A p \in Quizzes : p # q => quiz'[p] = quiz[p]
         /\ quiz'[q].life = life
BY DEF SetLife, TypeOK

-----------------------------------------------------------------------------
(* How steps treat the runs.                                               *)

\* What the invariant says of one run by itself.
RunOk(y) ==
  /\ y.made > 0 => y.kind = "make" /\ y.pc # "queued"
  /\ y.made = 2 => \A s \in Slots : y.seen[s] = "no"
  /\ y.kind \in Hintwork /\ y.status = "running" /\ ~y.mixed => \A s \in Slots : y.seen[s] # "replaced"

\* The run y goes on where x was, and is not started or resumed unless it is known to be mixed.
Keeps(x, y) ==
  \/ y = NoRun
  \/ /\ y.kind = x.kind \/ (x.kind = "rehint" /\ y.kind = "hint")
     /\ y.quiz = x.quiz
     /\ y.status = "running" => x.status = "running" \/ (y.kind \in Hintwork /\ y.mixed)
     /\ x.mixed => y.mixed

(* The invariant gives every run what it says of one.                      *)
LEMMA OkRuns ==
  ASSUME IInv, NEW r \in Runs
  PROVE  run[r] \in RunRecords /\ RunOk(run[r])
BY DEF IInv, TypeOK, StoredOnce, MixedIsKnown, RunOk, Asked

(* No run at all is fine.                                                  *)
LEMMA NoRunOk == NoRun \in RunRecords /\ RunOk(NoRun)
BY NoRunFields DEF RunOk, Hintwork

(* A step in which every run is fine and goes on where it was.             *)
LEMMA RunStep ==
  ASSUME IInv, run' \in [Runs -> RunRecords], Exists \subseteq Exists',
         \A r \in Runs : RunOk(run'[r]) /\ Keeps(run[r], run'[r])
  PROVE  StoredOnce' /\ MixedIsKnown' /\ RunsHaveQuiz'
<1>1. StoredOnce'
  BY DEF StoredOnce, RunOk, Asked
<1>2. MixedIsKnown'
  <2>1. SUFFICES ASSUME NEW r \in Runs, run'[r].kind \in Hintwork, run'[r].status = "running",
                        ~run'[r].mixed, NEW x \in Runs, run'[x].kind = "rework",
                        run'[x].quiz = run'[r].quiz, run'[x].status = "running"
                 PROVE  FALSE
    BY DEF MixedIsKnown, Running, On, RunOk
  <2>2. Keeps(run[r], run'[r]) /\ Keeps(run[x], run'[x])
    OBVIOUS
  <2>3. run[r].kind \in Hintwork /\ run[r].status = "running" /\ ~run[r].mixed /\ run[r].quiz = run'[r].quiz
    BY <2>1, <2>2, NoRunFields DEF Keeps, Hintwork
  <2>4. run[x].kind = "rework" /\ run[x].status = "running" /\ run[x].quiz = run'[x].quiz
    BY <2>1, <2>2, NoRunFields DEF Keeps, Hintwork
  <2> QED
    BY <2>1, <2>3, <2>4 DEF IInv, MixedIsKnown, Running, On
<1>3. RunsHaveQuiz'
  <2>1. SUFFICES ASSUME NEW r \in Runs, run'[r].kind \notin {"none", "make"}
                 PROVE  run'[r].quiz \in Exists'
    BY DEF RunsHaveQuiz
  <2>2. Keeps(run[r], run'[r])
    OBVIOUS
  <2>3. run[r].kind \notin {"none", "make"} /\ run'[r].quiz = run[r].quiz
    BY <2>1, <2>2, NoRunFields DEF Keeps
  <2> QED
    BY <2>3 DEF IInv, RunsHaveQuiz
<1> QED
  BY <1>1, <1>2, <1>3

(* A step that leaves the runs alone.                                      *)
LEMMA RunsStay ==
  ASSUME IInv, run' = run, Exists \subseteq Exists'
  PROVE  StoredOnce' /\ MixedIsKnown' /\ RunsHaveQuiz'
<1>1. \A r \in Runs : RunOk(run'[r]) /\ Keeps(run[r], run'[r])
  BY OkRuns DEF Keeps
<1>2. run' \in [Runs -> RunRecords]
  BY DEF IInv, TypeOK
<1> QED
  BY <1>1, <1>2, RunStep

(* A step of one run.                                                      *)
LEMMA OneRunStep ==
  ASSUME IInv, NEW r \in Runs, NEW y \in RunRecords, run' = [run EXCEPT ![r] = y],
         RunOk(y), Keeps(run[r], y), Exists \subseteq Exists'
  PROVE  run' \in [Runs -> RunRecords] /\ StoredOnce' /\ MixedIsKnown' /\ RunsHaveQuiz'
<1>1. run \in [Runs -> RunRecords]
  BY DEF IInv, TypeOK
<1>2. run' \in [Runs -> RunRecords]
  BY <1>1
<1>3. \A x \in Runs : RunOk(run'[x]) /\ Keeps(run[x], run'[x])
  BY <1>1, OkRuns DEF Keeps
<1> QED
  BY <1>2, <1>3, RunStep

(* Runs that stop are fine.                                                *)
LEMMA StoppedOk ==
  ASSUME NEW x \in RunRecords, RunOk(x)
  PROVE  Stopped(x) \in RunRecords /\ RunOk(Stopped(x)) /\ Keeps(x, Stopped(x))
BY StoppedFields DEF RunOk, Keeps

(* A text that is replaced, changed or deleted under a run leaves it fine:  *)
(* a rework that replaces it is running, so hint runs are known as mixed.   *)
LEMMA RereadRuns ==
  ASSUME IInv, NEW q \in Quizzes, NEW S, NEW how \in {"edited", "replaced", "gone"},
         how = "replaced" => Running({"rework"}, q) # {}
  PROVE  /\ Reread(q, S, how) \in [Runs -> RunRecords]
         /\ \A r \in Runs : LET y == Reread(q, S, how)[r] IN RunOk(y) /\ Keeps(run[r], y)
<1>1. SUFFICES ASSUME NEW r \in Runs
               PROVE  LET y == Reread(q, S, how)[r]
                      IN y \in RunRecords /\ RunOk(y) /\ Keeps(run[r], y)
  BY DEF Reread
<1>2. run[r] \in RunRecords /\ RunOk(run[r]) /\ Keeps(run[r], run[r])
  BY OkRuns DEF Keeps
<1>3. CASE Reread(q, S, how)[r] = run[r]
  BY <1>2, <1>3
<1>4. CASE Reread(q, S, how)[r] # run[r]
  <2> DEFINE y == Outdated(run[r], S, how)
  <2>1. Reread(q, S, how)[r] = y /\ run[r].kind \notin {"none", "make"} /\ run[r].quiz = q
    BY <1>4 DEF Reread
  <2>2. /\ y \in RunRecords
        /\ y.kind = run[r].kind /\ y.quiz = run[r].quiz /\ y.status = run[r].status
        /\ y.mixed = run[r].mixed /\ y.made = run[r].made
        /\ \A s \in Slots : y.seen[s] = run[r].seen[s] \/ y.seen[s] = how
    BY <1>2, OutdatedFields
  <2> HIDE DEF y
  <2>3. Keeps(run[r], y)
    BY <2>2 DEF Keeps
  <2>4. ~(run[r].made > 0)
    BY <1>2, <2>1 DEF RunOk
  <2>5. run[r].made = 0
    BY <1>2, <2>4, RunFields
  <2>6. how = "replaced" => ~(y.kind \in Hintwork /\ y.status = "running" /\ ~y.mixed)
    BY <2>1, <2>2 DEF IInv, MixedIsKnown
  <2>7. y.made = 0
    BY <2>2, <2>5
  <2>8. /\ y.made > 0 => y.kind = "make" /\ y.pc # "queued"
        /\ y.made = 2 => \A s \in Slots : y.seen[s] = "no"
    BY <2>7
  <2>9. y.kind \in Hintwork /\ y.status = "running" /\ ~y.mixed => \A s \in Slots : y.seen[s] # "replaced"
    BY <1>2, <2>2, <2>6 DEF RunOk
  <2>10. RunOk(y)
    BY <2>8, <2>9 DEF RunOk
  <2> QED
    BY <2>1, <2>2, <2>3, <2>10
<1> QED
  BY <1>3, <1>4

(* A step in which one run changes what the others have read.              *)
LEMMA RereadStep ==
  ASSUME IInv, NEW q \in Quizzes, NEW S, NEW how \in {"edited", "replaced", "gone"},
         how = "replaced" => Running({"rework"}, q) # {}, Exists \subseteq Exists',
         NEW r \in Runs, NEW y \in RunRecords, RunOk(y), Keeps(run[r], y),
         run' = [Reread(q, S, how) EXCEPT ![r] = y]
  PROVE  run' \in [Runs -> RunRecords] /\ StoredOnce' /\ MixedIsKnown' /\ RunsHaveQuiz'
<1>1. /\ Reread(q, S, how) \in [Runs -> RunRecords]
      /\ \A x \in Runs : RunOk(Reread(q, S, how)[x]) /\ Keeps(run[x], Reread(q, S, how)[x])
  BY RereadRuns
<1> DEFINE R == Reread(q, S, how)
<1> HIDE DEF R
<1>2. R \in [Runs -> RunRecords] /\ run' = [R EXCEPT ![r] = y]
  BY <1>1 DEF R
<1>3. run' \in [Runs -> RunRecords]
  BY <1>2
<1>4. \A x \in Runs : run'[x] = IF x = r THEN y ELSE R[x]
  BY <1>2
<1>5. \A x \in Runs : RunOk(run'[x]) /\ Keeps(run[x], run'[x])
  BY <1>1, <1>4 DEF R
<1> QED
  BY <1>3, <1>5, RunStep

(* A run that is started.  A rework waits for hints, and hints that do not  *)
(* wait for a rework are marked.                                           *)
LEMMA ClaimStep ==
  ASSUME IInv, NEW r \in Runs, NEW y \in RunRecords, Claim(r, y), RunOk(y),
         quiz' = quiz, y.kind \notin {"none", "make"} => y.quiz \in Exists,
         y.kind = "rework" => Running(Hintwork, y.quiz) = {},
         y.kind \in Hintwork /\ ~y.mixed => Running({"rework"}, y.quiz) = {}
  PROVE  run' \in [Runs -> RunRecords] /\ StoredOnce' /\ MixedIsKnown' /\ RunsHaveQuiz'
<1>1. \A x \in Runs : run'[x] = IF x = r THEN y ELSE run'[x]
  BY DEF Claim
<1>2. \A x \in Runs : x # r => run'[x] = NoRun \/ run'[x] = run[x]
  BY DEF Claim
<1>3. \A x \in Runs : run'[x] \in RunRecords /\ RunOk(run'[x])
  BY <1>1, <1>2, OkRuns, NoRunOk
<1>4. run' \in [Runs -> RunRecords]
  BY <1>3 DEF Claim
<1>5. StoredOnce'
  BY <1>3 DEF StoredOnce, RunOk, Asked
<1>6. RunsHaveQuiz'
  BY <1>1, <1>2, NoRunFields DEF IInv, RunsHaveQuiz, Exists
<1>7. MixedIsKnown'
  <2>1. SUFFICES ASSUME NEW h \in Runs, run'[h].kind \in Hintwork, run'[h].status = "running",
                        ~run'[h].mixed, NEW x \in Runs, run'[x].kind = "rework",
                        run'[x].quiz = run'[h].quiz, run'[x].status = "running"
                 PROVE  FALSE
    BY <1>3 DEF MixedIsKnown, Running, On, RunOk
  <2>2. x # h /\ run'[h] # NoRun /\ run'[x] # NoRun
    BY <2>1, NoRunFields DEF Hintwork
  <2>3. CASE h = r
    BY <1>1, <1>2, <2>1, <2>2, <2>3 DEF Running, On
  <2>4. CASE x = r
    BY <1>1, <1>2, <2>1, <2>2, <2>4 DEF Running, On
  <2>5. CASE h # r /\ x # r
    BY <1>2, <2>1, <2>2, <2>5 DEF IInv, MixedIsKnown, Running, On
  <2> QED
    BY <2>3, <2>4, <2>5
<1> QED
  BY <1>4, <1>5, <1>6, <1>7

-----------------------------------------------------------------------------
(* How steps treat the quizzes.                                            *)

(* A publication that is not there holds nothing.                          *)
LEMMA NoPubHolds == NoPub.held = {}
BY DEF NoPub

(* A step that publishes nothing and leaves the questions of locked quizzes *)
(* and those of published quizzes that no run has changed.                 *)
LEMMA QuizStep ==
  ASSUME IInv, pub' = pub, Published' \subseteq Published, Exists \subseteq Exists',
         \A q \in Locked : question'[q] = question[q],
         \A q \in Published' \ rewritten' : q \notin rewritten /\ question'[q] = question[q]
  PROVE  PublicationsExclude' /\ PublishedComplete'
<1>1. PublishedComplete'
  BY DEF IInv, PublishedComplete, MissingHints
<1>2. ASSUME NEW m \in Mentors, pub[m] # NoPub
      PROVE  /\ pub[m].quiz \in pub[m].held /\ pub[m].held \subseteq Exists'
             /\ Published' \subseteq pub[m].others \cup {pub[m].quiz}
             /\ MissingHints(pub[m].quiz)' = {}
  <2>1. /\ pub[m].quiz \in pub[m].held /\ pub[m].held \subseteq Exists
        /\ Published \subseteq pub[m].others \cup {pub[m].quiz}
        /\ MissingHints(pub[m].quiz) = {}
    BY <1>2 DEF IInv, PublicationsExclude
  <2>2. question'[pub[m].quiz] = question[pub[m].quiz]
    BY <2>1 DEF Locked
  <2>3. MissingHints(pub[m].quiz)' = {}
    BY <2>1, <2>2 DEF MissingHints
  <2> QED
    BY <2>1, <2>3
<1>3. PublicationsExclude'
  BY <1>2 DEF IInv, PublicationsExclude
<1> QED
  BY <1>1, <1>3

(* Runs that only run: the quizzes stay as they are.                       *)
LEMMA OnlyRuns ==
  ASSUME IInv, run' \in [Runs -> RunRecords], UNCHANGED <<quiz, question, pub, rewritten>>
  PROVE  TypeOK' /\ PublicationsExclude' /\ PublishedComplete' /\ Exists' = Exists
<1>1. TypeOK'
  BY DEF IInv, TypeOK
<1>2. Published' = Published /\ Exists' = Exists
  BY DEF Published, Exists
<1>3. \A q \in Published' \ rewritten' : q \notin rewritten
  OBVIOUS
<1> QED
  BY <1>1, <1>2, <1>3, QuizStep

-----------------------------------------------------------------------------
(* Starting runs.                                                          *)

(* A fresh run is fine.                                                    *)
LEMMA FreshOk ==
  ASSUME NEW kind \in {"make", "rework", "hint", "rehint"}, NEW q \in Quizzes \cup {NoQuiz},
         NEW S, NEW reworks
  PROVE  /\ Fresh(kind, q, S, reworks) \in RunRecords /\ RunOk(Fresh(kind, q, S, reworks))
         /\ Fresh(kind, q, S, reworks).kind = kind /\ Fresh(kind, q, S, reworks).quiz = q
         /\ Fresh(kind, q, S, reworks).mixed = (reworks # {})
<1> DEFINE x == Fresh(kind, q, S, reworks)
<1>1. /\ x \in RunRecords /\ x.kind = kind /\ x.quiz = q /\ x.mixed = (reworks # {}) /\ x.made = 0
      /\ \A s \in Slots : x.seen[s] \in {"same", "no"}
  BY FreshFields
<1> HIDE DEF x
<1>2. RunOk(x)
  BY <1>1 DEF RunOk
<1> QED
  BY <1>1, <1>2 DEF x

LEMMA StepStartMake ==
  ASSUME IInv, NEW r \in Runs, StartMake(r)
  PROVE  IInv'
<1>1. PICK q \in Quizzes \cup {NoQuiz} : Claim(r, Fresh("make", q, {}, {}))
  BY DEF StartMake
<1>2. UNCHANGED <<quiz, question, pub, rewritten>>
  BY DEF StartMake
<1> DEFINE y == Fresh("make", q, {}, {})
<1>3. y \in RunRecords /\ RunOk(y) /\ y.kind = "make"
  BY FreshOk
<1> HIDE DEF y
<1>4. Claim(r, y)
  BY <1>1 DEF y
<1>6. /\ quiz' = quiz /\ (y.kind \notin {"none", "make"} => y.quiz \in Exists)
      /\ y.kind = "rework" => Running(Hintwork, y.quiz) = {}
      /\ y.kind \in Hintwork /\ ~y.mixed => Running({"rework"}, y.quiz) = {}
  BY <1>2, <1>3 DEF Hintwork
<1>5. run' \in [Runs -> RunRecords] /\ StoredOnce' /\ MixedIsKnown' /\ RunsHaveQuiz'
  BY <1>3, <1>4, <1>6, ClaimStep
<1> QED
  BY <1>2, <1>5, OnlyRuns DEF IInv

LEMMA StepStartRework ==
  ASSUME IInv, NEW r \in Runs, StartRework(r)
  PROVE  IInv'
<1>1. PICK q \in Quizzes : \E S \in (SUBSET Active(q)) \ {{}} :
        /\ Mutable(q)
        /\ Running(Quizwork \cup Hintwork, q) = {}
        /\ Claim(r, Fresh("rework", q, S, {}))
  BY DEF StartRework
<1>2. UNCHANGED <<quiz, question, pub, rewritten>>
  BY DEF StartRework
<1>6. PICK S \in SUBSET Active(q) : Claim(r, Fresh("rework", q, S, {}))
  BY <1>1
<1> DEFINE y == Fresh("rework", q, S, {})
<1>3. y \in RunRecords /\ RunOk(y) /\ y.kind = "rework" /\ y.quiz = q
  BY FreshOk
<1> HIDE DEF y
<1>4. Claim(r, y)
  BY <1>6 DEF y
<1>5. q \in Exists /\ Running(Hintwork, q) = {}
  BY <1>1 DEF Mutable, Running, On
<1>8. /\ quiz' = quiz /\ (y.kind \notin {"none", "make"} => y.quiz \in Exists)
      /\ y.kind = "rework" => Running(Hintwork, y.quiz) = {}
      /\ y.kind \in Hintwork /\ ~y.mixed => Running({"rework"}, y.quiz) = {}
  BY <1>2, <1>3, <1>5 DEF Hintwork
<1>7. run' \in [Runs -> RunRecords] /\ StoredOnce' /\ MixedIsKnown' /\ RunsHaveQuiz'
  BY <1>3, <1>4, <1>8, ClaimStep
<1> QED
  BY <1>2, <1>7, OnlyRuns DEF IInv

LEMMA StepStartHints ==
  ASSUME IInv, NEW r \in Runs, StartHints(r)
  PROVE  IInv'
<1>1. UNCHANGED <<quiz, question, pub, rewritten>>
  BY DEF StartHints
<1>2. PICK q \in Quizzes :
        /\ Mutable(q)
        /\ \E kind \in Hintwork : \E S \in SUBSET Active(q) :
             Claim(r, Fresh(kind, q, S, Running({"rework"}, q)))
  <2>1. PICK q \in Quizzes :
          /\ Mutable(q)
          /\ \/ Claim(r, Fresh("hint", q, {}, Running({"rework"}, q)))
             \/ \E S \in (SUBSET Active(q)) \ {{}} :
                  Claim(r, Fresh("rehint", q, S, Running({"rework"}, q)))
    BY DEF StartHints
  <2>2. CASE Claim(r, Fresh("hint", q, {}, Running({"rework"}, q)))
    BY <2>1, <2>2 DEF Hintwork
  <2>3. CASE \E S \in (SUBSET Active(q)) \ {{}} :
               Claim(r, Fresh("rehint", q, S, Running({"rework"}, q)))
    BY <2>1, <2>3 DEF Hintwork
  <2> QED
    BY <2>1, <2>2, <2>3
<1>3. PICK kind \in Hintwork, S \in SUBSET Active(q) :
        Claim(r, Fresh(kind, q, S, Running({"rework"}, q)))
  BY <1>2
<1> DEFINE y == Fresh(kind, q, S, Running({"rework"}, q))
<1>4. /\ y \in RunRecords /\ RunOk(y) /\ y.kind \in Hintwork /\ y.quiz = q
      /\ y.mixed = (Running({"rework"}, q) # {})
  BY FreshOk DEF Hintwork
<1> HIDE DEF y
<1>5. Claim(r, y)
  BY <1>3 DEF y
<1>6. q \in Exists
  BY <1>2 DEF Mutable
<1>8. /\ quiz' = quiz /\ (y.kind \notin {"none", "make"} => y.quiz \in Exists)
      /\ y.kind = "rework" => Running(Hintwork, y.quiz) = {}
      /\ y.kind \in Hintwork /\ ~y.mixed => Running({"rework"}, y.quiz) = {}
  BY <1>1, <1>4, <1>6 DEF Hintwork
<1>7. run' \in [Runs -> RunRecords] /\ StoredOnce' /\ MixedIsKnown' /\ RunsHaveQuiz'
  BY <1>4, <1>5, <1>8, ClaimStep
<1> QED
  BY <1>1, <1>7, OnlyRuns DEF IInv

-----------------------------------------------------------------------------
(* Working without changing a quiz.                                        *)

LEMMA StepStop ==
  ASSUME IInv, NEW r \in Runs, Stop(r), UNCHANGED <<quiz, question, pub, rewritten>>
  PROVE  IInv'
<1>1. Stopped(run[r]) \in RunRecords /\ RunOk(Stopped(run[r])) /\ Keeps(run[r], Stopped(run[r]))
  BY OkRuns, StoppedOk
<1>2. run' = [run EXCEPT ![r] = Stopped(run[r])]
  BY DEF Stop
<1>3. Exists' = Exists
  BY DEF Exists
<1>4. run' \in [Runs -> RunRecords] /\ StoredOnce' /\ MixedIsKnown' /\ RunsHaveQuiz'
  BY <1>1, <1>2, <1>3, OneRunStep
<1> QED
  BY <1>4, OnlyRuns DEF IInv

(* A run that is loaded has stored nothing yet, and has read what is there. *)
LEMMA LoadedOk ==
  ASSUME NEW x \in RunRecords, RunOk(x), x.pc = "queued", NEW S
  PROVE  Loaded(x, S) \in RunRecords /\ RunOk(Loaded(x, S)) /\ Keeps(x, Loaded(x, S))
<1> DEFINE y == Loaded(x, S)
<1>1. /\ y \in RunRecords
      /\ y.kind = IF x.kind = "rehint" THEN "hint" ELSE x.kind
      /\ y.quiz = x.quiz /\ y.status = x.status
      /\ y.mixed = x.mixed /\ y.made = x.made
      /\ \A s \in Slots : y.seen[s] \in {"same", "no"}
  BY LoadedFields
<1> HIDE DEF y
<1>2. ~(x.made > 0)
  BY DEF RunOk
<1>3. x.made = 0
  BY <1>2, RunFields
<1>4. y.made = 0
  BY <1>1, <1>3
<1>5. RunOk(y)
  BY <1>1, <1>4 DEF RunOk
<1>6. Keeps(x, y)
  BY <1>1 DEF Keeps
<1> QED
  BY <1>1, <1>5, <1>6 DEF y

LEMMA StepLoaded ==
  ASSUME IInv, NEW r \in Runs, run[r].pc = "queued", NEW S, run' = [run EXCEPT ![r] = Loaded(@, S)],
         UNCHANGED <<quiz, question, pub, rewritten>>
  PROVE  IInv'
<1>1. Loaded(run[r], S) \in RunRecords /\ RunOk(Loaded(run[r], S)) /\ Keeps(run[r], Loaded(run[r], S))
  BY OkRuns, LoadedOk
<1>2. run' = [run EXCEPT ![r] = Loaded(run[r], S)]
  OBVIOUS
<1>3. Exists' = Exists
  BY DEF Exists
<1>4. run' \in [Runs -> RunRecords] /\ StoredOnce' /\ MixedIsKnown' /\ RunsHaveQuiz'
  BY <1>1, <1>2, <1>3, OneRunStep
<1> QED
  BY <1>4, OnlyRuns DEF IInv

LEMMA StepLoad ==
  ASSUME IInv, NEW r \in Runs, Load(r)
  PROVE  IInv'
<1>1. CASE Stop(r)
  BY <1>1, StepStop DEF Load
<1>2. CASE ~Stop(r)
  <2>1. /\ run[r].pc = "queued" /\ UNCHANGED <<quiz, question, pub, rewritten>>
        /\ run' = [run EXCEPT ![r] = Loaded(@, Reads(r))]
    BY <1>2 DEF Load
  <2> QED
    BY <2>1, StepLoaded
<1> QED
  BY <1>1, <1>2

LEMMA StepGenerate ==
  ASSUME IInv, NEW r \in Runs, Generate(r)
  PROVE  IInv'
BY StepLoaded DEF Generate

LEMMA StepOver ==
  ASSUME IInv, NEW r \in Runs, Complete(r) \/ Abandon(r)
  PROVE  IInv'
<1>1. run' = [run EXCEPT ![r] = NoRun] /\ UNCHANGED <<quiz, question, pub, rewritten>>
  BY DEF Complete, Abandon
<1>2. NoRun \in RunRecords /\ RunOk(NoRun) /\ Keeps(run[r], NoRun)
  BY NoRunOk DEF Keeps
<1>3. Exists' = Exists
  BY <1>1 DEF Exists
<1>4. run' \in [Runs -> RunRecords] /\ StoredOnce' /\ MixedIsKnown' /\ RunsHaveQuiz'
  BY <1>1, <1>2, <1>3, OneRunStep
<1> QED
  BY <1>1, <1>4, OnlyRuns DEF IInv

(* A rework that is resumed makes every run known as mixed that writes     *)
(* hints for its quiz.                                                     *)
LEMMA StepResume ==
  ASSUME IInv, NEW r \in Runs, Resume(r)
  PROVE  IInv'
<1>1. UNCHANGED <<quiz, question, pub, rewritten>> /\ Exists' = Exists
  BY DEF Resume, Exists
<1> DEFINE y == Resumed(run[r])
<1>2. /\ y \in RunRecords /\ y.kind = run[r].kind /\ y.quiz = run[r].quiz /\ y.seen = run[r].seen
      /\ y.pc = run[r].pc /\ y.made = run[r].made /\ y.mixed = (run[r].mixed \/ run[r].kind \in Hintwork)
  BY OkRuns, ResumedFields
<1> HIDE DEF y
<1>3. RunOk(y)
  BY <1>2, OkRuns DEF RunOk
<1>4. run'[r] = y
  BY DEF Resume, y
<1>5. ASSUME NEW x \in Runs, x # r
      PROVE  \/ run'[x] = run[x] /\ ~(run[r].kind = "rework" /\ x \in On(Hintwork, run[r].quiz))
             \/ run'[x] = Mixed(run[x])
  BY <1>5 DEF Resume
<1>6. ASSUME NEW x \in Runs
      PROVE  /\ Mixed(run[x]) \in RunRecords
             /\ Mixed(run[x]).kind = run[x].kind /\ Mixed(run[x]).quiz = run[x].quiz
             /\ Mixed(run[x]).seen = run[x].seen /\ Mixed(run[x]).status = run[x].status
             /\ Mixed(run[x]).pc = run[x].pc /\ Mixed(run[x]).made = run[x].made
             /\ Mixed(run[x]).mixed
  BY OkRuns, MixedFields
<1>7. \A x \in Runs : RunOk(Mixed(run[x]))
  BY <1>6, OkRuns DEF RunOk
<1>8. \A x \in Runs : run'[x] \in RunRecords /\ RunOk(run'[x])
  BY <1>2, <1>3, <1>4, <1>5, <1>6, <1>7, OkRuns
<1>9. run' \in [Runs -> RunRecords]
  BY <1>8 DEF Resume
<1>10. StoredOnce'
  BY <1>8 DEF StoredOnce, RunOk, Asked
<1>11. \A x \in Runs : run'[x].kind = run[x].kind /\ run'[x].quiz = run[x].quiz
  BY <1>2, <1>4, <1>5, <1>6
<1>12. RunsHaveQuiz'
  BY <1>1, <1>11 DEF IInv, RunsHaveQuiz
<1>13. MixedIsKnown'
  <2>1. SUFFICES ASSUME NEW h \in Runs, run'[h].kind \in Hintwork, run'[h].status = "running",
                        ~run'[h].mixed, NEW x \in Runs, run'[x].kind = "rework",
                        run'[x].quiz = run'[h].quiz, run'[x].status = "running"
                 PROVE  FALSE
    BY <1>8 DEF MixedIsKnown, Running, On, RunOk
  <2>2. h # r
    BY <1>2, <1>4, <2>1
  <2>3. run'[h] = run[h] /\ ~(run[r].kind = "rework" /\ h \in On(Hintwork, run[r].quiz))
    BY <1>5, <1>6, <2>1, <2>2
  <2>4. x # r
    BY <1>11, <2>1, <2>3 DEF On
  <2>5. run[x].status = "running"
    BY <1>5, <1>6, <2>1, <2>4
  <2> QED
    BY <1>11, <2>1, <2>3, <2>5 DEF IInv, MixedIsKnown, Running, On
<1> QED
  BY <1>1, <1>9, <1>10, <1>12, <1>13, OnlyRuns DEF IInv

-----------------------------------------------------------------------------
(* Storing what was made.                                                  *)

(* What a run that is ready to store is like once it has stored.           *)
LEMMA StoredOk ==
  ASSUME NEW x \in RunRecords, RunOk(x), NEW created \in {0, 1}, x.made + created <= 2,
         created = 1 => x.kind = "make",
         x.made + created = 2 => \A s \in Slots : x.seen[s] = "no"
  PROVE  Stored(x, created) \in RunRecords /\ RunOk(Stored(x, created)) /\ Keeps(x, Stored(x, created))
<1> DEFINE y == Stored(x, created)
<1>1. /\ y \in RunRecords /\ y.kind = x.kind /\ y.quiz = x.quiz /\ y.status = x.status
      /\ y.seen = x.seen /\ y.mixed = x.mixed /\ y.pc = "stored" /\ y.made = x.made + created
  BY StoredFields
<1> HIDE DEF y
<1>2. x.made \in 0..2
  BY RunFields
<1>3. y.made > 0 => y.kind = "make" /\ y.pc # "queued"
  BY <1>1, <1>2 DEF RunOk
<1>4. y.made = 2 => \A s \in Slots : y.seen[s] = "no"
  BY <1>1
<1>5. RunOk(y)
  BY <1>1, <1>3, <1>4 DEF RunOk
<1>6. Keeps(x, y)
  BY <1>1 DEF Keeps
<1> QED
  BY <1>1, <1>5, <1>6 DEF y

(* The quiz that is stored replaces the questions of a quiz nobody         *)
(* publishes, or those of a published quiz, which then counts as rewritten. *)
LEMMA StepStore ==
  ASSUME IInv, NEW r \in Runs, Ready(r, {"make"}), NEW q \in Quizzes \ Locked, Store(r, q, "draft"),
         run[r].quiz = NoQuiz => run[r].made < 2 /\ (run[r].made = 0 \/ Asked(r) = {}),
         rewritten' \subseteq Quizzes, rewritten \subseteq rewritten',
         q \in Published => q \in rewritten', pub' = pub
  PROVE  IInv'
<1> DEFINE created == IF run[r].quiz = NoQuiz THEN 1 ELSE 0
           y == Stored(run[r], created)
<1>1. run[r] \in RunRecords /\ RunOk(run[r]) /\ run[r].kind = "make" /\ run[r].made \in 0..2
  BY OkRuns, RunFields DEF Ready
<1>2. run[r].made + created <= 2
  BY <1>1
<1>3. run[r].made + created = 2 => \A s \in Slots : run[r].seen[s] = "no"
  <2>1. CASE run[r].quiz = NoQuiz
    BY <1>1, <2>1 DEF Asked
  <2>2. CASE run[r].quiz # NoQuiz
    BY <1>1, <2>2 DEF RunOk
  <2> QED
    BY <2>1, <2>2
<1>4. created \in {0, 1} /\ run' = [Reread(q, Slots, "gone") EXCEPT ![r] = y]
  BY DEF Store
<1> HIDE DEF created
<1>5. y \in RunRecords /\ RunOk(y) /\ Keeps(run[r], y)
  BY <1>1, <1>2, <1>3, <1>4, StoredOk
<1> HIDE DEF y
<1>6. SetLife(q, "draft") /\ TypeOK
  BY DEF Store, IInv
<1>7. /\ quiz' \in [Quizzes -> [life: Lives, published: BOOLEAN]]
      /\ \A p \in Quizzes : quiz'[p].published = quiz[p].published
      /\ \A p \in Quizzes : p # q => quiz'[p] = quiz[p]
      /\ quiz'[q].life = "draft"
  BY <1>6, SetLifeFields DEF Lives
<1>8. Exists \subseteq Exists' /\ Published' = Published
  BY <1>7 DEF Exists, Published
<1>9. run' \in [Runs -> RunRecords] /\ StoredOnce' /\ MixedIsKnown' /\ RunsHaveQuiz'
  BY <1>4, <1>5, <1>8, RereadStep
<1>10. question' = [question EXCEPT ![q] = [s \in Slots |-> IF s \in Asked(r) THEN "bare" ELSE "off"]]
  BY DEF Store
<1>11. question' \in [Quizzes -> [Slots -> Questions]]
  BY <1>6, <1>10 DEF TypeOK, Questions
<1>12. \A p \in Quizzes : p # q => question'[p] = question[p]
  BY <1>6, <1>10 DEF TypeOK
<1>13. Locked \subseteq Quizzes
  BY <1>6 DEF TypeOK, Locked
<1>14. TypeOK'
  BY <1>6, <1>7, <1>9, <1>11 DEF TypeOK
<1>15. Published' \subseteq Quizzes
  BY DEF Published
<1>16. \A p \in Locked : question'[p] = question[p]
  BY <1>12, <1>13
<1>17. \A p \in Published' \ rewritten' : p \notin rewritten /\ question'[p] = question[p]
  BY <1>8, <1>12, <1>15
<1>18. PublicationsExclude' /\ PublishedComplete'
  BY <1>8, <1>16, <1>17, QuizStep
<1> QED
  BY <1>9, <1>14, <1>18 DEF IInv

LEMMA StepCreate ==
  ASSUME IInv, NEW r \in Runs, Create(r)
  PROVE  IInv'
<1>1. PICK q \in Quizzes \ Exists : Store(r, q, "draft")
  BY DEF Create
<1>2. q \notin Locked /\ q \notin Published
  BY <1>1, NoPubHolds DEF IInv, PublicationsExclude, Locked
<1>3. rewritten \subseteq Quizzes
  BY DEF IInv, TypeOK
<1> QED
  BY <1>1, <1>2, <1>3, StepStore DEF Create

LEMMA StepReplace ==
  ASSUME IInv, NEW r \in Runs, Replace(r)
  PROVE  IInv'
<1>1. run[r].quiz \in Quizzes \ Locked /\ run[r].quiz # NoQuiz
  BY QuizAssumption DEF Replace, Exists
<1>2. rewritten \subseteq Quizzes
  BY DEF IInv, TypeOK
<1>3. /\ rewritten' \subseteq Quizzes /\ rewritten \subseteq rewritten' /\ pub' = pub
      /\ run[r].quiz \in Published => run[r].quiz \in rewritten'
  BY <1>1, <1>2 DEF Replace
<1>4. Ready(r, {"make"}) /\ Store(r, run[r].quiz, "draft")
  BY DEF Replace
<1> QED
  BY <1>1, <1>3, <1>4, StepStore

(* A run that changes questions: those of a quiz that nobody publishes and *)
(* that is not published, or counts as rewritten if it is.                 *)
LEMMA StepQuestions ==
  ASSUME IInv, NEW q \in Quizzes \ Locked, NEW F \in [Slots -> Questions],
         question' = [question EXCEPT ![q] = F], UNCHANGED <<quiz, pub>>,
         rewritten' \subseteq Quizzes, rewritten \subseteq rewritten',
         q \in Published => q \in rewritten' \/ F = question[q],
         run' \in [Runs -> RunRecords]
  PROVE  TypeOK' /\ PublicationsExclude' /\ PublishedComplete'
<1>1. TypeOK
  BY DEF IInv
<1>2. question' \in [Quizzes -> [Slots -> Questions]] /\ question'[q] = F
  BY <1>1 DEF TypeOK
<1>3. \A p \in Quizzes : p # q => question'[p] = question[p]
  BY <1>1 DEF TypeOK
<1>4. TypeOK'
  BY <1>1, <1>2 DEF TypeOK
<1>5. Locked \subseteq Quizzes
  BY <1>1 DEF TypeOK, Locked
<1>6. Published' = Published /\ Exists' = Exists /\ Published \subseteq Quizzes
  BY DEF Published, Exists
<1>7. \A p \in Locked : question'[p] = question[p]
  BY <1>3, <1>5
<1>8. \A p \in Published' \ rewritten' : p \notin rewritten /\ question'[p] = question[p]
  BY <1>2, <1>3, <1>6
<1>9. PublicationsExclude' /\ PublishedComplete'
  BY <1>6, <1>7, <1>8, QuizStep
<1> QED
  BY <1>4, <1>9

LEMMA StepPatch ==
  ASSUME IInv, NEW r \in Runs, Patch(r)
  PROVE  IInv'
<1> DEFINE q == run[r].quiz
           S == {s \in Active(q) : run[r].seen[s] \notin {"no", "gone"}}
           F == [s \in Slots |-> IF s \in S THEN "bare" ELSE question[q][s]]
<1>1. run[r] \in RunRecords /\ RunOk(run[r]) /\ run[r].kind = "rework" /\ run[r].status = "running"
  BY OkRuns DEF Patch, Ready
<1>2. q \in Quizzes \ Locked
  BY <1>1 DEF Patch, IInv, RunsHaveQuiz, Exists
<1>3. Running({"rework"}, q) # {}
  BY <1>1 DEF Running, On
<1>4. question[q] \in [Slots -> Questions]
  BY <1>2 DEF IInv, TypeOK
<1>5. F \in [Slots -> Questions]
  BY <1>4 DEF Questions
<1>6. question' = [question EXCEPT ![q] = F]
  BY <1>2 DEF Patch
<1>7. S = {} => F = question[q]
  BY <1>4
<1>8. UNCHANGED <<quiz, pub>>
  BY DEF Patch
<1>9. rewritten \subseteq Quizzes
  BY DEF IInv, TypeOK
<1>10. PICK y \in RunRecords :
         /\ run' = [Reread(q, S, "replaced") EXCEPT ![r] = y] /\ RunOk(y) /\ Keeps(run[r], y)
  <2>1. Stopped(run[r]) \in RunRecords /\ RunOk(Stopped(run[r])) /\ Keeps(run[r], Stopped(run[r]))
    BY <1>1, StoppedOk
  <2>2. run[r].made = 0
    BY <1>1, RunFields DEF RunOk
  <2>3. /\ Stored(run[r], 0) \in RunRecords /\ RunOk(Stored(run[r], 0))
        /\ Keeps(run[r], Stored(run[r], 0))
    BY <1>1, <2>2, StoredOk
  <2>4. CASE quiz[q].published
    BY <2>1, <2>4 DEF Patch
  <2>5. CASE ~quiz[q].published
    BY <2>3, <2>5 DEF Patch
  <2> QED
    BY <2>4, <2>5
<1>11. rewritten' \subseteq Quizzes /\ rewritten \subseteq rewritten'
  BY <1>2, <1>9 DEF Patch
<1>12. q \in Published => q \in rewritten' \/ S = {}
  BY DEF Patch, Published
<1> HIDE DEF q, S, F
<1>13. Exists' = Exists
  BY <1>8 DEF Exists
<1>14. run' \in [Runs -> RunRecords] /\ StoredOnce' /\ MixedIsKnown' /\ RunsHaveQuiz'
  BY <1>2, <1>3, <1>10, <1>13, RereadStep
<1>15. TypeOK' /\ PublicationsExclude' /\ PublishedComplete'
  BY <1>2, <1>5, <1>6, <1>7, <1>8, <1>11, <1>12, <1>14, StepQuestions
<1> QED
  BY <1>14, <1>15 DEF IInv

LEMMA StepWriteHints ==
  ASSUME IInv, NEW r \in Runs, WriteHints(r)
  PROVE  IInv'
<1> DEFINE q == run[r].quiz
<1>1. CASE quiz[q].published
  BY <1>1, StepStop DEF WriteHints
<1>2. CASE ~quiz[q].published
  <2>1. run[r] \in RunRecords /\ RunOk(run[r]) /\ run[r].kind \in Hintwork /\ run[r].made \in 0..2
    BY OkRuns, RunFields DEF WriteHints, Ready
  <2>2. q \in Quizzes \ Locked
    BY <2>1 DEF WriteHints, IInv, RunsHaveQuiz, Exists, Hintwork
  <2>3. question \in [Quizzes -> [Slots -> Questions]]
    BY DEF IInv, TypeOK
  <2>4. PICK S \in SUBSET Asked(r) :
          question' = [question EXCEPT ![q] =
            [s \in Slots |-> IF s \in S THEN Hinted(@[s], run[r].seen[s]) ELSE @[s]]]
    BY <1>2 DEF WriteHints
  <2> DEFINE F == [s \in Slots |-> IF s \in S THEN Hinted(question[q][s], run[r].seen[s])
                                   ELSE question[q][s]]
  <2>5. \A s \in Slots : question[q][s] \in Questions
    BY <2>2, <2>3
  <2>6. \A s \in Slots : Hinted(question[q][s], run[r].seen[s]) \in Questions
    BY <2>5 DEF Hinted, Questions
  <2>7. F \in [Slots -> Questions]
    BY <2>5, <2>6
  <2>8. question' = [question EXCEPT ![q] = F]
    BY <2>2, <2>3, <2>4
  <2>9. ~(run[r].made > 0)
    BY <2>1 DEF RunOk, Hintwork
  <2>10. run[r].made = 0
    BY <2>1, <2>9
  <2>11. /\ Stored(run[r], 0) \in RunRecords /\ RunOk(Stored(run[r], 0))
         /\ Keeps(run[r], Stored(run[r], 0))
    BY <2>1, <2>10, StoredOk
  <2>12. run' = [run EXCEPT ![r] = Stored(run[r], 0)] /\ UNCHANGED <<quiz, pub, rewritten>>
    BY <1>2 DEF WriteHints
  <2>13. Exists' = Exists /\ q \notin Published /\ rewritten \subseteq Quizzes
    BY <1>2, <2>12 DEF Exists, Published, IInv, TypeOK
  <2>14. run' \in [Runs -> RunRecords] /\ StoredOnce' /\ MixedIsKnown' /\ RunsHaveQuiz'
    BY <2>11, <2>12, <2>13, OneRunStep
  <2> HIDE DEF q, F
  <2>15. TypeOK' /\ PublicationsExclude' /\ PublishedComplete'
    BY <2>2, <2>7, <2>8, <2>12, <2>13, <2>14, StepQuestions
  <2> QED
    BY <2>14, <2>15 DEF IInv
<1> QED
  BY <1>1, <1>2

-----------------------------------------------------------------------------
(* The mentor.                                                             *)

(* Nothing that the mentor changes about questions is locked or published. *)
LEMMA StepMentorQuestions ==
  ASSUME IInv, NEW q \in Quizzes, Mutable(q), NEW F \in [Slots -> Questions],
         question' = [question EXCEPT ![q] = F], UNCHANGED <<quiz, pub, rewritten>>,
         run' \in [Runs -> RunRecords], StoredOnce' /\ MixedIsKnown' /\ RunsHaveQuiz'
  PROVE  IInv'
<1>1. q \in Quizzes \ Locked /\ q \notin Published /\ rewritten \subseteq Quizzes
  BY DEF Mutable, Published, IInv, TypeOK
<1>2. TypeOK' /\ PublicationsExclude' /\ PublishedComplete'
  BY <1>1, StepQuestions
<1> QED
  BY <1>2 DEF IInv

(* One question.                                                           *)
LEMMA SetFields ==
  ASSUME IInv, NEW q \in Quizzes, NEW s \in Slots, NEW state \in Questions, Set(q, s, state)
  PROVE  \E F \in [Slots -> Questions] :
           question' = [question EXCEPT ![q] = F] /\ F = [question[q] EXCEPT ![s] = state]
<1>1. question[q] \in [Slots -> Questions]
  BY DEF IInv, TypeOK
<1>2. [question[q] EXCEPT ![s] = state] \in [Slots -> Questions]
  BY <1>1
<1>3. question' = [question EXCEPT ![q] = [question[q] EXCEPT ![s] = state]]
  BY DEF Set
<1> QED
  BY <1>2, <1>3

LEMMA StepSet ==
  ASSUME IInv, NEW q \in Quizzes, Mutable(q), NEW s \in Slots, NEW state \in Questions, Set(q, s, state),
         UNCHANGED <<quiz, pub, rewritten>>,
         \/ run' = run
         \/ \E how \in {"edited", "gone"} : run' = Reread(q, {s}, how)
  PROVE  IInv'
<1>1. PICK F \in [Slots -> Questions] : question' = [question EXCEPT ![q] = F]
  BY SetFields
<1>2. Exists' = Exists
  BY DEF Exists
<1>3. run' \in [Runs -> RunRecords] /\ StoredOnce' /\ MixedIsKnown' /\ RunsHaveQuiz'
  <2>1. CASE run' = run
    BY <1>2, <2>1, RunsStay DEF IInv, TypeOK
  <2>2. CASE \E how \in {"edited", "gone"} : run' = Reread(q, {s}, how)
    <3>1. PICK how \in {"edited", "gone"} : run' = Reread(q, {s}, how)
      BY <2>2
    <3>2. /\ Reread(q, {s}, how) \in [Runs -> RunRecords]
          /\ \A r \in Runs : RunOk(Reread(q, {s}, how)[r]) /\ Keeps(run[r], Reread(q, {s}, how)[r])
      BY RereadRuns
    <3> QED
      BY <1>2, <3>1, <3>2, RunStep
  <2> QED
    BY <2>1, <2>2
<1> QED
  BY <1>1, <1>3, StepMentorQuestions

LEMMA StepQuestion ==
  ASSUME IInv, NEW q \in Quizzes, NEW s \in Slots,
         CreateQuestion(q, s) \/ EditText(q, s) \/ EditHints(q, s) \/ DeleteQuestion(q, s)
  PROVE  IInv'
<1>1. question[q][s] \in Questions
  BY DEF IInv, TypeOK
<1>2. CASE CreateQuestion(q, s)
  BY <1>2, StepSet DEF CreateQuestion, Questions
<1>3. CASE EditText(q, s)
  <2>1. (IF question[q][s] = "fit" THEN "edited" ELSE question[q][s]) \in Questions
    BY <1>1 DEF Questions
  <2> QED
    BY <1>3, <2>1, StepSet DEF EditText
<1>4. CASE EditHints(q, s)
  BY <1>4, StepSet DEF EditHints, Questions
<1>5. CASE DeleteQuestion(q, s)
  BY <1>5, StepSet DEF DeleteQuestion, Questions
<1> QED
  BY <1>2, <1>3, <1>4, <1>5

LEMMA StepClearHints ==
  ASSUME IInv, NEW q \in Quizzes, ClearHints(q)
  PROVE  IInv'
<1> DEFINE F == [s \in Slots |-> IF question[q][s] = "off" THEN "off" ELSE "bare"]
<1>1. F \in [Slots -> Questions]
  BY DEF Questions
<1>2. question' = [question EXCEPT ![q] = F] /\ UNCHANGED <<quiz, run, pub, rewritten>> /\ Mutable(q)
  BY DEF ClearHints
<1>3. Exists' = Exists
  BY <1>2 DEF Exists
<1>4. run' \in [Runs -> RunRecords] /\ StoredOnce' /\ MixedIsKnown' /\ RunsHaveQuiz'
  BY <1>2, <1>3, RunsStay DEF IInv, TypeOK
<1> HIDE DEF F
<1> QED
  BY <1>1, <1>2, <1>4, StepMentorQuestions

(* A step that changes rows without publishing any.                        *)
LEMMA StepRows ==
  ASSUME IInv, quiz' \in [Quizzes -> [life: Lives, published: BOOLEAN]],
         Published' \subseteq Published, Exists \subseteq Exists', UNCHANGED <<question, run, pub>>,
         rewritten' \subseteq rewritten, rewritten \ rewritten' \subseteq Quizzes \ Published'
  PROVE  IInv'
<1>1. TypeOK'
  BY DEF IInv, TypeOK
<1>2. \A p \in Published' \ rewritten' : p \notin rewritten
  OBVIOUS
<1>3. PublicationsExclude' /\ PublishedComplete'
  BY <1>2, QuizStep
<1>4. StoredOnce' /\ MixedIsKnown' /\ RunsHaveQuiz'
  BY RunsStay
<1> QED
  BY <1>1, <1>3, <1>4 DEF IInv

LEMMA StepUnpublish ==
  ASSUME IInv, NEW q \in Quizzes, Unpublish(q)
  PROVE  IInv'
<1>1. PICK life \in {"archived", "hidden"} : quiz' = [quiz EXCEPT ![q] = [life |-> life, published |-> FALSE]]
  BY DEF Unpublish
<1>2. quiz \in [Quizzes -> [life: Lives, published: BOOLEAN]] /\ rewritten \subseteq Quizzes
  BY DEF IInv, TypeOK
<1>3. [life |-> life, published |-> FALSE] \in [life: Lives, published: BOOLEAN]
  BY DEF Lives
<1>4. quiz' \in [Quizzes -> [life: Lives, published: BOOLEAN]]
  BY <1>1, <1>2, <1>3
<1>5. \A p \in Quizzes : p # q => quiz'[p] = quiz[p]
  BY <1>1, <1>2
<1>6. ~quiz'[q].published /\ quiz'[q].life # "none"
  BY <1>1, <1>2
<1>7. Published' = Published \ {q} /\ Exists \subseteq Exists'
  BY <1>5, <1>6 DEF Published, Exists
<1>8. UNCHANGED <<question, run, pub>> /\ rewritten' = rewritten \ {q}
  BY DEF Unpublish
<1> QED
  BY <1>2, <1>4, <1>7, <1>8, StepRows

LEMMA StepDeleteQuiz ==
  ASSUME IInv, NEW q \in Quizzes, DeleteQuiz(q)
  PROVE  IInv'
<1>1. TypeOK /\ SetLife(q, "discarded") /\ "discarded" \in Lives
  BY DEF DeleteQuiz, IInv, Lives
<1>2. /\ quiz' \in [Quizzes -> [life: Lives, published: BOOLEAN]]
      /\ \A p \in Quizzes : quiz'[p].published = quiz[p].published
      /\ \A p \in Quizzes : p # q => quiz'[p] = quiz[p]
      /\ quiz'[q].life = "discarded"
  BY <1>1, SetLifeFields
<1>3. Published' = Published /\ Exists \subseteq Exists'
  BY <1>2 DEF Published, Exists
<1>4. UNCHANGED <<question, run, pub, rewritten>>
  BY DEF DeleteQuiz
<1> QED
  BY <1>2, <1>3, <1>4, StepRows

LEMMA StepDiscardDrafts ==
  ASSUME IInv, NEW S \in SUBSET Quizzes, DiscardDrafts(S)
  PROVE  IInv'
<1>1. quiz \in [Quizzes -> [life: Lives, published: BOOLEAN]] /\ rewritten \subseteq Quizzes
  BY DEF IInv, TypeOK
<1>2. quiz' = [q \in Quizzes |-> IF q \in S THEN [life |-> "discarded", published |-> FALSE] ELSE quiz[q]]
  BY DEF DiscardDrafts
<1>3. [life |-> "discarded", published |-> FALSE] \in [life: Lives, published: BOOLEAN]
  BY DEF Lives
<1>4. quiz' \in [Quizzes -> [life: Lives, published: BOOLEAN]]
  BY <1>1, <1>2, <1>3
<1>5. \A p \in Quizzes \ S : quiz'[p] = quiz[p]
  BY <1>2
<1>6. \A p \in S : ~quiz'[p].published /\ quiz'[p].life # "none"
  BY <1>2
<1>7. Published' = Published \ S /\ Exists \subseteq Exists'
  BY <1>5, <1>6 DEF Published, Exists
<1>8. UNCHANGED <<question, run, pub>> /\ rewritten' = rewritten \ S
  BY DEF DiscardDrafts
<1> QED
  BY <1>1, <1>4, <1>7, <1>8, StepRows

-----------------------------------------------------------------------------
(* Publications.                                                           *)

(* The rows that a publication has locked include the one of any other.    *)
LEMMA StepStartPublish ==
  ASSUME IInv, NEW m \in Mentors, StartPublish(m)
  PROVE  IInv'
<1>1. PICK q \in Quizzes :
        /\ Publishable(q) /\ LockAll(q) \cap Locked = {}
        /\ pub' = [pub EXCEPT ![m] = [quiz |-> q, held |-> LockAll(q), others |-> Published \ {q}]]
  BY DEF StartPublish
<1> DEFINE y == [quiz |-> q, held |-> Exists, others |-> Published \ {q}]
<1>2. q \in Exists /\ MissingHints(q) = {}
  BY <1>1 DEF Publishable
<1>3. pub' = [pub EXCEPT ![m] = y]
  BY <1>1 DEF LockAll
<1>4. Published \subseteq Quizzes /\ Exists \subseteq Quizzes
  BY DEF Published, Exists
<1>5. /\ y \in [quiz: Quizzes \cup {NoQuiz}, held: SUBSET Quizzes, others: SUBSET Quizzes]
      /\ y.quiz = q /\ y.held = Exists /\ y.others = Published \ {q}
  BY <1>4
<1> HIDE DEF y
<1>6. UNCHANGED <<quiz, question, run, rewritten>>
  BY DEF StartPublish
<1>7. /\ pub \in [Mentors -> [quiz: Quizzes \cup {NoQuiz}, held: SUBSET Quizzes, others: SUBSET Quizzes]]
      /\ TypeOK
  BY DEF IInv, TypeOK
<1>8. /\ pub' \in [Mentors -> [quiz: Quizzes \cup {NoQuiz}, held: SUBSET Quizzes, others: SUBSET Quizzes]]
      /\ pub'[m] = y /\ \A n \in Mentors : n # m => pub'[n] = pub[n]
  BY <1>3, <1>5, <1>7
<1>9. TypeOK'
  BY <1>6, <1>7, <1>8 DEF TypeOK
<1>10. \A n \in Mentors : pub[n] = NoPub
  <2>1. SUFFICES ASSUME NEW n \in Mentors, pub[n] # NoPub
                 PROVE  FALSE
    OBVIOUS
  <2>2. pub[n].quiz \in pub[n].held /\ pub[n].held \subseteq Exists
    BY <2>1 DEF IInv, PublicationsExclude
  <2>3. pub[n].quiz \in Exists \cap Locked
    BY <2>2 DEF Locked
  <2> QED
    BY <1>1, <2>3 DEF LockAll
<1>11. Exists' = Exists /\ Published' = Published /\ MissingHints(q)' = MissingHints(q)
  BY <1>6 DEF Exists, Published, MissingHints
<1>12. \A n \in Mentors : pub'[n] # NoPub => n = m
  BY <1>8, <1>10
<1>13. ASSUME NEW n \in Mentors, pub'[n] # NoPub
       PROVE  /\ pub'[n].quiz \in pub'[n].held /\ pub'[n].held \subseteq Exists'
              /\ Published' \subseteq pub'[n].others \cup {pub'[n].quiz}
              /\ {s \in Slots : question'[pub'[n].quiz][s] = "bare"} = {}
  <2>1. pub'[n] = y
    BY <1>8, <1>12, <1>13
  <2>2. {s \in Slots : question'[q][s] = "bare"} = {}
    BY <1>2, <1>6 DEF MissingHints
  <2> QED
    BY <1>2, <1>5, <1>11, <2>1, <2>2
<1>14. PublicationsExclude'
  BY <1>11, <1>12, <1>13 DEF IInv, PublicationsExclude, MissingHints
<1>15. PublishedComplete'
  BY <1>6, <1>11 DEF IInv, PublishedComplete, MissingHints
<1>16. StoredOnce' /\ MixedIsKnown' /\ RunsHaveQuiz'
  BY <1>6, <1>11, RunsStay
<1> QED
  BY <1>9, <1>14, <1>15, <1>16 DEF IInv

(* A publication that ends without its commit.                             *)
LEMMA StepPublishDies ==
  ASSUME IInv, NEW m \in Mentors, PublishDies(m)
  PROVE  IInv'
<1>1. pub' = [pub EXCEPT ![m] = NoPub] /\ UNCHANGED <<quiz, question, run, rewritten>>
  BY DEF PublishDies
<1>2. NoPub \in [quiz: Quizzes \cup {NoQuiz}, held: SUBSET Quizzes, others: SUBSET Quizzes]
  BY DEF NoPub
<1>3. TypeOK'
  BY <1>1, <1>2 DEF IInv, TypeOK
<1>4. \A n \in Mentors : pub'[n] = NoPub \/ pub'[n] = pub[n]
  BY <1>1 DEF IInv, TypeOK
<1>5. Exists' = Exists /\ Published' = Published
  BY <1>1 DEF Exists, Published
<1>6. PublicationsExclude'
  BY <1>1, <1>4, <1>5 DEF IInv, PublicationsExclude, MissingHints
<1>7. PublishedComplete'
  BY <1>1, <1>5 DEF IInv, PublishedComplete, MissingHints
<1>8. StoredOnce' /\ MixedIsKnown' /\ RunsHaveQuiz'
  BY <1>1, <1>5, RunsStay
<1> QED
  BY <1>3, <1>6, <1>7, <1>8 DEF IInv

(* It unpublishes everything else, since it has seen all that is published. *)
LEMMA StepPublish ==
  ASSUME IInv, NEW m \in Mentors, Publish(m)
  PROVE  IInv'
<1> DEFINE q == pub[m].quiz
           others == pub[m].others
<1>1. /\ q \in Exists /\ Published \subseteq others \cup {q} /\ MissingHints(q) = {}
      /\ \A n \in Mentors : pub[n] # NoPub => n = m
  BY DEF Publish, IInv, PublicationsExclude
<1>2. q \in Quizzes
  BY <1>1 DEF Exists
<1>3. UNCHANGED <<question, run>> /\ pub' = [pub EXCEPT ![m] = NoPub]
  BY DEF Publish
<1>4. quiz' = [p \in Quizzes |->
        IF p = q THEN [life |-> "active", published |-> TRUE]
        ELSE IF p \in others THEN [life |-> "archived", published |-> FALSE] ELSE quiz[p]]
  BY DEF Publish
<1>5. rewritten' = rewritten \ ({q} \cup others)
  BY DEF Publish
<1> HIDE DEF q, others
<1>6. /\ [life |-> "active", published |-> TRUE] \in [life: Lives, published: BOOLEAN]
      /\ [life |-> "archived", published |-> FALSE] \in [life: Lives, published: BOOLEAN]
  BY DEF Lives
<1>7. NoPub \in [quiz: Quizzes \cup {NoQuiz}, held: SUBSET Quizzes, others: SUBSET Quizzes]
  BY DEF NoPub
<1>8. quiz' \in [Quizzes -> [life: Lives, published: BOOLEAN]]
  BY <1>4, <1>6 DEF IInv, TypeOK
<1>9. TypeOK'
  BY <1>3, <1>5, <1>7, <1>8 DEF IInv, TypeOK
<1>10. quiz'[q].published /\ \A p \in Quizzes : p # q => ~quiz'[p].published
  BY <1>1, <1>2, <1>4 DEF Published
<1>11. Published' = {q}
  BY <1>2, <1>10 DEF Published
<1>12. \A p \in Quizzes : quiz[p].life # "none" => quiz'[p].life # "none"
  BY <1>4
<1>13. Exists \subseteq Exists'
  BY <1>12 DEF Exists
<1>14. \A n \in Mentors : pub'[n] = NoPub
  BY <1>1, <1>3 DEF IInv, TypeOK
<1>15. PublicationsExclude'
  BY <1>1, <1>11, <1>13, <1>14 DEF PublicationsExclude
<1>16. PublishedComplete'
  BY <1>1, <1>3, <1>11 DEF PublishedComplete, MissingHints
<1>17. StoredOnce' /\ MixedIsKnown' /\ RunsHaveQuiz'
  BY <1>3, <1>13, RunsStay
<1> QED
  BY <1>9, <1>15, <1>16, <1>17 DEF IInv

-----------------------------------------------------------------------------
(* The invariant.                                                          *)

LEMMA InitIInv ==
  ASSUME Init
  PROVE  IInv
<1>1. TypeOK
  <2>1. /\ [life |-> "none", published |-> FALSE] \in [life: Lives, published: BOOLEAN]
        /\ NoPub \in [quiz: Quizzes \cup {NoQuiz}, held: SUBSET Quizzes, others: SUBSET Quizzes]
        /\ [s \in Slots |-> "off"] \in [Slots -> Questions]
    BY DEF Lives, NoPub, Questions
  <2> QED
    BY <2>1, NoRunOk DEF Init, TypeOK
<1>2. Published = {}
  BY DEF Init, Published
<1>3. \A m \in Mentors : pub[m] = NoPub
  BY DEF Init
<1>4. PublicationsExclude /\ PublishedComplete
  BY <1>2, <1>3 DEF PublicationsExclude, PublishedComplete
<1>5. \A r \in Runs : run[r] = NoRun
  BY DEF Init
<1>6. StoredOnce
  BY <1>5, NoRunFields DEF StoredOnce
<1>7. MixedIsKnown /\ RunsHaveQuiz
  BY <1>5, NoRunFields DEF MixedIsKnown, RunsHaveQuiz, Hintwork
<1> QED
  BY <1>1, <1>4, <1>6, <1>7 DEF IInv

LEMMA NextIInv ==
  ASSUME IInv, [Next]_vars
  PROVE  IInv'
<1>1. ASSUME NEW r \in Runs, Work(r)
      PROVE  IInv'
  BY <1>1, StepStartMake, StepStartRework, StepStartHints, StepLoad, StepGenerate, StepCreate,
     StepReplace, StepPatch, StepWriteHints, StepOver, StepResume, StepStop DEF Work, Interrupt
<1>2. ASSUME NEW q \in Quizzes, Mentor(q)
      PROVE  IInv'
  BY <1>2, StepUnpublish, StepDeleteQuiz, StepClearHints, StepQuestion DEF Mentor
<1>3. ASSUME NEW m \in Mentors, StartPublish(m) \/ Publish(m) \/ PublishDies(m)
      PROVE  IInv'
  BY <1>3, StepStartPublish, StepPublish, StepPublishDies
<1>4. ASSUME NEW S \in SUBSET Quizzes, DiscardDrafts(S)
      PROVE  IInv'
  BY <1>4, StepDiscardDrafts
<1>5. CASE UNCHANGED vars
  <2>1. UNCHANGED <<quiz, question, run, pub, rewritten>>
    BY <1>5 DEF vars
  <2>2. run' \in [Runs -> RunRecords]
    BY <2>1 DEF IInv, TypeOK
  <2>3. TypeOK' /\ PublicationsExclude' /\ PublishedComplete' /\ Exists' = Exists
    BY <2>1, <2>2, OnlyRuns
  <2>4. StoredOnce' /\ MixedIsKnown' /\ RunsHaveQuiz'
    BY <2>1, <2>3, RunsStay
  <2> QED
    BY <2>3, <2>4 DEF IInv
<1>6. CASE Next
  BY <1>1, <1>2, <1>3, <1>4, <1>6, Zenon DEF Next
<1> QED
  BY <1>5, <1>6

(* Whatever the requests, the runs and the publications do, and wherever    *)
(* they stop, the invariant holds.                                         *)
THEOREM QuizInvariance == Spec => []IInv
<1>1. Init => IInv
  BY InitIInv
<1>2. IInv /\ [Next]_vars => IInv'
  BY NextIInv
<1> QED
  BY <1>1, <1>2, PTL DEF Spec

(* The variables have their types.                                         *)
THEOREM QuizTypes == Spec => []TypeOK
<1>1. IInv => TypeOK
  BY DEF IInv
<1> QED
  BY <1>1, QuizInvariance, PTL

(* Trainees see at most one quiz of a topic, however many publications      *)
(* overlap: publish_quiz locks all quizzes of the topic before it reads    *)
(* which are published.                                                    *)
THEOREM OneQuizShown == Spec => []OnePublished
<1>1. IInv => OnePublished
  <2>1. SUFFICES ASSUME IInv
                 PROVE  Cardinality(Published) <= 1
    BY DEF OnePublished
  <2>2. \A p, q \in Published : p = q
    BY <2>1 DEF IInv, PublicationsExclude
  <2>3. CASE Published = {}
    BY <2>3, FS_EmptySet
  <2>4. CASE Published # {}
    <3>1. PICK q \in Published : TRUE
      BY <2>4
    <3>2. Published = {q}
      BY <2>2, <3>1
    <3> QED
      BY <3>2, FS_Singleton
  <2> QED
    BY <2>3, <2>4
<1> QED
  BY <1>1, QuizInvariance, PTL

(* A published quiz has the hints of every question, unless a run has      *)
(* written to it since: every request that takes a hint away is refused    *)
(* while a publication holds the row, and on a published quiz.             *)
THEOREM PublishedHaveHints == Spec => []PublishedComplete
<1>1. IInv => PublishedComplete
  BY DEF IInv
<1> QED
  BY <1>1, QuizInvariance, PTL

(* However often a run is resumed, it stores its questions in one quiz:     *)
(* their identities are in its checkpoint.                                 *)
THEOREM QuestionsStoredOnce == Spec => []OneQuizPerRun
<1>1. IInv => OneQuizPerRun
  BY DEF IInv, StoredOnce, OneQuizPerRun
<1> QED
  BY <1>1, QuizInvariance, PTL

-----------------------------------------------------------------------------
(* Hints for a replaced text.                                              *)

\* A step that leaves no new hint for a replaced text.
NothingStale ==
  \A q \in Quizzes, s \in Slots : question'[q][s] = "stale" => question[q][s] = "stale"

(* Such a step changes the questions of one quiz at most.                  *)
LEMMA NothingStaleOne ==
  ASSUME TypeOK, NEW p, NEW F, question' = [question EXCEPT ![p] = F],
         \A s \in Slots : F[s] = "stale" => question[p][s] = "stale"
  PROVE  NothingStale
BY DEF TypeOK, NothingStale

(* A run that replaces questions takes their hints away.                   *)
LEMMA WorkNotStale ==
  ASSUME IInv, NEW r \in Runs, Work(r), ~WriteHints(r)
  PROVE  NothingStale
<1>1. TypeOK
  BY DEF IInv
<1>2. CASE UNCHANGED question
  BY <1>2 DEF NothingStale
<1>3. CASE Create(r) \/ Replace(r)
  <2>1. PICK q : question' = [question EXCEPT ![q] = [s \in Slots |-> IF s \in Asked(r) THEN "bare" ELSE "off"]]
    BY <1>3 DEF Create, Replace, Store
  <2>2. \A s \in Slots : [x \in Slots |-> IF x \in Asked(r) THEN "bare" ELSE "off"][s] # "stale"
    OBVIOUS
  <2> QED
    BY <1>1, <2>1, <2>2, NothingStaleOne
<1>4. CASE Patch(r)
  <2> DEFINE q == run[r].quiz
             S == {s \in Active(q) : run[r].seen[s] \notin {"no", "gone"}}
             F == [s \in Slots |-> IF s \in S THEN "bare" ELSE question[q][s]]
  <2>1. question' = [question EXCEPT ![q] = [s \in Slots |-> IF s \in S THEN "bare" ELSE @[s]]]
    BY <1>4 DEF Patch
  <2>2. question' = [question EXCEPT ![q] = F]
    BY <1>1, <2>1 DEF TypeOK
  <2>3. \A s \in Slots : F[s] = "stale" => question[q][s] = "stale"
    OBVIOUS
  <2> QED
    BY <1>1, <2>2, <2>3, NothingStaleOne
<1> QED
  BY <1>2, <1>3, <1>4 DEF Work, StartMake, StartRework, StartHints, Load, Generate, Complete,
     Interrupt, Resume, Abandon

(* The mentor writes hints for the text that is there, or takes them away.  *)
LEMMA MentorNotStale ==
  ASSUME IInv, NEW q \in Quizzes, Mentor(q)
  PROVE  NothingStale
<1>1. TypeOK
  BY DEF IInv
<1>2. CASE UNCHANGED question
  BY <1>2 DEF NothingStale
<1>3. CASE ClearHints(q)
  <2> DEFINE F == [s \in Slots |-> IF question[q][s] = "off" THEN "off" ELSE "bare"]
  <2>1. question' = [question EXCEPT ![q] = F]
    BY <1>3 DEF ClearHints
  <2>2. \A s \in Slots : F[s] # "stale"
    OBVIOUS
  <2> QED
    BY <1>1, <2>1, <2>2, NothingStaleOne
<1>4. ASSUME NEW s \in Slots,
             CreateQuestion(q, s) \/ EditText(q, s) \/ EditHints(q, s) \/ DeleteQuestion(q, s)
      PROVE  NothingStale
  <2>1. question[q] \in [Slots -> Questions]
    BY <1>1 DEF TypeOK
  <2>2. PICK state \in {"bare", "fit", "edited", "off", question[q][s]} : Set(q, s, state)
    BY <1>4 DEF CreateQuestion, EditText, EditHints, DeleteQuestion
  <2>3. state \in Questions
    BY <2>1 DEF Questions
  <2>4. PICK F \in [Slots -> Questions] :
          question' = [question EXCEPT ![q] = F] /\ F = [question[q] EXCEPT ![s] = state]
    BY <2>2, <2>3, SetFields
  <2>5. \A x \in Slots : F[x] = "stale" => question[q][x] = "stale"
    BY <2>1, <2>2, <2>4
  <2>6. question' = [question EXCEPT ![q] = F]
    BY <2>4
  <2> QED
    BY <1>1, <2>5, <2>6 DEF NothingStale, TypeOK
<1> QED
  BY <1>2, <1>3, <1>4 DEF Mentor, Unpublish, DeleteQuiz

(* Hints are written for a replaced text by a run that has read it before;  *)
(* if it was not known to be mixed, nobody could have replaced it.         *)
LEMMA HintsStale ==
  ASSUME IInv, NEW r \in Runs, WriteHints(r), NEW q \in Quizzes, NEW s \in Slots,
         question'[q][s] = "stale", question[q][s] # "stale"
  PROVE  r \in On(Hintwork, q) /\ run[r].mixed
<1>1. run[r].kind \in Hintwork /\ run[r].status = "running" /\ question \in [Quizzes -> [Slots -> Questions]]
  BY DEF WriteHints, Ready, IInv, TypeOK
<1>2. ~quiz[run[r].quiz].published
  BY DEF WriteHints
<1>3. PICK S \in SUBSET Asked(r) :
        question' = [question EXCEPT ![run[r].quiz] =
          [x \in Slots |-> IF x \in S THEN Hinted(@[x], run[r].seen[x]) ELSE @[x]]]
  BY <1>2 DEF WriteHints
<1>4. q = run[r].quiz
  BY <1>1, <1>3
<1>5. question'[q][s] = IF s \in S THEN Hinted(question[q][s], run[r].seen[s]) ELSE question[q][s]
  BY <1>1, <1>3, <1>4
<1>6. Hinted(question[q][s], run[r].seen[s]) = "stale"
  BY <1>5
<1>7. run[r].seen[s] = "replaced"
  BY <1>6 DEF Hinted
<1>8. run[r].mixed
  BY <1>1, <1>7 DEF IInv, MixedIsKnown
<1> QED
  BY <1>1, <1>4, <1>8 DEF On

(* No run leaves hints for a text that another run has replaced, unless it  *)
(* was started beside a rework, or one of the two was resumed:             *)
(* start_regenerate_questions waits for the runs that write hints.         *)
THEOREM HintsFitTheirText == Spec => NoStaleHints
<1>1. ASSUME IInv, [Next]_vars
      PROVE  [\A q \in Quizzes, s \in Slots :
                question'[q][s] = "stale" /\ question[q][s] # "stale"
                  => \E r \in On(Hintwork, q) : run[r].mixed]_vars
  <2>1. CASE UNCHANGED vars
    BY <2>1 DEF vars
  <2>2. ASSUME NEW r \in Runs, Work(r), ~WriteHints(r)
        PROVE  NothingStale
    BY <1>1, <2>2, WorkNotStale
  <2>3. ASSUME NEW p \in Quizzes, Mentor(p)
        PROVE  NothingStale
    BY <1>1, <2>3, MentorNotStale
  <2>4. ASSUME NEW r \in Runs, WriteHints(r)
        PROVE  \A q \in Quizzes, s \in Slots :
                 question'[q][s] = "stale" /\ question[q][s] # "stale"
                   => \E x \in On(Hintwork, q) : run[x].mixed
    BY <1>1, <2>4, HintsStale
  <2>5. ASSUME NEW m \in Mentors, StartPublish(m) \/ Publish(m) \/ PublishDies(m)
        PROVE  NothingStale
    BY <2>5 DEF StartPublish, Publish, PublishDies, NothingStale
  <2>6. ASSUME NEW S \in SUBSET Quizzes, DiscardDrafts(S)
        PROVE  NothingStale
    BY <2>6 DEF DiscardDrafts, NothingStale
  <2>7. CASE Next
    <3>1. CASE \E r \in Runs : WriteHints(r)
      BY <2>4, <3>1
    <3>2. CASE ~\E r \in Runs : WriteHints(r)
      <4>1. NothingStale
        BY <2>2, <2>3, <2>5, <2>6, <2>7, <3>2, Zenon DEF Next
      <4> QED
        BY <4>1 DEF NothingStale
    <3> QED
      BY <3>1, <3>2
  <2> QED
    BY <1>1, <2>1, <2>7
<1> QED
  BY <1>1, QuizInvariance, PTL DEF Spec, NoStaleHints
=============================================================================
