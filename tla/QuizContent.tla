----------------------------- MODULE QuizContent -----------------------------
(***************************************************************************)
(* The quizzes of one topic, their questions and their hints, changed by   *)
(* the mentor's requests and by three kinds of generation run at a time:   *)
(* making a quiz, reworking some of its questions, writing hints.          *)
(*                                                                         *)
(* A request locks the quiz row for as long as it lasts, so it is one      *)
(* step; a publication locks every quiz of the topic and is two.  A run    *)
(* reads what it needs, works without a lock, and commits what it made     *)
(* together with its checkpoint; it may stop anywhere and be resumed.      *)
(***************************************************************************)
EXTENDS Integers, FiniteSets

CONSTANTS
  Quizzes,     \* quiz rows, created or not yet (bounds the state space)
  Slots,       \* places for a question in a quiz
  Runs,        \* generation runs that are not over, at a time
  Mentors,     \* publications in progress at a time
  NoQuiz       \* no quiz: a run that makes a new one

ASSUME QuizAssumption == NoQuiz \notin Quizzes

VARIABLES
  quiz,        \* the rows: lifecycle and publish flag
  question,    \* per quiz and slot: the question there, by the state of its hints
  run,         \* the runs: kind, quiz, progress and what they have read
  pub,         \* the publications that hold their locks
  rewritten    \* the quizzes a run has changed while they were published

vars == <<quiz, question, run, pub, rewritten>>

Lives == {"none", "draft", "active", "archived", "hidden", "discarded"}
\* A question is missing, has no hints, hints written for its text, hints written before the
\* mentor changed its text, or hints written for a text that a run had replaced.
Questions == {"off", "bare", "fit", "edited", "stale"}
\* What became of a text since a run read it.
Readings == {"no", "same", "edited", "replaced", "gone"}
RunRecords == [kind: {"none", "make", "rework", "hint", "rehint"}, quiz: Quizzes \cup {NoQuiz},
               status: {"over", "running", "stopped"}, pc: {"queued", "loaded", "stored"},
               seen: [Slots -> Readings], mixed: BOOLEAN, made: 0..2]
Blank == [s \in Slots |-> "no"]
NoRun == [kind |-> "none", quiz |-> NoQuiz, status |-> "over", pc |-> "queued", seen |-> Blank,
          mixed |-> FALSE, made |-> 0]
NoPub == [quiz |-> NoQuiz, held |-> {}, others |-> {}]

Init ==
  /\ quiz = [q \in Quizzes |-> [life |-> "none", published |-> FALSE]]
  /\ question = [q \in Quizzes |-> [s \in Slots |-> "off"]]
  /\ run = [r \in Runs |-> NoRun]
  /\ pub = [m \in Mentors |-> NoPub]
  /\ rewritten = {}

-----------------------------------------------------------------------------
(* Queries *)

Exists == {q \in Quizzes : quiz[q].life # "none"}
Published == {q \in Quizzes : quiz[q].published}
Locked == UNION {pub[m].held : m \in Mentors}
Active(q) == {s \in Slots : question[q][s] # "off"}
MissingHints(q) == {s \in Slots : question[q][s] = "bare"}
Asked(r) == {s \in Slots : run[r].seen[s] # "no"}

\* _assert_quiz_questions_mutable, on the row the request has locked.
Mutable(q) == q \in Exists \ Locked /\ ~quiz[q].published

\* get_active_quiz_draft_for_node; the most recent of several is any of them.
Drafts == {q \in Exists : quiz[q].life = "draft" /\ ~quiz[q].published}

\* The two pipelines: a run of QUIZ that makes a new quiz belongs to the topic.
Quizwork == {"make", "rework"}
Hintwork == {"hint", "rehint"}
On(kinds, q) == {r \in Runs : run[r].kind \in kinds /\ run[r].quiz = q}
Running(kinds, q) == {r \in On(kinds, q) : run[r].status = "running"}

-----------------------------------------------------------------------------
(* What becomes of a run *)

\* A stopped or failed run keeps its checkpoint, from which the routers send it back to the
\* node that stores.
Stopped(x) == [x EXCEPT !.status = "stopped", !.pc = IF @ = "stored" THEN "loaded" ELSE @]

\* From its first reading on a run that rewrites hints is like one that writes them.
Loaded(x, S) == [x EXCEPT !.pc = "loaded", !.kind = IF @ = "rehint" THEN "hint" ELSE @,
                          !.seen = [s \in Slots |-> IF s \in S THEN "same" ELSE "no"]]
Stored(x, created) == [x EXCEPT !.pc = "stored", !.made = @ + created]
Resumed(x) == [x EXCEPT !.status = "running", !.mixed = @ \/ x.kind \in Hintwork]
Mixed(x) == [x EXCEPT !.mixed = TRUE]
Outdated(x, S, how) == [x EXCEPT !.seen = [s \in Slots |->
                          IF s \in S /\ x.seen[s] \notin {"no", "gone"} THEN how ELSE x.seen[s]]]

-----------------------------------------------------------------------------
(* Starting runs *)

\* start_run: one running run of a pipeline per quiz; the stopped ones are superseded.
Claim(r, record) ==
  LET pipeline == IF record.kind \in Quizwork THEN Quizwork ELSE Hintwork IN
  /\ run[r].status = "over"
  /\ Running(pipeline, record.quiz) = {}
  /\ run' = [x \in Runs |-> IF x = r THEN record
                            ELSE IF x \in On(pipeline, record.quiz) THEN NoRun ELSE run[x]]

Fresh(kind, q, S, reworks) ==
  [kind |-> kind, quiz |-> q, status |-> "running", pc |-> "queued",
   seen |-> [s \in Slots |-> IF s \in S THEN "same" ELSE "no"], mixed |-> reworks # {}, made |-> 0]

\* start_generate_quiz.  "generate" takes the draft there is; "regenerate" takes the quiz it
\* names, or makes a new one if that is no draft (any more).
StartMake(r) ==
  /\ \E q \in Quizzes \cup {NoQuiz} :
       /\ \/ q # NoQuiz /\ quiz[q].life = "draft"
          \/ q = NoQuiz /\ (Drafts = {} \/ \E p \in Exists : quiz[p].life # "draft")
       /\ Claim(r, Fresh("make", q, {}, {}))
  /\ UNCHANGED <<quiz, question, pub, rewritten>>

\* Mutant: a rework is not held up by hints being written.
StartReworkAnyway(r) ==
  /\ \E q \in Quizzes : \E S \in (SUBSET Active(q)) \ {{}} :
       /\ Mutable(q)
       /\ Claim(r, Fresh("rework", q, S, {}))
  /\ UNCHANGED <<quiz, question, pub, rewritten>>

\* start_regenerate_questions: no run of either pipeline may be running on the quiz.
StartRework(r) ==
  /\ \E q \in Quizzes : \E S \in (SUBSET Active(q)) \ {{}} :
       /\ Mutable(q)
       /\ Running(Quizwork \cup Hintwork, q) = {}
       /\ Claim(r, Fresh("rework", q, S, {}))
  /\ UNCHANGED <<quiz, question, pub, rewritten>>

\* start_generate_hints, start_regenerate_hints: a rework that is running does not matter.
StartHints(r) ==
  /\ \E q \in Quizzes :
       LET reworks == Running({"rework"}, q) IN
       /\ Mutable(q)
       /\ \/ /\ MissingHints(q) # {}
             /\ Claim(r, Fresh("hint", q, {}, reworks))
          \/ \E S \in (SUBSET Active(q)) \ {{}} :
               Claim(r, Fresh("rehint", q, S, reworks))
  /\ UNCHANGED <<quiz, question, pub, rewritten>>

-----------------------------------------------------------------------------
(* Working *)

Stop(r) == run' = [run EXCEPT ![r] = Stopped(@)]

Reads(r) ==
  LET k == run[r].kind
      q == run[r].quiz
  IN CASE k = "hint" -> MissingHints(q)
       [] k = "rehint" -> {s \in Asked(r) : run[r].seen[s] # "gone"}
       [] k = "rework" -> IF \E s \in Slots : run[r].seen[s] = "gone" THEN {} ELSE Asked(r)

\* load_hint_context, load_quiz_single_regen_context.
Load(r) ==
  /\ run[r].status = "running" /\ run[r].pc = "queued" /\ run[r].kind # "make"
  /\ IF quiz[run[r].quiz].published \/ Reads(r) = {} THEN Stop(r)
     ELSE run' = [run EXCEPT ![r] = Loaded(@, Reads(r))]
  /\ UNCHANGED <<quiz, question, pub, rewritten>>

\* The questions of a new quiz, with their identities, or none: a draft that says why not.
Generate(r) ==
  /\ run[r].status = "running" /\ run[r].pc = "queued" /\ run[r].kind = "make"
  /\ \E S \in SUBSET Slots : run' = [run EXCEPT ![r] = Loaded(@, S)]
  /\ UNCHANGED <<quiz, question, pub, rewritten>>

\* The other runs' readings of the slots S of q, after these were changed.  That a question is
\* gone matters to all of them; that its text is another one, to those that write hints for it.
Reread(q, S, how) ==
  LET stays(r) == how # "gone" /\ (run[r].kind \notin Hintwork \/ run[r].pc = "queued")
  IN [r \in Runs |-> IF run[r].kind \in {"none", "make"} \/ run[r].quiz # q \/ stays(r) THEN run[r]
                     ELSE Outdated(run[r], S, how)]

SetLife(q, life) == quiz' = [quiz EXCEPT ![q] = [@ EXCEPT !.life = life]]

\* Its commit, with the questions it made in place of those of q.
Store(r, q, life) ==
  /\ SetLife(q, life)
  /\ question' = [question EXCEPT ![q] = [s \in Slots |-> IF s \in Asked(r) THEN "bare" ELSE "off"]]
  /\ run' = [Reread(q, Slots, "gone") EXCEPT ![r] = Stored(run[r], IF run[r].quiz = NoQuiz THEN 1 ELSE 0)]

Ready(r, kinds) == run[r].status = "running" /\ run[r].pc = "loaded" /\ run[r].kind \in kinds

\* Mutant: the identities of the questions are made when they are stored.
CreateAgain(r) ==
  /\ Ready(r, {"make"}) /\ run[r].quiz = NoQuiz /\ run[r].made < 2
  /\ \E q \in Quizzes \ Exists : Store(r, q, "draft")
  /\ UNCHANGED <<pub, rewritten>>

\* create_quiz_draft_with_questions: a second time, the keys of its questions are taken.
Create(r) ==
  /\ Ready(r, {"make"}) /\ run[r].quiz = NoQuiz /\ run[r].made < 2
  /\ run[r].made = 0 \/ Asked(r) = {}
  /\ \E q \in Quizzes \ Exists : Store(r, q, "draft")
  /\ UNCHANGED <<pub, rewritten>>

\* replace_quiz_draft_with_questions: whatever the lifecycle, and published stays published.
Replace(r) ==
  /\ Ready(r, {"make"}) /\ run[r].quiz \in Exists \ Locked
  /\ Store(r, run[r].quiz, "draft")
  /\ rewritten' = rewritten \cup ({run[r].quiz} \cap Published)
  /\ UNCHANGED pub

\* patch_questions_from_ai.  If the quiz has been published, the run fails, and the commit that
\* records the failure writes what the session had already changed.
Patch(r) ==
  LET q == run[r].quiz
      S == {s \in Active(q) : run[r].seen[s] \notin {"no", "gone"}}
      others == Reread(q, S, "replaced")
  IN
  /\ Ready(r, {"rework"}) /\ q \notin Locked
  /\ question' = [question EXCEPT ![q] = [s \in Slots |-> IF s \in S THEN "bare" ELSE @[s]]]
  /\ IF quiz[q].published
     THEN /\ run' = [others EXCEPT ![r] = Stopped(run[r])]
          /\ rewritten' = IF S = {} THEN rewritten ELSE rewritten \cup {q}
     ELSE /\ run' = [others EXCEPT ![r] = Stored(run[r], 0)]
          /\ UNCHANGED rewritten
  /\ UNCHANGED <<quiz, pub>>

\* Hints for the text that was read.
Hinted(was, seen) ==
  CASE seen = "same" -> "fit"
    [] seen = "edited" -> "edited"
    [] seen = "replaced" -> "stale"
    [] OTHER -> was

\* update_question_hints, for the hints that passed validation; a published quiz fails the run.
WriteHints(r) ==
  LET q == run[r].quiz IN
  /\ Ready(r, Hintwork) /\ q \notin Locked
  /\ IF quiz[q].published THEN Stop(r) /\ UNCHANGED question
     ELSE /\ \E S \in SUBSET Asked(r) :
               question' = [question EXCEPT ![q] =
                 [s \in Slots |-> IF s \in S THEN Hinted(@[s], run[r].seen[s]) ELSE @[s]]]
          /\ run' = [run EXCEPT ![r] = Stored(@, 0)]
  /\ UNCHANGED <<quiz, pub, rewritten>>

\* complete_run.
Complete(r) ==
  /\ run[r].status = "running" /\ run[r].pc = "stored"
  /\ run' = [run EXCEPT ![r] = NoRun]
  /\ UNCHANGED <<quiz, question, pub, rewritten>>

\* Paused, failed, or left behind by a process that died.
Interrupt(r) ==
  /\ run[r].status = "running"
  /\ Stop(r)
  /\ UNCHANGED <<quiz, question, pub, rewritten>>

\* Resumed; what else is running on the quiz is not looked at.
Resume(r) ==
  /\ run[r].status = "stopped"
  /\ run' = [x \in Runs |->
       IF x = r THEN Resumed(run[r])
       ELSE IF run[r].kind = "rework" /\ x \in On(Hintwork, run[r].quiz) THEN Mixed(run[x]) ELSE run[x]]
  /\ UNCHANGED <<quiz, question, pub, rewritten>>

Abandon(r) ==
  /\ run[r].status # "over"
  /\ run' = [run EXCEPT ![r] = NoRun]
  /\ UNCHANGED <<quiz, question, pub, rewritten>>

-----------------------------------------------------------------------------
(* The mentor *)

\* Mutant: a publication locks the quiz it is about only.
LockOwn(q) == {q}

\* lock_quizzes_for_node.
LockAll(q) == Exists

\* Mutant: hints may be missing.
PublishableBare(q) == q \in Exists /\ ~quiz[q].published

\* publish_quiz's checks: neither the lifecycle nor the number of questions is one of them.
Publishable(q) == q \in Exists /\ ~quiz[q].published /\ MissingHints(q) = {}

StartPublish(m) ==
  /\ pub[m] = NoPub
  /\ \E q \in Quizzes :
       /\ Publishable(q)
       /\ LockAll(q) \cap Locked = {}
       /\ pub' = [pub EXCEPT ![m] = [quiz |-> q, held |-> LockAll(q), others |-> Published \ {q}]]
  /\ UNCHANGED <<quiz, question, run, rewritten>>

\* unpublish_other_quizzes archives what it has read, then transition_quiz_to_active; one commit.
Publish(m) ==
  /\ pub[m] # NoPub
  /\ quiz' = [q \in Quizzes |->
       IF q = pub[m].quiz THEN [life |-> "active", published |-> TRUE]
       ELSE IF q \in pub[m].others THEN [life |-> "archived", published |-> FALSE] ELSE quiz[q]]
  /\ rewritten' = rewritten \ ({pub[m].quiz} \cup pub[m].others)
  /\ pub' = [pub EXCEPT ![m] = NoPub]
  /\ UNCHANGED <<question, run>>

PublishDies(m) ==
  /\ pub[m] # NoPub
  /\ pub' = [pub EXCEPT ![m] = NoPub]
  /\ UNCHANGED <<quiz, question, run, rewritten>>

\* unpublish_quiz, with either retention choice.
Unpublish(q) ==
  /\ q \in Published \ Locked
  /\ \E life \in {"archived", "hidden"} : quiz' = [quiz EXCEPT ![q] = [life |-> life, published |-> FALSE]]
  /\ rewritten' = rewritten \ {q}
  /\ UNCHANGED <<question, run, pub>>

\* delete_quiz.
DeleteQuiz(q) ==
  /\ Mutable(q) /\ quiz[q].life \in {"draft", "hidden"}
  /\ SetLife(q, "discarded")
  /\ UNCHANGED <<question, run, pub, rewritten>>

\* discard_drafts_for_sm_versions: the quizzes left in draft that were made from discarded material.
DiscardDrafts(S) ==
  /\ S # {} /\ S \cap Locked = {} /\ \A q \in S : quiz[q].life = "draft"
  /\ quiz' = [q \in Quizzes |-> IF q \in S THEN [life |-> "discarded", published |-> FALSE] ELSE quiz[q]]
  /\ rewritten' = rewritten \ S
  /\ UNCHANGED <<question, run, pub>>

Set(q, s, state) == question' = [question EXCEPT ![q][s] = state]

\* create_question, with all its hints or not.
CreateQuestion(q, s) ==
  /\ Mutable(q) /\ question[q][s] = "off"
  /\ \E state \in {"bare", "fit"} : Set(q, s, state)
  /\ UNCHANGED <<quiz, run, pub, rewritten>>

\* update_question, of the text: the hints stay.
EditText(q, s) ==
  /\ Mutable(q) /\ question[q][s] # "off"
  /\ Set(q, s, IF question[q][s] = "fit" THEN "edited" ELSE question[q][s])
  /\ run' = Reread(q, {s}, "edited")
  /\ UNCHANGED <<quiz, pub, rewritten>>

\* update_question, of the hints.
EditHints(q, s) ==
  /\ Mutable(q) /\ question[q][s] # "off"
  /\ \E state \in {"bare", "fit"} : Set(q, s, state)
  /\ UNCHANGED <<quiz, run, pub, rewritten>>

\* clear_all_hints_for_quiz.
ClearHints(q) ==
  /\ Mutable(q)
  /\ question' = [question EXCEPT ![q] = [s \in Slots |-> IF @[s] = "off" THEN "off" ELSE "bare"]]
  /\ UNCHANGED <<quiz, run, pub, rewritten>>

\* delete_question: for good.
DeleteQuestion(q, s) ==
  /\ Mutable(q) /\ question[q][s] # "off"
  /\ Set(q, s, "off")
  /\ run' = Reread(q, {s}, "gone")
  /\ UNCHANGED <<quiz, pub, rewritten>>

-----------------------------------------------------------------------------
Work(r) ==
  \/ StartMake(r) \/ StartRework(r) \/ StartHints(r)
  \/ Load(r) \/ Generate(r) \/ Create(r) \/ Replace(r) \/ Patch(r) \/ WriteHints(r)
  \/ Complete(r) \/ Interrupt(r) \/ Resume(r) \/ Abandon(r)

Mentor(q) ==
  \/ Unpublish(q) \/ DeleteQuiz(q) \/ ClearHints(q)
  \/ \E s \in Slots : CreateQuestion(q, s) \/ EditText(q, s) \/ EditHints(q, s) \/ DeleteQuestion(q, s)

Next ==
  \/ \E r \in Runs : Work(r)
  \/ \E q \in Quizzes : Mentor(q)
  \/ \E m \in Mentors : StartPublish(m) \/ Publish(m) \/ PublishDies(m)
  \/ \E S \in SUBSET Quizzes : DiscardDrafts(S)

Spec == Init /\ [][Next]_vars

-----------------------------------------------------------------------------
(* What must hold *)

TypeOK ==
  /\ quiz \in [Quizzes -> [life: Lives, published: BOOLEAN]]
  /\ question \in [Quizzes -> [Slots -> Questions]]
  /\ run \in [Runs -> RunRecords]
  /\ pub \in [Mentors -> [quiz: Quizzes \cup {NoQuiz}, held: SUBSET Quizzes, others: SUBSET Quizzes]]
  /\ rewritten \subseteq Quizzes

\* Trainees see one quiz of a topic, though publications of different quizzes overlap, drafts are
\* replaced and discarded meanwhile (lock_quizzes_for_node, publish_quiz).
OnePublished == Cardinality(Published) <= 1

\* A published quiz has the hints of every question, unless a run wrote to it after its
\* publication: a run that replaced the questions before, or cleared hints by reworking them, is
\* seen by publish_quiz, and nothing the mentor may do takes a hint away later.
PublishedComplete == \A q \in Published \ rewritten : MissingHints(q) = {}

\* A run does not leave hints for a text that another run has replaced, unless it was started
\* beside a rework, or it or a rework was resumed: start_regenerate_questions waits for hints.
NoStaleHints ==
  [][\A q \in Quizzes, s \in Slots :
       question'[q][s] = "stale" /\ question[q][s] # "stale" => \E r \in On(Hintwork, q) : run[r].mixed]_vars

\* A run resumed after its quiz was stored does not store the questions in a second one.
OneQuizPerRun == \A r \in Runs : run[r].made = 2 => Asked(r) = {}

\* "Published quizzes are immutable until the mentor unpublishes them."
PublishedImmutable ==
  [][\A q \in Quizzes : quiz[q].published /\ quiz'[q].published => question'[q] = question[q]]_vars

-----------------------------------------------------------------------------
(* The inductive invariant. *)

\* A publication excludes the others, has read what is published, and holds a quiz that
\* nobody takes a hint from.
PublicationsExclude ==
  /\ \A m \in Mentors : pub[m] # NoPub =>
       /\ pub[m].quiz \in pub[m].held /\ pub[m].held \subseteq Exists
       /\ Published \subseteq pub[m].others \cup {pub[m].quiz}
       /\ MissingHints(pub[m].quiz) = {}
  /\ \A m, n \in Mentors : pub[m] # NoPub /\ pub[n] # NoPub => m = n
  /\ Published \subseteq Exists
  /\ \A p, q \in Published : p = q

\* A run that has stored its quiz keeps the questions it made.
StoredOnce ==
  \A r \in Runs : /\ run[r].made > 0 => run[r].kind = "make" /\ run[r].pc # "queued"
                  /\ run[r].made = 2 => Asked(r) = {}

\* Hints that are written beside a rework are known to be.
MixedIsKnown ==
  \A r \in Runs : run[r].kind \in Hintwork /\ run[r].status = "running" /\ ~run[r].mixed =>
    /\ Running({"rework"}, run[r].quiz) = {}
    /\ \A s \in Slots : run[r].seen[s] # "replaced"

\* Only a run that makes a quiz has none yet, and nobody works on a quiz that was never made.
RunsHaveQuiz ==
  \A r \in Runs : run[r].kind \notin {"none", "make"} => run[r].quiz \in Exists

IInv == TypeOK /\ PublicationsExclude /\ PublishedComplete /\ StoredOnce /\ MixedIsKnown /\ RunsHaveQuiz
=============================================================================
