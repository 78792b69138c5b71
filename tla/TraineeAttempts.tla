--------------------------- MODULE TraineeAttempts ---------------------------
(***************************************************************************)
(* One trainee's attempts at one quiz, with the responses they are made of,*)
(* while the mentor takes the quiz down, changes its questions and puts it *)
(* up again.                                                               *)
(*                                                                         *)
(* Requests of the trainee overlap: two tabs, or a retry.  Each keeps the  *)
(* rows its session loaded, and an UPDATE writes the columns that differ   *)
(* from them (Flush), so a request is a reading and a writing step.  Only  *)
(* navigation locks the attempt, only starting one locks the quiz.         *)
(*                                                                         *)
(* An answer is right or wrong by the correct option of the moment it was  *)
(* read, which the mentor may have edited: the options are left out.       *)
(***************************************************************************)
EXTENDS Integers, FiniteSets

CONSTANTS
  Attempts,    \* attempts that can be created
  Questions,   \* questions the quiz can have
  Callers,     \* requests of the trainee under way at once
  MaxHint      \* hint levels of a question (3 in the code)

ASSUME HintAssumption == MaxHint \in Nat
ASSUME QuestionsFinite == IsFiniteSet(Questions)

VARIABLES
  quiz,        \* "live", "down" (to be published, perhaps again) or "gone" with its topic
  question,    \* per question: not created yet, active or deleted
  attempt,     \* quizattempts: status and what a submission computed
  response,    \* quizquestionresponses, per attempt and question
  req,         \* what each request has read and is about to write
  given,       \* history: the kinds of answer given to a question in an attempt
  raced        \* history: attempts at which a request wrote what another had outdated

vars == <<quiz, question, attempt, response, req, given, raced>>
content == <<quiz, question>>

\* is_correct is NULL until an answer is given.
ResponseRows == [answered: BOOLEAN, right: {"null", "no", "yes"}, hint: 0..MaxHint,
                 skipped: BOOLEAN, locked: BOOLEAN]
Blank == [answered |-> FALSE, right |-> "null", hint |-> 0, skipped |-> FALSE, locked |-> FALSE]
NoRow == [answered |-> FALSE, right |-> "none", hint |-> 0, skipped |-> FALSE, locked |-> FALSE]

AttemptRows == [status: {"unused", "in_progress", "submitted", "abandoned"},
                correct: 0..Cardinality(Questions), hinted: 0..Cardinality(Questions),
                total: 0..Cardinality(Questions)]
NoAttempt == [status |-> "unused", correct |-> 0, hinted |-> 0, total |-> 0]

Idle == [op |-> "idle"]
Requests ==
  {Idle, [op |-> "start"]}
    \cup [op: {"answer"}, a: Attempts, q: Questions, seen: ResponseRows \cup {NoRow}, row: ResponseRows]
    \cup [op: {"navigate"}, a: Attempts, q: Questions, seen: ResponseRows \cup {NoRow}, skip: BOOLEAN]
    \cup [op: {"submit"}, a: Attempts, seen: [Questions -> ResponseRows \cup {NoRow}],
          active: SUBSET Questions]

Init ==
  /\ quiz = "down"
  /\ question = [q \in Questions |-> "new"]
  /\ attempt = [a \in Attempts |-> NoAttempt]
  /\ response = [a \in Attempts |-> [q \in Questions |-> NoRow]]
  /\ req = [c \in Callers |-> Idle]
  /\ given = [a \in Attempts |-> [q \in Questions |-> {}]]
  /\ raced = {}

-----------------------------------------------------------------------------
(* Requests and rows *)

Begin(c, request) == req[c] = Idle /\ req' = [req EXCEPT ![c] = request]
Doing(c, op) == req[c].op = op
Return(c) == req' = [req EXCEPT ![c] = Idle]

InProgress(a) == attempt[a].status = "in_progress"
Active == {q \in Questions : question[q] = "active"}

\* get_attempt_by_id_for_update, until its request commits.
Held(a) == \E c \in Callers : Doing(c, "navigate") /\ req[c].a = a

\* UPDATE writes the columns that differ from the row that was loaded.
Flush(now, loaded, new) == [f \in DOMAIN now |-> IF new[f] = loaded[f] THEN now[f] ELSE new[f]]

Race(a, outdated) == raced' = IF outdated THEN raced \cup {a} ELSE raced

-----------------------------------------------------------------------------
(* start_attempt *)

\* get_published_quiz_by_node.
StartRead(c) ==
  /\ quiz = "live"
  /\ Begin(c, [op |-> "start"])
  /\ UNCHANGED <<content, attempt, response, given, raced>>

\* Mutant: nobody looks for an attempt in progress.
StartAnother(c, a) ==
  /\ Doing(c, "start") /\ attempt[a].status = "unused" /\ quiz # "gone"
  /\ attempt' = [attempt EXCEPT ![a].status = "in_progress"]
  /\ Return(c)
  /\ UNCHANGED <<content, response, given, raced>>

\* With the quiz locked; that it is published is what StartRead saw.
StartCreate(c, a) ==
  /\ Doing(c, "start") /\ attempt[a].status = "unused" /\ quiz # "gone"
  /\ \A b \in Attempts : ~InProgress(b)
  /\ attempt' = [attempt EXCEPT ![a].status = "in_progress"]
  /\ Return(c)
  /\ UNCHANGED <<content, response, given, raced>>

-----------------------------------------------------------------------------
(* submit_response *)

\* Mutant: the level of the hints goes up with a right answer, too.
GradedUp(row, right) ==
  [answered |-> TRUE, right |-> IF right THEN "yes" ELSE "no", skipped |-> FALSE, locked |-> right,
   hint |-> IF row.hint = MaxHint THEN row.hint ELSE row.hint + 1]

\* is_correct, was_locked and the hint level of an answer to a question with this row.
Graded(row, right) ==
  [answered |-> TRUE, right |-> IF right THEN "yes" ELSE "no", skipped |-> FALSE, locked |-> right,
   hint |-> IF right \/ row.hint = MaxHint THEN row.hint ELSE row.hint + 1]

\* Mutant: a locked question is answered again.
AnswerReadLocked(c, a, q, right) ==
  /\ InProgress(a) /\ question[q] # "new"
  /\ Begin(c, [op |-> "answer", a |-> a, q |-> q, seen |-> response[a][q],
               row |-> Graded(response[a][q], right)])
  /\ UNCHANGED <<content, attempt, response, given, raced>>

\* The question may have been deleted, the quiz taken down.
AnswerRead(c, a, q, right) ==
  /\ InProgress(a) /\ question[q] # "new"
  /\ ~response[a][q].locked
  /\ Begin(c, [op |-> "answer", a |-> a, q |-> q, seen |-> response[a][q],
               row |-> Graded(response[a][q], right)])
  /\ UNCHANGED <<content, attempt, response, given, raced>>

\* upsert_response: a row that was loaded is not loaded again, one that was not is looked for
\* once more.  An insertion waits for the attempt's lock.
AnswerWrite(c) ==
  LET r == req[c]
      now == response[r.a][r.q]
  IN
  /\ Doing(c, "answer")
  /\ now = NoRow => ~Held(r.a)
  /\ response' = [response EXCEPT ![r.a][r.q] =
       IF now = NoRow THEN r.row ELSE Flush(now, IF r.seen = NoRow THEN now ELSE r.seen, r.row)]
  /\ given' = [given EXCEPT ![r.a][r.q] = @ \cup {r.row.right}]
  /\ Race(r.a, now # r.seen \/ ~InProgress(r.a))
  /\ Return(c)
  /\ UNCHANGED <<content, attempt>>

-----------------------------------------------------------------------------
(* patch_attempt_state, which holds the attempt's lock *)

NavigateRead(c, a, q, skip) ==
  /\ InProgress(a) /\ ~Held(a) /\ q \in Active
  /\ Begin(c, [op |-> "navigate", a |-> a, q |-> q, seen |-> response[a][q], skip |-> skip])
  /\ UNCHANGED <<content, attempt, response, given, raced>>

\* patch_navigation_state: it inserts a row, unless there is one by now, or marks an unanswered
\* question as skipped or not.
NavigateWrite(c) ==
  LET r == req[c]
      now == response[r.a][r.q]
      new == IF ~r.seen.answered THEN [r.seen EXCEPT !.skipped = r.skip] ELSE r.seen
  IN
  /\ Doing(c, "navigate")
  /\ r.seen = NoRow => now = NoRow
  /\ response' = [response EXCEPT ![r.a][r.q] =
       IF now = NoRow THEN [Blank EXCEPT !.skipped = r.skip] ELSE Flush(now, r.seen, new)]
  /\ Race(r.a, now # r.seen)
  /\ Return(c)
  /\ UNCHANGED <<content, attempt, given>>

-----------------------------------------------------------------------------
(* submit_attempt *)

SubmitRead(c, a) ==
  /\ InProgress(a)
  /\ Begin(c, [op |-> "submit", a |-> a, seen |-> response[a], active |-> Active])
  /\ UNCHANGED <<content, attempt, response, given, raced>>

\* is_question_skipped_at_submit.
Unanswered(row) == row = NoRow \/ (~row.locked /\ ~row.answered)
Rewritten(r, q) == q \in r.active /\ r.seen[q].skipped # Unanswered(r.seen[q])

\* _finalize_skipped_responses: an active question without a response gets one that says so, over
\* whatever answer has come in meanwhile.
Finalized(r, q) ==
  LET now == response[r.a][q]
      row == r.seen[q]
  IN IF ~Rewritten(r, q) THEN now
     ELSE IF row = NoRow THEN [Blank EXCEPT !.skipped = TRUE]
     ELSE [now EXCEPT !.skipped = Unanswered(row)]

\* The rows are read again, and those the session holds and has not written stay as it loaded them.
Counted(r, q) ==
  IF r.seen[q] = NoRow \/ Rewritten(r, q) THEN Finalized(r, q) ELSE r.seen[q]

\* Mutant: questions that were answered do not count.
OpenQuestions(r) == {q \in r.active : r.seen[q] = NoRow}

\* total_questions.
TotalQuestions(r) == r.active

\* submit_attempt: the score is correct / total.  Nothing looks at the status again.
SubmitWrite(c) ==
  LET r == req[c]
      right == {q \in Questions : Counted(r, q).right = "yes"}
  IN
  /\ Doing(c, "submit") /\ ~Held(r.a)
  /\ response' = [response EXCEPT ![r.a] = [q \in Questions |-> Finalized(r, q)]]
  /\ attempt' = [attempt EXCEPT ![r.a] =
       [status |-> "submitted", correct |-> Cardinality(right),
        hinted |-> Cardinality({q \in right : Counted(r, q).hint > 0}),
        total |-> Cardinality(TotalQuestions(r))]]
  /\ Race(r.a, response[r.a] # r.seen \/ ~InProgress(r.a))
  /\ Return(c)
  /\ UNCHANGED <<content, given>>

\* Refused, rolled back (two insertions of the same row), or lost with its process.
RequestDies(c) ==
  /\ req[c] # Idle
  /\ Return(c)
  /\ UNCHANGED <<content, attempt, response, given, raced>>

-----------------------------------------------------------------------------
(* The mentor *)

\* abandon_in_progress_attempts_for_quizzes.
Abandon ==
  /\ \A a \in Attempts : InProgress(a) => ~Held(a)
  /\ attempt' = [a \in Attempts |-> IF InProgress(a) THEN [attempt[a] EXCEPT !.status = "abandoned"]
                                    ELSE attempt[a]]

\* publish_quiz.
Publish ==
  /\ quiz = "down"
  /\ quiz' = "live"
  /\ UNCHANGED <<question, attempt, response, req, given, raced>>

\* unpublish_quiz: attempts in progress go on.
Unpublish ==
  /\ quiz = "live"
  /\ quiz' = "down"
  /\ UNCHANGED <<question, attempt, response, req, given, raced>>

\* publish_quiz of another quiz of the topic: unpublish_other_quizzes.
Supersede ==
  /\ quiz = "live"
  /\ quiz' = "down"
  /\ Abandon
  /\ UNCHANGED <<question, response, req, given, raced>>

\* cascade_node_delete_content: an archived quiz is passed over, and so are its attempts.
DeleteTopic ==
  /\ quiz # "gone"
  /\ quiz' = "gone"
  /\ Abandon \/ (quiz = "down" /\ UNCHANGED attempt)
  /\ UNCHANGED <<question, response, req, given, raced>>

\* create_question.
CreateQuestion(q) ==
  /\ quiz = "down" /\ question[q] = "new"
  /\ question' = [question EXCEPT ![q] = "active"]
  /\ UNCHANGED <<quiz, attempt, response, req, given, raced>>

\* delete_question: responses to it stay.
DeleteQuestion(q) ==
  /\ quiz = "down" /\ q \in Active
  /\ question' = [question EXCEPT ![q] = "deleted"]
  /\ UNCHANGED <<quiz, attempt, response, req, given, raced>>

-----------------------------------------------------------------------------
TraineeStep(c) ==
  \/ StartRead(c) \/ AnswerWrite(c) \/ NavigateWrite(c) \/ SubmitWrite(c) \/ RequestDies(c)
  \/ \E a \in Attempts :
       \/ StartCreate(c, a)
       \/ SubmitRead(c, a)
       \/ \E q \in Questions :
            \/ \E right \in BOOLEAN : AnswerRead(c, a, q, right)
            \/ \E skip \in BOOLEAN : NavigateRead(c, a, q, skip)

MentorStep ==
  \/ Publish \/ Unpublish \/ Supersede \/ DeleteTopic
  \/ \E q \in Questions : CreateQuestion(q) \/ DeleteQuestion(q)

Next == MentorStep \/ \E c \in Callers : TraineeStep(c)

Spec == Init /\ [][Next]_vars

-----------------------------------------------------------------------------
(* What must hold *)

\* The variables keep their types.
TypeOK ==
  /\ quiz \in {"live", "down", "gone"}
  /\ question \in [Questions -> {"new", "active", "deleted"}]
  /\ attempt \in [Attempts -> AttemptRows]
  /\ response \in [Attempts -> [Questions -> ResponseRows \cup {NoRow}]]
  /\ req \in [Callers -> Requests]
  /\ given \in [Attempts -> [Questions -> SUBSET {"yes", "no"}]]
  /\ raced \subseteq Attempts

\* However start_attempt overlaps with itself, with submissions and with publications, a trainee
\* has one attempt in progress at a quiz.
OneInProgress == \A a, b \in Attempts : InProgress(a) /\ InProgress(b) => a = b

\* The kinds of answer that a row goes back to are among these.
Backed(row, kinds) ==
  /\ row.right = "yes" \/ row.locked => "yes" \in kinds
  /\ row.hint > 0 => "no" \in kinds

GivenTo(a, kind) == {q \in Questions : kind \in given[a][q]}

\* A response counted or locked as right, a hint and a point each go back to an answer of that
\* kind, even where overlapping requests wrote half a row each: updates get lost, none is invented.
NothingInvented ==
  \A a \in Attempts :
    /\ \A q \in Questions : Backed(response[a][q], given[a][q])
    /\ attempt[a].correct <= Cardinality(GivenTo(a, "yes"))
    /\ attempt[a].hinted <= Cardinality(GivenTo(a, "yes") \cap GivenTo(a, "no"))

\* "Locked questions cannot be changed", not even by the mentor's corrections or a submission,
\* except by a request that overlaps with the one that locked it.
LockedStays ==
  [][\A a \in Attempts, q \in Questions :
       response[a][q].locked /\ a \notin raced' => response'[a][q] = response[a][q]]_vars

\* "score is a float 0.0-1.0", unless it counts the answer to a question that was deleted: without
\* requests that overlap with the submission there is no other way to more points than questions.
ScoreWithinOne ==
  \A a \in Attempts \ raced :
    attempt[a].correct > attempt[a].total =>
      \E q \in Questions : question[q] = "deleted" /\ "yes" \in given[a][q]

-----------------------------------------------------------------------------
(* The inductive invariant *)

\* A response was made for a question that existed.
Known(a, q, row) == Backed(row, given[a][q]) /\ (row # NoRow => question[q] # "new")

\* What a request may write, however old its reading.
RequestKnown(c) ==
  LET r == req[c] IN
  /\ Doing(c, "answer") =>
       /\ question[r.q] # "new" /\ ~r.seen.locked
       /\ r.row.answered /\ ~r.row.skipped /\ r.row.right \in {"yes", "no"}
       /\ Backed(r.row, given[r.a][r.q] \cup {r.row.right})
  /\ Doing(c, "navigate") => question[r.q] # "new" /\ Known(r.a, r.q, r.seen)
  /\ Doing(c, "submit") =>
       \A q \in Questions :
         /\ Known(r.a, q, r.seen[q])
         /\ q \in r.active => question[q] # "new"
         /\ r.seen[q] # NoRow => response[r.a][q] # NoRow
         /\ r.seen[q] # NoRow /\ q \notin r.active => question[q] = "deleted"

\* Where no request was outdated, a locked response is an answer and is not marked as skipped.
LockedIsAnswered ==
  \A a \in Attempts \ raced, q \in Questions :
    response[a][q].locked => response[a][q].answered /\ ~response[a][q].skipped

\* It extends the invariants above to what requests hold.
IInv ==
  /\ TypeOK
  /\ OneInProgress
  /\ NothingInvented
  /\ ScoreWithinOne
  /\ LockedIsAnswered
  /\ \A a \in Attempts, q \in Questions : Known(a, q, response[a][q])
  /\ \A c \in Callers : RequestKnown(c)
=============================================================================
