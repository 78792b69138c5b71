------------------------ MODULE TraineeAttemptsProofs ------------------------
(***************************************************************************)
(* For any number of attempts, questions, hint levels and overlapping      *)
(* requests: one attempt is in progress, and no response, point or hint    *)
(* lacks its answer.                                                       *)
(***************************************************************************)
EXTENDS TraineeAttempts, FiniteSetTheorems, TLAPS

(* What the shape of a request in flight says of its fields.               *)
LEMMA RequestFields ==
  ASSUME NEW r \in Requests
  PROVE  /\ r.op \in {"idle", "start", "answer", "navigate", "submit"}
         /\ r.op = "answer" => /\ r.a \in Attempts /\ r.q \in Questions
                               /\ r.seen \in ResponseRows \cup {NoRow}
                               /\ r.row \in ResponseRows
         /\ r.op = "navigate" => /\ r.a \in Attempts /\ r.q \in Questions
                                 /\ r.seen \in ResponseRows \cup {NoRow}
                                 /\ r.skip \in BOOLEAN
         /\ r.op = "submit" => /\ r.a \in Attempts
                               /\ r.seen \in [Questions -> ResponseRows \cup {NoRow}]
                               /\ r.active \subseteq Questions
BY DEF Requests, Idle

(* Marking a response as skipped, or not, changes nothing else.            *)
LEMMA SkippedFields ==
  ASSUME NEW row \in ResponseRows, NEW s \in BOOLEAN
  PROVE  LET new == [row EXCEPT !.skipped = s]
         IN /\ new \in ResponseRows
            /\ new.answered = row.answered /\ new.right = row.right
            /\ new.hint = row.hint /\ new.locked = row.locked /\ new.skipped = s
            /\ row.skipped = s => new = row
BY DEF ResponseRows

(* An empty response is one; no response is none.                          *)
LEMMA BlankFacts ==
  /\ Blank \in ResponseRows
  /\ ~Blank.locked /\ Blank.right = "null" /\ Blank.hint = 0
BY HintAssumption DEF Blank, ResponseRows

(* The row that navigation or a submission inserts.                      *)
LEMMA BlankIsRow ==
  ASSUME NEW s \in BOOLEAN
  PROVE  /\ [Blank EXCEPT !.skipped = s] \in ResponseRows
         /\ ~[Blank EXCEPT !.skipped = s].locked
         /\ \A kinds : Backed([Blank EXCEPT !.skipped = s], kinds)
BY BlankFacts, SkippedFields DEF Backed

(* No response is not a response, and goes back to nothing.              *)
LEMMA NoRowFacts ==
  /\ NoRow \notin ResponseRows
  /\ ~NoRow.locked /\ NoRow.right # "yes" /\ NoRow.hint = 0
  /\ \A kinds : Backed(NoRow, kinds)
BY DEF ResponseRows, Backed, NoRow

(* An UPDATE takes each column from the stored row or from the new one.    *)
LEMMA FlushFields ==
  ASSUME NEW now \in ResponseRows, NEW loaded \in ResponseRows, NEW new \in ResponseRows
  PROVE  /\ Flush(now, loaded, new) \in ResponseRows
         /\ Flush(now, loaded, new).right \in {now.right, new.right}
         /\ Flush(now, loaded, new).hint \in {now.hint, new.hint}
         /\ Flush(now, loaded, new).locked \in {now.locked, new.locked}
         /\ loaded = now => Flush(now, loaded, new) = new
<1>1. DOMAIN now = {"answered", "right", "hint", "skipped", "locked"}
  BY DEF ResponseRows
<1>2. DOMAIN new = {"answered", "right", "hint", "skipped", "locked"}
  BY DEF ResponseRows
<1> DEFINE old(f) == new[f] = loaded[f]
           r == [answered |-> IF new.answered = loaded.answered THEN now.answered ELSE new.answered,
                 right    |-> IF new.right = loaded.right THEN now.right ELSE new.right,
                 hint     |-> IF new.hint = loaded.hint THEN now.hint ELSE new.hint,
                 skipped  |-> IF new.skipped = loaded.skipped THEN now.skipped ELSE new.skipped,
                 locked   |-> IF new.locked = loaded.locked THEN now.locked ELSE new.locked]
<1>3. Flush(now, loaded, new) = r
  BY <1>1 DEF Flush
<1>4. r \in ResponseRows
  BY DEF ResponseRows
<1>5. ASSUME loaded = now PROVE r = new
  BY <1>5 DEF ResponseRows
<1> QED BY <1>3, <1>4, <1>5

(* So a flush of a row that goes back to answers does so, too.             *)
LEMMA FlushBacked ==
  ASSUME NEW now \in ResponseRows, NEW loaded \in ResponseRows, NEW new \in ResponseRows,
         NEW kinds, Backed(now, kinds), Backed(new, kinds)
  PROVE  Backed(Flush(now, loaded, new), kinds)
BY FlushFields DEF Backed

(* More answers given, a row still goes back to them.                      *)
LEMMA BackedGrows ==
  ASSUME NEW row, NEW few, NEW many, few \subseteq many, Backed(row, few)
  PROVE  Backed(row, many)
BY DEF Backed

(* The row of an answer.                                                   *)
LEMMA GradedFacts ==
  ASSUME NEW row \in ResponseRows \cup {NoRow}, NEW right \in BOOLEAN
  PROVE  /\ Graded(row, right) \in ResponseRows
         /\ Graded(row, right).answered /\ ~Graded(row, right).skipped
         /\ Graded(row, right).right \in {"yes", "no"}
         /\ \A kinds : Backed(row, kinds) =>
              Backed(Graded(row, right), kinds \cup {Graded(row, right).right})
<1>1. row.hint \in 0..MaxHint
  BY HintAssumption, NoRowFacts DEF ResponseRows
<1> QED BY <1>1, HintAssumption DEF Graded, ResponseRows, Backed

-----------------------------------------------------------------------------
(* What no step takes back: questions once there, answers once given, rows *)
(* once inserted, and the races that happened.                             *)
Forward ==
  /\ \A q \in Questions : /\ question[q] # "new" => question'[q] # "new"
                          /\ question[q] = "deleted" => question'[q] = "deleted"
  /\ \A a \in Attempts, q \in Questions :
       /\ given[a][q] \subseteq given'[a][q]
       /\ response[a][q] # NoRow => response'[a][q] # NoRow
  /\ raced \subseteq raced'

(* What was known of a row stays known.                                    *)
LEMMA KnownStays ==
  ASSUME Forward, NEW a \in Attempts, NEW q \in Questions, NEW row, Known(a, q, row)
  PROVE  Backed(row, given'[a][q]) /\ (row # NoRow => question'[q] # "new")
BY DEF Forward, Known, Backed

(* What was known of a request stays known while it waits.                 *)
LEMMA WaitingStaysKnown ==
  ASSUME TypeOK, Forward, NEW c \in Callers, RequestKnown(c), req'[c] = req[c]
  PROVE  RequestKnown(c)'
<1> DEFINE r == req[c]
<1>1. r \in Requests
  BY DEF TypeOK
<1>2. ASSUME r.op = "answer"
      PROVE  /\ question'[r.q] # "new" /\ ~r.seen.locked
             /\ r.row.answered /\ ~r.row.skipped /\ r.row.right \in {"yes", "no"}
             /\ Backed(r.row, given'[r.a][r.q] \cup {r.row.right})
  <2>1. r.a \in Attempts /\ r.q \in Questions
    BY <1>1, <1>2, RequestFields
  <2>2. /\ question[r.q] # "new" /\ ~r.seen.locked
        /\ r.row.answered /\ ~r.row.skipped /\ r.row.right \in {"yes", "no"}
        /\ Backed(r.row, given[r.a][r.q] \cup {r.row.right})
    BY <1>2 DEF RequestKnown, Doing
  <2>3. given[r.a][r.q] \cup {r.row.right} \subseteq given'[r.a][r.q] \cup {r.row.right}
    BY <2>1 DEF Forward
  <2> QED BY <2>1, <2>2, <2>3, BackedGrows DEF Forward
<1>3. ASSUME r.op = "navigate"
      PROVE  question'[r.q] # "new" /\ Known(r.a, r.q, r.seen)'
  <2>1. r.a \in Attempts /\ r.q \in Questions
    BY <1>1, <1>3, RequestFields
  <2>2. question[r.q] # "new" /\ Known(r.a, r.q, r.seen)
    BY <1>3 DEF RequestKnown, Doing
  <2>3. r.seen' = r.seen /\ r.a' = r.a /\ r.q' = r.q
    OBVIOUS
  <2> QED BY <2>1, <2>2, <2>3, KnownStays DEF Forward, Known
<1>4. ASSUME r.op = "submit", NEW q \in Questions
      PROVE  /\ Known(r.a, q, r.seen[q])'
             /\ q \in r.active => question'[q] # "new"
             /\ r.seen[q] # NoRow => response'[r.a][q] # NoRow
             /\ r.seen[q] # NoRow /\ q \notin r.active => question'[q] = "deleted"
  <2>1. r.a \in Attempts
    BY <1>1, <1>4, RequestFields
  <2>2. /\ Known(r.a, q, r.seen[q])
        /\ q \in r.active => question[q] # "new"
        /\ r.seen[q] # NoRow => response[r.a][q] # NoRow
        /\ r.seen[q] # NoRow /\ q \notin r.active => question[q] = "deleted"
    BY <1>4 DEF RequestKnown, Doing
  <2>3. r.seen' = r.seen /\ r.a' = r.a
    OBVIOUS
  <2> QED BY <2>1, <2>2, <2>3, KnownStays DEF Forward, Known
<1> QED BY <1>2, <1>3, <1>4 DEF RequestKnown, Doing

(* A request moves on, the others wait.                                    *)
LEMMA RequestsKnown ==
  ASSUME IInv, Forward, NEW c \in Callers, NEW r \in Requests,
         req' = [req EXCEPT ![c] = r], RequestKnown(c)'
  PROVE  /\ req' \in [Callers -> Requests]
         /\ \A d \in Callers : RequestKnown(d)'
<1>1. req \in [Callers -> Requests]
  BY DEF IInv, TypeOK
<1>2. ASSUME NEW d \in Callers, d # c PROVE RequestKnown(d)'
  BY <1>1, <1>2, WaitingStaysKnown DEF IInv
<1> QED BY <1>1, <1>2

(* An idle request knows nothing, and may be there.                        *)
LEMMA IdleFacts ==
  /\ Idle \in Requests
  /\ \A c \in Callers : req'[c] = Idle => RequestKnown(c)'
BY DEF Idle, Requests, RequestKnown, Doing

-----------------------------------------------------------------------------
(* At first there is nothing.                                              *)
LEMMA InitIInv == Init => IInv
<1> SUFFICES ASSUME Init PROVE IInv
  OBVIOUS
<1>1. Cardinality(Questions) \in Nat
  BY QuestionsFinite, FS_CardinalityType
<1>2. TypeOK
  BY <1>1, IdleFacts DEF Init, TypeOK, AttemptRows, NoAttempt, Requests
<1>3. NothingInvented
  <2> SUFFICES ASSUME NEW a \in Attempts
               PROVE  /\ \A q \in Questions : Backed(response[a][q], given[a][q])
                      /\ attempt[a].correct <= Cardinality(GivenTo(a, "yes"))
                      /\ attempt[a].hinted <= Cardinality(GivenTo(a, "yes") \cap GivenTo(a, "no"))
    BY DEF NothingInvented
  <2>1. GivenTo(a, "yes") = {} /\ GivenTo(a, "yes") \cap GivenTo(a, "no") = {}
    BY DEF Init, GivenTo
  <2>2. attempt[a].correct = 0 /\ attempt[a].hinted = 0
    BY DEF Init, NoAttempt
  <2>3. \A q \in Questions : Backed(response[a][q], given[a][q])
    BY NoRowFacts DEF Init
  <2> QED BY <2>1, <2>2, <2>3, FS_EmptySet
<1>4. OneInProgress /\ ScoreWithinOne /\ LockedIsAnswered
  BY NoRowFacts DEF Init, OneInProgress, InProgress, ScoreWithinOne, LockedIsAnswered, NoAttempt
<1>5. \A a \in Attempts, q \in Questions : Known(a, q, response[a][q])
  BY NoRowFacts DEF Init, Known
<1>6. \A c \in Callers : RequestKnown(c)
  BY DEF Init, Idle, RequestKnown, Doing
<1> QED BY <1>2, <1>3, <1>4, <1>5, <1>6 DEF IInv

-----------------------------------------------------------------------------
(* Points stay backed while answers are only added.                        *)
LEMMA PointsStayBacked ==
  ASSUME NEW a \in Attempts, TypeOK, TypeOK', NothingInvented,
         \A q \in Questions : given[a][q] \subseteq given'[a][q],
         attempt'[a].correct = attempt[a].correct, attempt'[a].hinted = attempt[a].hinted
  PROVE  /\ attempt'[a].correct <= Cardinality(GivenTo(a, "yes")')
         /\ attempt'[a].hinted <= Cardinality(GivenTo(a, "yes")' \cap GivenTo(a, "no")')
<1>1. /\ GivenTo(a, "yes") \subseteq GivenTo(a, "yes")'
      /\ GivenTo(a, "no") \subseteq GivenTo(a, "no")'
      /\ GivenTo(a, "yes")' \subseteq Questions
  BY DEF GivenTo
<1> DEFINE yes == GivenTo(a, "yes")'
           both == GivenTo(a, "yes")' \cap GivenTo(a, "no")'
           yes0 == GivenTo(a, "yes")
           both0 == GivenTo(a, "yes") \cap GivenTo(a, "no")
<1>2. /\ yes \in SUBSET Questions /\ both \in SUBSET Questions
      /\ yes0 \in SUBSET yes /\ both0 \in SUBSET both
  BY <1>1
<1>3. attempt[a].correct <= Cardinality(yes0) /\ attempt[a].hinted <= Cardinality(both0)
  BY DEF NothingInvented
<1>4. Cardinality(Questions) \in Nat
  BY QuestionsFinite, FS_CardinalityType
<1>5. attempt[a].correct \in Nat /\ attempt[a].hinted \in Nat
  BY <1>4 DEF TypeOK, AttemptRows
<1> HIDE DEF yes, both, yes0, both0
<1>6. /\ IsFiniteSet(yes) /\ IsFiniteSet(both)
  BY <1>2, QuestionsFinite, FS_Subset
<1>7. /\ Cardinality(yes0) <= Cardinality(yes) /\ IsFiniteSet(yes0)
      /\ Cardinality(both0) <= Cardinality(both) /\ IsFiniteSet(both0)
  BY <1>2, <1>6, FS_Subset
<1>8. /\ Cardinality(yes) \in Nat /\ Cardinality(both) \in Nat
      /\ Cardinality(yes0) \in Nat /\ Cardinality(both0) \in Nat
  BY <1>6, <1>7, FS_CardinalityType
<1>9. attempt'[a].correct <= Cardinality(yes) /\ attempt'[a].hinted <= Cardinality(both)
  BY <1>3, <1>5, <1>7, <1>8
<1> QED BY <1>9 DEF yes, both

(* Steps that write no response: requests that read, the mentor, an        *)
(* attempt that begins or is abandoned.                                    *)
LEMMA NothingWritten ==
  ASSUME IInv, TypeOK', UNCHANGED <<response, given, raced>>,
         \A q \in Questions : /\ question[q] # "new" => question'[q] # "new"
                              /\ question[q] = "deleted" => question'[q] = "deleted",
         \A a \in Attempts : /\ attempt'[a].correct = attempt[a].correct
                             /\ attempt'[a].hinted = attempt[a].hinted
                             /\ attempt'[a].total = attempt[a].total,
         OneInProgress', \A c \in Callers : RequestKnown(c)'
  PROVE  IInv'
<1>1. Forward
  BY DEF Forward
<1>2. NothingInvented'
  <2> SUFFICES ASSUME NEW a \in Attempts
               PROVE  /\ \A q \in Questions : Backed(response'[a][q], given'[a][q])
                      /\ attempt'[a].correct <= Cardinality(GivenTo(a, "yes")')
                      /\ attempt'[a].hinted <= Cardinality(GivenTo(a, "yes")' \cap GivenTo(a, "no")')
    BY DEF NothingInvented
  <2>1. \A q \in Questions : Backed(response'[a][q], given'[a][q])
    BY DEF IInv, NothingInvented
  <2>2. \A q \in Questions : given[a][q] \subseteq given'[a][q]
    OBVIOUS
  <2> QED BY <2>1, <2>2, PointsStayBacked DEF IInv
<1>3. ScoreWithinOne'
  BY DEF IInv, ScoreWithinOne
<1>4. LockedIsAnswered'
  BY DEF IInv, LockedIsAnswered
<1>5. \A a \in Attempts, q \in Questions : Known(a, q, response[a][q])'
  BY DEF IInv, Known
<1> QED BY <1>2, <1>3, <1>4, <1>5 DEF IInv

(* A request that reads.                                                   *)
LEMMA ReadKeeps ==
  ASSUME IInv, NEW c \in Callers, NEW r \in Requests, req' = [req EXCEPT ![c] = r],
         RequestKnown(c)', UNCHANGED <<content, attempt, response, given, raced>>
  PROVE  IInv'
<1>1. Forward
  BY DEF Forward, content
<1>2. req' \in [Callers -> Requests] /\ \A d \in Callers : RequestKnown(d)'
  BY <1>1, RequestsKnown
<1>3. TypeOK'
  BY <1>2 DEF IInv, TypeOK, content
<1>4. OneInProgress'
  BY DEF IInv, OneInProgress, InProgress
<1> QED BY <1>2, <1>3, <1>4, NothingWritten DEF content

(* Requests that hold nothing yet, or no more.                           *)
LEMMA StartReadKeeps ==
  ASSUME IInv, NEW c \in Callers, StartRead(c) \/ RequestDies(c)
  PROVE  IInv'
<1>1. req \in [Callers -> Requests]
  BY DEF IInv, TypeOK
<1>2. CASE StartRead(c)
  <2>1. [op |-> "start"] \in Requests
    BY DEF Requests
  <2>2. req' = [req EXCEPT ![c] = [op |-> "start"]]
    BY <1>2 DEF StartRead, Begin
  <2>3. RequestKnown(c)'
    BY <1>1, <2>2 DEF RequestKnown, Doing
  <2> QED BY <1>2, <2>1, <2>2, <2>3, ReadKeeps DEF StartRead
<1>3. CASE RequestDies(c)
  BY <1>1, <1>3, IdleFacts, ReadKeeps DEF RequestDies, Return
<1> QED BY <1>2, <1>3

(* An answer is graded when it is read: its row goes back to it.         *)
LEMMA AnswerReadKeeps ==
  ASSUME IInv, NEW c \in Callers, NEW a \in Attempts, NEW q \in Questions, NEW right \in BOOLEAN,
         AnswerRead(c, a, q, right)
  PROVE  IInv'
<1> DEFINE seen == response[a][q]
           row == Graded(seen, right)
           r == [op |-> "answer", a |-> a, q |-> q, seen |-> seen, row |-> row]
<1>1. seen \in ResponseRows \cup {NoRow} /\ req \in [Callers -> Requests]
  BY DEF IInv, TypeOK
<1>2. Backed(seen, given[a][q])
  BY DEF IInv, Known
<1>3. /\ row \in ResponseRows /\ row.answered /\ ~row.skipped /\ row.right \in {"yes", "no"}
      /\ Backed(row, given[a][q] \cup {row.right})
  BY <1>1, <1>2, GradedFacts
<1>4. /\ req' = [req EXCEPT ![c] = r] /\ question[q] # "new" /\ ~seen.locked
      /\ UNCHANGED <<content, attempt, response, given, raced>>
  BY DEF AnswerRead, Begin
<1> HIDE DEF seen, row
<1>5. r \in Requests
  BY <1>1, <1>3 DEF Requests
<1>6. RequestKnown(c)'
  <2>1. req'[c] = r
    BY <1>1, <1>4
  <2>2. question'[q] # "new" /\ given' = given
    BY <1>4 DEF content
  <2> QED BY <1>3, <1>4, <2>1, <2>2 DEF RequestKnown, Doing
<1> HIDE DEF r
<1> QED BY <1>4, <1>5, <1>6, ReadKeeps

(* Navigation reads one response.                                        *)
LEMMA NavigateReadKeeps ==
  ASSUME IInv, NEW c \in Callers, NEW a \in Attempts, NEW q \in Questions, NEW skip \in BOOLEAN,
         NavigateRead(c, a, q, skip)
  PROVE  IInv'
<1> DEFINE seen == response[a][q]
           r == [op |-> "navigate", a |-> a, q |-> q, seen |-> seen, skip |-> skip]
<1>1. seen \in ResponseRows \cup {NoRow} /\ req \in [Callers -> Requests]
  BY DEF IInv, TypeOK
<1>2. Known(a, q, seen)
  BY DEF IInv
<1>3. /\ req' = [req EXCEPT ![c] = r] /\ question[q] # "new"
      /\ UNCHANGED <<content, attempt, response, given, raced>>
  BY DEF NavigateRead, Begin, Active
<1> HIDE DEF seen
<1>4. r \in Requests
  BY <1>1 DEF Requests
<1>5. RequestKnown(c)'
  <2>1. req'[c] = r
    BY <1>1, <1>3
  <2>2. question' = question /\ given' = given
    BY <1>3 DEF content
  <2> QED BY <1>2, <1>3, <2>1, <2>2 DEF RequestKnown, Doing, Known
<1> HIDE DEF r
<1> QED BY <1>3, <1>4, <1>5, ReadKeeps

(* A submission reads all responses, which are to questions that existed. *)
LEMMA SubmitReadKeeps ==
  ASSUME IInv, NEW c \in Callers, NEW a \in Attempts, SubmitRead(c, a)
  PROVE  IInv'
<1> DEFINE seen == response[a]
           r == [op |-> "submit", a |-> a, seen |-> seen, active |-> Active]
<1>1. /\ seen \in [Questions -> ResponseRows \cup {NoRow}] /\ req \in [Callers -> Requests]
      /\ Active \subseteq Questions
  BY DEF IInv, TypeOK, Active
<1>2. /\ req' = [req EXCEPT ![c] = r]
      /\ UNCHANGED <<content, attempt, response, given, raced>>
  BY DEF SubmitRead, Begin
<1>3. ASSUME NEW q \in Questions
      PROVE  /\ Known(a, q, seen[q])
             /\ q \in Active => question[q] # "new"
             /\ seen[q] # NoRow => response[a][q] # NoRow
             /\ seen[q] # NoRow /\ q \notin Active => question[q] = "deleted"
  <2>1. Known(a, q, seen[q]) /\ question[q] \in {"new", "active", "deleted"}
    BY DEF IInv, TypeOK
  <2> QED BY <2>1 DEF Known, Active
<1>4. r \in Requests
  BY <1>1 DEF Requests
<1>5. RequestKnown(c)'
  <2>1. req'[c] = r
    BY <1>1, <1>2
  <2>2. question' = question /\ given' = given /\ response' = response
    BY <1>2 DEF content
  <2> HIDE DEF seen
  <2> QED BY <1>3, <2>1, <2>2 DEF RequestKnown, Doing, Known
<1> HIDE DEF r
<1> QED BY <1>2, <1>4, <1>5, ReadKeeps

(* An attempt begins only where none is in progress.                       *)
LEMMA StartCreateKeeps ==
  ASSUME IInv, NEW c \in Callers, NEW a \in Attempts, StartCreate(c, a)
  PROVE  IInv'
<1>1. Forward
  BY DEF StartCreate, Forward, content
<1>2. req' = [req EXCEPT ![c] = Idle] /\ req'[c] = Idle
  BY DEF StartCreate, Return, IInv, TypeOK
<1>3. req' \in [Callers -> Requests] /\ \A d \in Callers : RequestKnown(d)'
  BY <1>1, <1>2, IdleFacts, RequestsKnown
<1>4. /\ attempt \in [Attempts -> AttemptRows]
      /\ attempt' = [attempt EXCEPT ![a] = [attempt[a] EXCEPT !.status = "in_progress"]]
  BY DEF IInv, TypeOK, StartCreate
<1>5. [attempt[a] EXCEPT !.status = "in_progress"] \in AttemptRows
  BY <1>4 DEF AttemptRows
<1>6. TypeOK'
  BY <1>3, <1>4, <1>5 DEF IInv, TypeOK, StartCreate, content
<1>7. OneInProgress'
  BY <1>4 DEF StartCreate, OneInProgress, InProgress
<1>8. \A b \in Attempts : /\ attempt'[b].correct = attempt[b].correct
                          /\ attempt'[b].hinted = attempt[b].hinted
                          /\ attempt'[b].total = attempt[b].total
  BY <1>4 DEF AttemptRows
<1> QED BY <1>3, <1>6, <1>7, <1>8, NothingWritten DEF StartCreate, content

-----------------------------------------------------------------------------
(* The mentor's steps: attempts are abandoned or left alone, and questions *)
(* go forward.                                                             *)
LEMMA MentorKeeps ==
  ASSUME IInv, MentorStep
  PROVE  IInv'
<1>1. UNCHANGED <<response, req, given, raced>>
  BY DEF MentorStep, Publish, Unpublish, Supersede, DeleteTopic, CreateQuestion, DeleteQuestion
<1>2. quiz' \in {"live", "down", "gone"}
  BY DEF MentorStep, Publish, Unpublish, Supersede, DeleteTopic, CreateQuestion, DeleteQuestion,
         IInv, TypeOK
<1>3. question \in [Questions -> {"new", "active", "deleted"}]
  BY DEF IInv, TypeOK
<1>4. \/ UNCHANGED question
      \/ \E q \in Questions : question[q] = "new" /\ question' = [question EXCEPT ![q] = "active"]
      \/ \E q \in Questions : question[q] = "active" /\ question' = [question EXCEPT ![q] = "deleted"]
  BY DEF MentorStep, Publish, Unpublish, Supersede, DeleteTopic, CreateQuestion, DeleteQuestion,
         Active
<1>5. question' \in [Questions -> {"new", "active", "deleted"}]
  BY <1>3, <1>4
<1>6. \A q \in Questions : question[q] # "new" => question'[q] # "new"
  BY <1>3, <1>4
<1>7. \A q \in Questions : question[q] = "deleted" => question'[q] = "deleted"
  BY <1>3, <1>4
<1>8. UNCHANGED attempt \/ Abandon
  BY DEF MentorStep, Publish, Unpublish, Supersede, DeleteTopic, CreateQuestion, DeleteQuestion
<1>9. attempt \in [Attempts -> AttemptRows]
  BY DEF IInv, TypeOK
<1>10. /\ attempt' \in [Attempts -> AttemptRows]
      /\ \A a \in Attempts : /\ attempt'[a].correct = attempt[a].correct
                             /\ attempt'[a].hinted = attempt[a].hinted
                             /\ attempt'[a].total = attempt[a].total
                             /\ attempt'[a].status = "in_progress" => attempt[a].status = "in_progress"
  <2>1. CASE UNCHANGED attempt
    BY <1>9, <2>1
  <2>2. CASE Abandon
    <3>1. ASSUME NEW a \in Attempts
          PROVE  LET new == [attempt[a] EXCEPT !.status = "abandoned"]
                 IN /\ new \in AttemptRows /\ new.status = "abandoned"
                    /\ new.correct = attempt[a].correct /\ new.hinted = attempt[a].hinted
                    /\ new.total = attempt[a].total
      BY <1>9 DEF AttemptRows
    <3> QED BY <1>9, <2>2, <3>1 DEF Abandon, InProgress
  <2> QED BY <1>8, <2>1, <2>2
<1>11. TypeOK'
  BY <1>1, <1>2, <1>5, <1>10 DEF IInv, TypeOK
<1>12. OneInProgress'
  BY <1>10 DEF IInv, OneInProgress, InProgress
<1>13. \A c \in Callers : RequestKnown(c)'
  <2>1. Forward
    BY <1>1, <1>6, <1>7 DEF Forward
  <2> QED BY <1>1, <2>1, WaitingStaysKnown DEF IInv
<1> QED BY <1>1, <1>6, <1>7, <1>10, <1>11, <1>12, <1>13, NothingWritten

-----------------------------------------------------------------------------
(* What LockedStays says of a step.                                        *)
LockedKept ==
  \A a \in Attempts, q \in Questions :
    response[a][q].locked /\ a \notin raced' => response'[a][q] = response[a][q]

(* A request writes one response: a row that goes back to answers given,   *)
(* and where nothing was outdated a locked one is left as it is.           *)
LEMMA RowWritten ==
  ASSUME IInv, NEW c \in Callers, NEW a \in Attempts, NEW q \in Questions, NEW new \in ResponseRows,
         Return(c), UNCHANGED <<content, attempt>>,
         response' = [response EXCEPT ![a][q] = new],
         given' \in [Attempts -> [Questions -> SUBSET {"yes", "no"}]],
         \A b \in Attempts, p \in Questions : given[b][p] \subseteq given'[b][p],
         raced \subseteq raced', raced' \subseteq Attempts,
         Backed(new, given'[a][q]), question[q] # "new",
         a \notin raced' => /\ new.locked => new.answered /\ ~new.skipped
                            /\ response[a][q].locked => new = response[a][q]
  PROVE  IInv' /\ LockedKept
<1>1. /\ response \in [Attempts -> [Questions -> ResponseRows \cup {NoRow}]]
      /\ req \in [Callers -> Requests]
  BY DEF IInv, TypeOK
<1>2. /\ response'[a][q] = new /\ new # NoRow
      /\ \A b \in Attempts, p \in Questions : b # a \/ p # q => response'[b][p] = response[b][p]
      /\ response' \in [Attempts -> [Questions -> ResponseRows \cup {NoRow}]]
  BY <1>1, NoRowFacts
<1>3. Forward
  BY <1>2 DEF Forward, content
<1>4. req' \in [Callers -> Requests] /\ \A d \in Callers : RequestKnown(d)'
  BY <1>1, <1>3, IdleFacts, RequestsKnown DEF Return
<1>5. TypeOK'
  BY <1>2, <1>4 DEF IInv, TypeOK, content
<1>6. ASSUME NEW b \in Attempts, NEW p \in Questions
      PROVE  /\ Backed(response'[b][p], given'[b][p])
             /\ Known(b, p, response[b][p])'
  <2>1. CASE b = a /\ p = q
    BY <1>2, <2>1 DEF Known, content
  <2>2. CASE b # a \/ p # q
    <3>1. Known(b, p, response[b][p]) /\ response'[b][p] = response[b][p]
      BY <1>2, <2>2 DEF IInv
    <3> QED BY <1>3, <3>1, KnownStays DEF Known
  <2> QED BY <2>1, <2>2
<1>7. NothingInvented'
  <2> SUFFICES ASSUME NEW b \in Attempts
               PROVE  /\ \A p \in Questions : Backed(response'[b][p], given'[b][p])
                      /\ attempt'[b].correct <= Cardinality(GivenTo(b, "yes")')
                      /\ attempt'[b].hinted <= Cardinality(GivenTo(b, "yes")' \cap GivenTo(b, "no")')
    BY DEF NothingInvented
  <2> QED BY <1>5, <1>6, PointsStayBacked DEF IInv
<1>8. OneInProgress'
  BY DEF IInv, OneInProgress, InProgress
<1>9. ScoreWithinOne'
  <2> SUFFICES ASSUME NEW b \in Attempts \ raced', attempt'[b].correct > attempt'[b].total
               PROVE  \E p \in Questions : question'[p] = "deleted" /\ "yes" \in given'[b][p]
    BY DEF ScoreWithinOne
  <2> QED BY DEF IInv, ScoreWithinOne, content
<1>10. LockedIsAnswered'
  <2> SUFFICES ASSUME NEW b \in Attempts \ raced', NEW p \in Questions, response'[b][p].locked
               PROVE  response'[b][p].answered /\ ~response'[b][p].skipped
    BY DEF LockedIsAnswered
  <2> QED BY <1>2 DEF IInv, LockedIsAnswered
<1>11. LockedKept
  BY <1>2 DEF LockedKept
<1> QED BY <1>4, <1>5, <1>6, <1>7, <1>8, <1>9, <1>10, <1>11 DEF IInv

(* Whether a step outdated something.                                      *)
LEMMA RaceFacts ==
  ASSUME IInv, NEW a \in Attempts, NEW outdated, Race(a, outdated)
  PROVE  /\ raced \subseteq raced' /\ raced' \subseteq Attempts
         /\ a \notin raced' => ~outdated /\ a \notin raced
         /\ \A b \in Attempts : b # a /\ b \notin raced' => b \notin raced
BY DEF IInv, TypeOK, Race

(* An answer is written over a row that may have changed.                *)
LEMMA AnswerWriteKeeps ==
  ASSUME IInv, NEW c \in Callers, AnswerWrite(c)
  PROVE  IInv' /\ LockedKept
<1> DEFINE r == req[c]
           now == response[r.a][r.q]
           loaded == IF r.seen = NoRow THEN now ELSE r.seen
           new == IF now = NoRow THEN r.row ELSE Flush(now, loaded, r.row)
           kinds == given[r.a][r.q] \cup {r.row.right}
<1>1. r \in Requests /\ r.op = "answer"
  BY DEF AnswerWrite, Doing, IInv, TypeOK
<1>2. /\ r.a \in Attempts /\ r.q \in Questions
      /\ r.seen \in ResponseRows \cup {NoRow} /\ r.row \in ResponseRows
  BY <1>1, RequestFields
<1>3. now \in ResponseRows \cup {NoRow}
  BY <1>2 DEF IInv, TypeOK
<1>4. /\ question[r.q] # "new" /\ ~r.seen.locked
      /\ r.row.answered /\ ~r.row.skipped /\ r.row.right \in {"yes", "no"}
      /\ Backed(r.row, kinds)
  BY <1>1 DEF IInv, RequestKnown, Doing
<1>5. Backed(now, kinds)
  BY <1>2, BackedGrows DEF IInv, Known
<1>6. /\ new \in ResponseRows /\ Backed(new, kinds)
      /\ now = r.seen => new = r.row
  <2>1. CASE now = NoRow
    BY <1>2, <1>4, <2>1
  <2>2. CASE now # NoRow
    <3>1. now \in ResponseRows /\ loaded \in ResponseRows
      BY <1>2, <1>3, <2>2
    <3>2. new = Flush(now, loaded, r.row)
      BY <2>2
    <3>3. now = r.seen => loaded = now
      OBVIOUS
    <3> HIDE DEF loaded, now, kinds, r
    <3>4. Flush(now, loaded, r.row) \in ResponseRows
      BY <1>2, <3>1, FlushFields
    <3>5. Backed(Flush(now, loaded, r.row), kinds)
      BY <1>2, <1>4, <1>5, <3>1, FlushBacked
    <3>6. loaded = now => Flush(now, loaded, r.row) = r.row
      BY <1>2, <3>1, FlushFields
    <3> QED BY <3>2, <3>3, <3>4, <3>5, <3>6
  <2> QED BY <2>1, <2>2
<1>7. /\ Return(c) /\ UNCHANGED <<content, attempt>>
      /\ response' = [response EXCEPT ![r.a][r.q] = new]
      /\ given' = [given EXCEPT ![r.a][r.q] = kinds]
      /\ Race(r.a, now # r.seen \/ ~InProgress(r.a))
  BY DEF AnswerWrite
<1>8. /\ given' \in [Attempts -> [Questions -> SUBSET {"yes", "no"}]]
      /\ given'[r.a][r.q] = kinds
      /\ \A b \in Attempts, p \in Questions : given[b][p] \subseteq given'[b][p]
  BY <1>2, <1>4, <1>7 DEF IInv, TypeOK
<1>9. /\ raced \subseteq raced' /\ raced' \subseteq Attempts
      /\ r.a \notin raced' => now = r.seen
  BY <1>2, <1>7, RaceFacts
<1>10. r.a \notin raced' => /\ new.locked => new.answered /\ ~new.skipped
                            /\ response[r.a][r.q].locked => new = response[r.a][r.q]
  BY <1>4, <1>6, <1>9
<1> HIDE DEF r, new, kinds, now
<1> QED BY <1>2, <1>4, <1>6, <1>7, <1>8, <1>9, <1>10, RowWritten

(* A mark is written over a row that may have changed.                   *)
LEMMA NavigateWriteKeeps ==
  ASSUME IInv, NEW c \in Callers, NavigateWrite(c)
  PROVE  IInv' /\ LockedKept
<1> DEFINE r == req[c]
           now == response[r.a][r.q]
           marked == IF ~r.seen.answered THEN [r.seen EXCEPT !.skipped = r.skip] ELSE r.seen
           new == IF now = NoRow THEN [Blank EXCEPT !.skipped = r.skip]
                  ELSE Flush(now, r.seen, marked)
           kinds == given[r.a][r.q]
<1>1. r \in Requests /\ r.op = "navigate"
  BY DEF NavigateWrite, Doing, IInv, TypeOK
<1>2. /\ r.a \in Attempts /\ r.q \in Questions
      /\ r.seen \in ResponseRows \cup {NoRow} /\ r.skip \in BOOLEAN
  BY <1>1, RequestFields
<1>3. now \in ResponseRows \cup {NoRow} /\ Backed(now, kinds)
  BY <1>2 DEF IInv, TypeOK, Known
<1>4. question[r.q] # "new" /\ Backed(r.seen, kinds)
  BY <1>1 DEF IInv, RequestKnown, Doing, Known
<1>5. /\ Return(c) /\ UNCHANGED <<content, attempt>> /\ given' = given
      /\ response' = [response EXCEPT ![r.a][r.q] = new]
      /\ Race(r.a, now # r.seen)
      /\ r.seen = NoRow => now = NoRow
  BY DEF NavigateWrite
<1>6. given \in [Attempts -> [Questions -> SUBSET {"yes", "no"}]]
  BY DEF IInv, TypeOK
<1>7. /\ raced \subseteq raced' /\ raced' \subseteq Attempts
      /\ r.a \notin raced' => now = r.seen /\ r.a \notin raced
  BY <1>2, <1>5, RaceFacts
<1>8. r.a \notin raced' => (now.locked => now.answered /\ ~now.skipped)
  BY <1>2, <1>7 DEF IInv, LockedIsAnswered
<1>9. /\ new \in ResponseRows /\ Backed(new, kinds)
      /\ r.a \notin raced' => /\ new.locked => new.answered /\ ~new.skipped
                              /\ now.locked => new = now
  <2>1. CASE now = NoRow
    BY <1>2, <2>1, BlankIsRow, NoRowFacts
  <2>2. CASE now # NoRow
    <3>1. now \in ResponseRows /\ r.seen \in ResponseRows
      BY <1>2, <1>3, <1>5, <2>2
    <3>2. /\ marked \in ResponseRows /\ Backed(marked, kinds)
          /\ marked.answered = r.seen.answered /\ marked.locked = r.seen.locked
          /\ r.seen.answered => marked = r.seen
      <4>1. CASE r.seen.answered
        BY <1>4, <3>1, <4>1
      <4>2. CASE ~r.seen.answered
        <5>1. marked = [r.seen EXCEPT !.skipped = r.skip]
          BY <4>2
        <5> HIDE DEF marked, kinds, r
        <5> QED BY <1>2, <1>4, <3>1, <4>2, <5>1, SkippedFields DEF Backed
      <4> QED BY <4>1, <4>2
    <3>3. new = Flush(now, r.seen, marked)
      BY <2>2
    <3> HIDE DEF marked, new, now, r, kinds
    <3>4. /\ new \in ResponseRows
          /\ r.seen = now => new = marked
      BY <3>1, <3>2, <3>3, FlushFields
    <3>5. Backed(new, kinds)
      BY <1>3, <3>1, <3>2, <3>3, FlushBacked
    <3>6. ASSUME r.a \notin raced'
          PROVE  /\ new.locked => new.answered /\ ~new.skipped
                 /\ now.locked => new = now
      BY <1>7, <1>8, <3>2, <3>4, <3>6
    <3> QED BY <3>4, <3>5, <3>6
  <2> QED BY <2>1, <2>2
<1> HIDE DEF r, new, kinds, marked
<1> QED BY <1>2, <1>4, <1>5, <1>6, <1>7, <1>9, RowWritten DEF kinds

(* What a submission makes of one response: a row that goes back to the    *)
(* answers, and the same row if nothing was outdated and it is locked.     *)
LEMMA FinalizedFacts ==
  ASSUME IInv, NEW c \in Callers, Doing(c, "submit"), NEW q \in Questions
  PROVE  LET r == req[c]
             now == response[r.a][q]
             kinds == given[r.a][q]
         IN /\ Finalized(r, q) \in ResponseRows \cup {NoRow}
            /\ Backed(Finalized(r, q), kinds) /\ Backed(Counted(r, q), kinds)
            /\ now # NoRow => Finalized(r, q) # NoRow
            /\ Finalized(r, q) # NoRow => question[q] # "new"
            /\ q \notin r.active => Counted(r, q) \in {now, r.seen[q]}
            /\ now = r.seen[q] /\ r.a \notin raced =>
                 /\ now.locked => Finalized(r, q) = now
                 /\ Finalized(r, q).locked =>
                      Finalized(r, q).answered /\ ~Finalized(r, q).skipped
<1> DEFINE r == req[c]
           now == response[r.a][q]
           row == r.seen[q]
           kinds == given[r.a][q]
           fin == Finalized(r, q)
<1>1. r \in Requests /\ r.op = "submit"
  BY DEF Doing, IInv, TypeOK
<1>2. r.a \in Attempts /\ row \in ResponseRows \cup {NoRow}
  BY <1>1, RequestFields
<1>3. now \in ResponseRows \cup {NoRow} /\ Backed(now, kinds) /\ (now # NoRow => question[q] # "new")
  BY <1>2 DEF IInv, TypeOK, Known
<1>4. /\ Backed(row, kinds) /\ (row # NoRow => now # NoRow)
      /\ q \in r.active => question[q] # "new"
  BY <1>1 DEF IInv, RequestKnown, Doing, Known
<1>5. r.a \notin raced /\ now.locked => now.answered /\ ~now.skipped
  BY <1>2 DEF IInv, LockedIsAnswered
<1>6. Rewritten(r, q) => q \in r.active
  BY DEF Rewritten
<1>7. row.locked /\ row # NoRow => ~Unanswered(row)
  BY DEF Unanswered
<1>8. Unanswered(row) \in BOOLEAN
  BY DEF Unanswered
<1>9. CASE ~Rewritten(r, q)
  <2>1. fin = now /\ Counted(r, q) \in {now, row}
    BY <1>9 DEF Finalized, Counted
  <2> HIDE DEF now, row, fin, r, kinds
  <2>2. Backed(Counted(r, q), kinds)
    BY <1>3, <1>4, <2>1
  <2>3. now = row /\ r.a \notin raced =>
          (now.locked => fin = now) /\ (fin.locked => fin.answered /\ ~fin.skipped)
    BY <1>5, <2>1
  <2> QED BY <1>3, <2>1, <2>2, <2>3 DEF now, row, fin, r, kinds
<1>10. CASE Rewritten(r, q) /\ row = NoRow
  <2>1. fin = [Blank EXCEPT !.skipped = TRUE] /\ Counted(r, q) = fin
    BY <1>10 DEF Finalized, Counted
  <2>2. fin \in ResponseRows /\ ~fin.locked /\ Backed(fin, kinds)
    BY <2>1, BlankIsRow
  <2>3. now = row => ~now.locked
    BY <1>10, NoRowFacts
  <2> HIDE DEF now, row, fin, kinds
  <2> QED BY <1>4, <1>6, <1>10, <2>1, <2>2, <2>3, NoRowFacts DEF now, row, fin, kinds
<1>11. CASE Rewritten(r, q) /\ row # NoRow
  <2>1. fin = [now EXCEPT !.skipped = Unanswered(row)] /\ Counted(r, q) = fin
    BY <1>11 DEF Finalized, Counted
  <2>2. now \in ResponseRows
    BY <1>3, <1>4, <1>11
  <2>3. /\ fin \in ResponseRows /\ fin.answered = now.answered /\ fin.right = now.right
        /\ fin.hint = now.hint /\ fin.locked = now.locked /\ fin.skipped = Unanswered(row)
        /\ now.skipped = Unanswered(row) => fin = now
    BY <1>8, <2>1, <2>2, SkippedFields
  <2>4. Backed(fin, kinds)
    BY <1>3, <2>3 DEF Backed
  <2>5. now = row /\ r.a \notin raced /\ now.locked => ~Unanswered(row) /\ now.answered /\ ~now.skipped
    BY <1>5, <1>7, <1>11
  <2>6. now = row /\ r.a \notin raced =>
          (now.locked => fin = now) /\ (fin.locked => fin.answered /\ ~fin.skipped)
    <3> HIDE DEF now, row, fin, r, kinds
    <3>1. now.skipped \in BOOLEAN
      BY <2>2 DEF ResponseRows
    <3> QED BY <1>8, <2>3, <2>5, <3>1
  <2> HIDE DEF now, row, fin, kinds
  <2> QED BY <1>4, <1>6, <1>11, <2>1, <2>3, <2>4, <2>6, NoRowFacts DEF now, row, fin, kinds
<1> HIDE DEF now, row, fin, kinds, r
<1> QED BY <1>9, <1>10, <1>11 DEF now, row, fin, kinds, r

(* The sums of a submission: no more than was answered, and no more than   *)
(* there are questions unless a deleted one counts.                        *)
LEMMA SubmissionSums ==
  ASSUME IInv, NEW c \in Callers, Doing(c, "submit")
  PROVE  LET r == req[c]
             right == {q \in Questions : Counted(r, q).right = "yes"}
             hinted == {q \in right : Counted(r, q).hint > 0}
         IN /\ Cardinality(right) \in 0..Cardinality(Questions)
            /\ Cardinality(hinted) \in 0..Cardinality(Questions)
            /\ Cardinality(r.active) \in 0..Cardinality(Questions)
            /\ Cardinality(right) <= Cardinality(GivenTo(r.a, "yes"))
            /\ Cardinality(hinted) <= Cardinality(GivenTo(r.a, "yes") \cap GivenTo(r.a, "no"))
            /\ response[r.a] = r.seen /\ Cardinality(right) > Cardinality(r.active) =>
                 \E q \in Questions : question[q] = "deleted" /\ "yes" \in given[r.a][q]
<1> DEFINE r == req[c]
           right == {q \in Questions : Counted(r, q).right = "yes"}
           hinted == {q \in right : Counted(r, q).hint > 0}
           yes == GivenTo(r.a, "yes")
           both == GivenTo(r.a, "yes") \cap GivenTo(r.a, "no")
<1>1. r \in Requests /\ r.op = "submit"
  BY DEF Doing, IInv, TypeOK
<1>2. r.a \in Attempts /\ r.active \in SUBSET Questions
  BY <1>1, RequestFields
<1>3. \A q \in Questions : Backed(Counted(r, q), given[r.a][q])
  BY FinalizedFacts
<1>4. /\ right \in SUBSET Questions /\ hinted \in SUBSET Questions
      /\ right \in SUBSET yes /\ hinted \in SUBSET both
      /\ yes \in SUBSET Questions /\ both \in SUBSET Questions
  BY <1>3 DEF GivenTo, Backed
<1>5. ASSUME response[r.a] = r.seen, NEW q \in right, q \notin r.active
      PROVE  question[q] = "deleted" /\ "yes" \in given[r.a][q]
  <2>1. Counted(r, q) \in {response[r.a][q], r.seen[q]}
    BY <1>5, FinalizedFacts
  <2>2. r.seen[q].right = "yes"
    BY <1>5, <2>1
  <2>3. r.seen[q] # NoRow
    BY <2>2, NoRowFacts
  <2> QED BY <1>1, <1>3, <1>5, <2>3 DEF IInv, RequestKnown, Doing, Backed
<1>6. Cardinality(Questions) \in Nat
  BY QuestionsFinite, FS_CardinalityType
<1> HIDE DEF r, right, hinted, yes, both
<1>7. /\ IsFiniteSet(right) /\ IsFiniteSet(hinted) /\ IsFiniteSet(r.active)
      /\ IsFiniteSet(yes) /\ IsFiniteSet(both)
      /\ Cardinality(right) <= Cardinality(Questions)
      /\ Cardinality(hinted) <= Cardinality(Questions)
      /\ Cardinality(r.active) <= Cardinality(Questions)
  BY <1>2, <1>4, QuestionsFinite, FS_Subset
<1>8. /\ Cardinality(right) \in Nat /\ Cardinality(hinted) \in Nat /\ Cardinality(r.active) \in Nat
  BY <1>7, FS_CardinalityType
<1>9. Cardinality(right) <= Cardinality(yes) /\ Cardinality(hinted) <= Cardinality(both)
  BY <1>4, <1>7, FS_Subset
<1>10. ASSUME response[r.a] = r.seen, Cardinality(right) > Cardinality(r.active)
       PROVE  \E q \in Questions : question[q] = "deleted" /\ "yes" \in given[r.a][q]
  <2>1. ~(right \subseteq r.active)
    <3>1. right \in SUBSET r.active => Cardinality(right) <= Cardinality(r.active)
      BY <1>7, FS_Subset
    <3> QED BY <1>8, <1>10, <3>1
  <2> QED BY <1>4, <1>5, <1>10, <2>1
<1> QED BY <1>6, <1>7, <1>8, <1>9, <1>10 DEF r, right, hinted, yes, both

(* A submission writes all responses and the sums.                       *)
LEMMA SubmitWriteKeeps ==
  ASSUME IInv, NEW c \in Callers, SubmitWrite(c)
  PROVE  IInv' /\ LockedKept
<1> DEFINE r == req[c]
           right == {q \in Questions : Counted(r, q).right = "yes"}
           hinted == {q \in right : Counted(r, q).hint > 0}
           sums == [status |-> "submitted", correct |-> Cardinality(right),
                    hinted |-> Cardinality(hinted), total |-> Cardinality(r.active)]
<1>1. Doing(c, "submit") /\ r \in Requests /\ r.op = "submit"
  BY DEF SubmitWrite, Doing, IInv, TypeOK
<1>2. r.a \in Attempts
  BY <1>1, RequestFields
<1>3. /\ UNCHANGED <<content, given>> /\ req' = [req EXCEPT ![c] = Idle]
      /\ response' = [response EXCEPT ![r.a] = [q \in Questions |-> Finalized(r, q)]]
      /\ attempt' = [attempt EXCEPT ![r.a] = sums]
      /\ Race(r.a, response[r.a] # r.seen \/ ~InProgress(r.a))
  BY DEF SubmitWrite, TotalQuestions, Return
<1>4. /\ \A q \in Questions : response'[r.a][q] = Finalized(r, q)
      /\ \A b \in Attempts : b # r.a => response'[b] = response[b]
      /\ response' \in [Attempts -> [Questions -> ResponseRows \cup {NoRow}]]
  <2>1. \A q \in Questions : Finalized(r, q) \in ResponseRows \cup {NoRow}
    BY <1>1, FinalizedFacts
  <2>2. response \in [Attempts -> [Questions -> ResponseRows \cup {NoRow}]]
    BY DEF IInv, TypeOK
  <2> QED BY <1>2, <1>3, <2>1, <2>2
<1>5. /\ raced \subseteq raced' /\ raced' \subseteq Attempts
      /\ r.a \notin raced' => response[r.a] = r.seen /\ r.a \notin raced
  BY <1>2, <1>3, RaceFacts
<1>6. Forward
  <2>1. ASSUME NEW b \in Attempts, NEW q \in Questions, response[b][q] # NoRow
        PROVE  response'[b][q] # NoRow
    BY <1>1, <1>4, <2>1, FinalizedFacts
  <2> QED BY <1>3, <1>5, <2>1 DEF Forward, content
<1>7. req' \in [Callers -> Requests] /\ \A d \in Callers : RequestKnown(d)'
  BY <1>3, <1>6, IdleFacts, RequestsKnown DEF IInv, TypeOK
<1>8. sums \in AttemptRows
  BY <1>1, SubmissionSums DEF AttemptRows
<1>9. /\ attempt'[r.a] = sums /\ \A b \in Attempts : b # r.a => attempt'[b] = attempt[b]
      /\ attempt' \in [Attempts -> AttemptRows]
  BY <1>2, <1>3, <1>8 DEF IInv, TypeOK
<1>10. /\ sums.correct = Cardinality(right) /\ sums.hinted = Cardinality(hinted)
       /\ sums.total = Cardinality(r.active) /\ sums.status = "submitted"
  OBVIOUS
<1> HIDE DEF sums
<1>11. TypeOK'
  BY <1>3, <1>4, <1>5, <1>7, <1>9 DEF IInv, TypeOK, content
<1>12. OneInProgress'
  BY <1>9, <1>10 DEF IInv, OneInProgress, InProgress
<1>13. ASSUME NEW b \in Attempts, NEW q \in Questions
       PROVE  Known(b, q, response[b][q])'
  <2>1. CASE b = r.a
    BY <1>1, <1>3, <1>4, <2>1, FinalizedFacts DEF Known, content
  <2>2. CASE b # r.a
    BY <1>3, <1>4, <2>2 DEF IInv, Known, content
  <2> QED BY <2>1, <2>2
<1>14. NothingInvented'
  <2> SUFFICES ASSUME NEW b \in Attempts
               PROVE  /\ \A q \in Questions : Backed(response'[b][q], given'[b][q])
                      /\ attempt'[b].correct <= Cardinality(GivenTo(b, "yes")')
                      /\ attempt'[b].hinted <= Cardinality(GivenTo(b, "yes")' \cap GivenTo(b, "no")')
    BY DEF NothingInvented
  <2>1. \A q \in Questions : Backed(response'[b][q], given'[b][q])
    BY <1>13 DEF Known
  <2>2. CASE b = r.a
    <3>1. GivenTo(b, "yes")' = GivenTo(b, "yes") /\ GivenTo(b, "no")' = GivenTo(b, "no")
      BY <1>3 DEF GivenTo
    <3>2. /\ Cardinality(right) <= Cardinality(GivenTo(r.a, "yes"))
          /\ Cardinality(hinted) <= Cardinality(GivenTo(r.a, "yes") \cap GivenTo(r.a, "no"))
      BY <1>1, SubmissionSums
    <3> HIDE DEF right, hinted, r
    <3> QED BY <1>9, <1>10, <2>1, <2>2, <3>1, <3>2
  <2>3. CASE b # r.a
    BY <1>3, <1>9, <1>11, <2>1, <2>3, PointsStayBacked DEF IInv
  <2> QED BY <2>2, <2>3
<1>15. ScoreWithinOne'
  <2> SUFFICES ASSUME NEW b \in Attempts \ raced', attempt'[b].correct > attempt'[b].total
               PROVE  \E q \in Questions : question[q] = "deleted" /\ "yes" \in given[b][q]
    BY <1>3 DEF ScoreWithinOne, content
  <2>1. CASE b = r.a
    <3>1. response[r.a] = r.seen /\ Cardinality(right) > Cardinality(r.active)
      BY <1>5, <1>9, <1>10, <2>1
    <3> QED BY <1>1, <2>1, <3>1, SubmissionSums
  <2>2. CASE b # r.a
    BY <1>5, <1>9, <2>2 DEF IInv, ScoreWithinOne
  <2> QED BY <2>1, <2>2
<1>16. LockedIsAnswered' /\ LockedKept
  <2> SUFFICES ASSUME NEW b \in Attempts \ raced', NEW q \in Questions
               PROVE  /\ response'[b][q].locked => response'[b][q].answered /\ ~response'[b][q].skipped
                      /\ response[b][q].locked => response'[b][q] = response[b][q]
    BY DEF LockedIsAnswered, LockedKept
  <2>1. CASE b = r.a
    <3>1. response[r.a][q] = r.seen[q] /\ r.a \notin raced
      BY <1>5, <2>1
    <3> QED BY <1>1, <1>4, <2>1, <3>1, FinalizedFacts, SMTT(30)
  <2>2. CASE b # r.a
    BY <1>4, <1>5, <2>2 DEF IInv, LockedIsAnswered
  <2> QED BY <2>1, <2>2
<1> QED BY <1>7, <1>11, <1>12, <1>13, <1>14, <1>15, <1>16 DEF IInv

-----------------------------------------------------------------------------
(* The trainee's steps.                                                  *)
LEMMA TraineeKeeps ==
  ASSUME IInv, NEW c \in Callers, TraineeStep(c)
  PROVE  IInv' /\ LockedKept
<1>1. CASE UNCHANGED response
  <2>1. LockedKept
    BY <1>1 DEF LockedKept
  <2> QED BY <2>1, StartReadKeeps, AnswerReadKeeps, NavigateReadKeeps, SubmitReadKeeps,
             StartCreateKeeps, AnswerWriteKeeps, NavigateWriteKeeps, SubmitWriteKeeps DEF TraineeStep
<1>2. CASE ~UNCHANGED response
  <2>1. AnswerWrite(c) \/ NavigateWrite(c) \/ SubmitWrite(c)
    BY <1>2 DEF TraineeStep, StartRead, StartCreate, AnswerRead, NavigateRead, SubmitRead, RequestDies
  <2> QED BY <2>1, AnswerWriteKeeps, NavigateWriteKeeps, SubmitWriteKeeps
<1> QED BY <1>1, <1>2

(* Every step keeps the invariant and what was locked.                   *)
LEMMA NextKeeps == IInv /\ [Next]_vars => IInv' /\ LockedKept
<1> SUFFICES ASSUME IInv, [Next]_vars PROVE IInv' /\ LockedKept
  OBVIOUS
<1>1. CASE MentorStep
  <2>1. UNCHANGED response
    BY <1>1 DEF MentorStep, Publish, Unpublish, Supersede, DeleteTopic, CreateQuestion, DeleteQuestion
  <2> QED BY <1>1, <2>1, MentorKeeps DEF LockedKept
<1>2. ASSUME NEW c \in Callers, TraineeStep(c) PROVE IInv' /\ LockedKept
  BY <1>2, TraineeKeeps
<1>3. CASE UNCHANGED vars
  <2>1. UNCHANGED <<quiz, question, attempt, response, req, given, raced>>
    BY <1>3 DEF vars
  <2>2. Forward /\ OneInProgress' /\ TypeOK' /\ LockedKept
    BY <2>1 DEF Forward, IInv, OneInProgress, InProgress, TypeOK, LockedKept
  <2>3. \A c \in Callers : RequestKnown(c)'
    BY <2>1, <2>2, WaitingStaysKnown DEF IInv
  <2> QED BY <2>1, <2>2, <2>3, NothingWritten
<1> QED BY <1>1, <1>2, <1>3 DEF Next

(* The inductive invariant: whatever overlapping requests have read, what  *)
(* they may write goes back to an answer given to a question that existed. *)
THEOREM AttemptInvariance == Spec => []IInv
<1>1. IInv /\ [Next]_vars => IInv'
  BY NextKeeps
<1> QED BY InitIInv, <1>1, PTL DEF Spec

(* The variables keep their types; the sums of a submission stay within    *)
(* the number of questions.                                                *)
THEOREM AttemptTypes == Spec => []TypeOK
<1>1. IInv => TypeOK BY DEF IInv
<1> QED BY <1>1, AttemptInvariance, PTL

(* However many requests start attempts at once, one is in progress        *)
(* (start_attempt).                                                        *)
THEOREM OneAttemptInProgress == Spec => []OneInProgress
<1>1. IInv => OneInProgress BY DEF IInv
<1> QED BY <1>1, AttemptInvariance, PTL

(* For any number of questions and overlapping requests, no right or       *)
(* locked response, no hint and no point lacks its answer, though the      *)
(* requests write single columns over what others wrote (upsert_response). *)
THEOREM PointsAreEarned == Spec => []NothingInvented
<1>1. IInv => NothingInvented BY DEF IInv
<1> QED BY <1>1, AttemptInvariance, PTL

(* A submission that nothing overlaps with counts more points than         *)
(* questions only if a question answered in it was deleted                 *)
(* (submit_attempt).                                                       *)
THEOREM ScoreIsBounded == Spec => []ScoreWithinOne
<1>1. IInv => ScoreWithinOne BY DEF IInv
<1> QED BY <1>1, AttemptInvariance, PTL

(* A locked response is never changed where no request was outdated, by    *)
(* answers, navigation or submission.                                      *)
THEOREM LockedResponsesStay == Spec => LockedStays
<1>1. IInv /\ [Next]_vars => [\A a \in Attempts, q \in Questions :
         response[a][q].locked /\ a \notin raced' => response'[a][q] = response[a][q]]_vars
  BY NextKeeps DEF LockedKept
<1> QED BY <1>1, AttemptInvariance, PTL DEF Spec, LockedStays
=============================================================================
