-------------------------- MODULE StudyGraphProofs --------------------------
(***************************************************************************)
(* For any plan, any limits on the attempts and any number of resumptions: *)
(* nothing is written unprepared, the graph comes to its end, and a        *)
(* document that passes has been judged.                                   *)
(***************************************************************************)
EXTENDS StudyGraph, TLAPS

(* The failed checks that a result may hold, for every section.            *)
Answers == [Section -> SUBSET (SectionFault \cup Flaw)]

(* The fields of what the check leaves in the state.                       *)
LEMMA CheckFields ==
  ASSUME NEW q \in QcStates
  PROVE  /\ q.attempt \in 0..(MaxQc + MaxResumes)
         /\ q.result \in {"none", "infra", "checks"}
         /\ q.checks \in Answers
         /\ q.whole \in SUBSET DocumentFault
         /\ q.frozen \in [Section -> SUBSET SectionFault]
         /\ q.baseline \subseteq Section /\ q.same \subseteq Section
         /\ q.retry \in Retry /\ q.reverify \subseteq Section
         /\ q.passed \in BOOLEAN /\ q.permanent \in BOOLEAN
BY DEF QcStates, Answers

(* Writing touches only what the check believes to be unchanged.           *)
LEMMA WrittenFields ==
  ASSUME NEW q \in QcStates, NEW kept \in SUBSET Section
  PROVE  LET r == [q EXCEPT !.same = kept]
         IN /\ r \in QcStates /\ r.same = kept
            /\ r.attempt = q.attempt /\ r.result = q.result /\ r.checks = q.checks
            /\ r.baseline = q.baseline /\ r.retry = q.retry /\ r.reverify = q.reverify
            /\ r.passed = q.passed
BY DEF QcStates

(* A check that could not ask, as CheckUnavailable leaves it.              *)
Unavailable(q, n, final) ==
  [q EXCEPT !.attempt = n, !.result = "infra", !.checks = NoChecks,
            !.whole = {}, !.passed = FALSE, !.permanent = final]

(* It counts as an attempt and has no result.                              *)
LEMMA UnavailableFields ==
  ASSUME NEW q \in QcStates, NEW n \in 0..(MaxQc + MaxResumes), NEW final \in BOOLEAN
  PROVE  /\ Unavailable(q, n, final) \in QcStates
         /\ Unavailable(q, n, final).attempt = n
         /\ Unavailable(q, n, final).result = "infra"
         /\ Unavailable(q, n, final).passed = FALSE
         /\ Unavailable(q, n, final).permanent = final
<1>1. NoChecks \in Answers /\ {} \in SUBSET DocumentFault
  BY DEF NoChecks, Answers
<1> QED
  BY <1>1 DEF QcStates, Unavailable, Answers

(* The retry that was asked for is still to be verified.                   *)
LEMMA RetryStays ==
  ASSUME NEW q \in QcStates, NEW n, NEW final
  PROVE  /\ Unavailable(q, n, final).retry = q.retry
         /\ Unavailable(q, n, final).reverify = q.reverify
         /\ Unavailable(q, n, final).same = q.same
BY DEF Unavailable, QcStates

(* The way from a node to the end, in nodes that cost no attempt.          *)
LEMMA Distances ==
  /\ Distance("resolver") = 6 /\ Distance("concept_checklist") = 5
  /\ Distance("reference_router") = 4 /\ Distance("external_research") = 3
  /\ Distance("llamaparse") = 2 /\ Distance("checklist_realign") = 2
  /\ Distance("study_agent") = 1 /\ Distance("quality_check") = 0
  /\ Distance("end") = -1 /\ Distance("stored") = -1 /\ Distance("stopped") = -1
BY DEF Distance

(* Preparation goes on to a node that is nearer to the generator.          *)
LEMMA PreparingGoesOn ==
  ASSUME TypeOK, NEW node \in Preparing
  PROVE  /\ AfterPreparing(node) \in (Preparing \ {"resolver"}) \cup {"study_agent"}
         /\ Distance(AfterPreparing(node)) < Distance(node)
<1>1. AfterReference \in {"llamaparse", "external_research", "checklist_realign", "study_agent"}
  BY DEF AfterReference
<1>2. CASE node = "resolver"
  <2>1. AfterPreparing(node) = "concept_checklist"
    BY <1>2 DEF AfterPreparing
  <2> QED
    BY <1>2, <2>1, Distances DEF Preparing
<1>3. CASE node = "concept_checklist"
  <2>1. AfterPreparing(node) = "reference_router"
    BY <1>3 DEF AfterPreparing
  <2> QED
    BY <1>3, <2>1, Distances DEF Preparing
<1>4. CASE node = "reference_router"
  <2>1. AfterPreparing(node) = AfterReference
    BY <1>4 DEF AfterPreparing
  <2> QED
    BY <1>1, <1>4, <2>1, Distances DEF Preparing
<1>5. CASE node = "external_research"
  <2>1. AfterPreparing(node) = "checklist_realign"
    BY <1>5 DEF AfterPreparing
  <2> QED
    BY <1>5, <2>1, Distances DEF Preparing
<1>6. CASE node \in {"llamaparse", "checklist_realign"}
  <2>1. AfterPreparing(node) = "study_agent"
    BY <1>6 DEF AfterPreparing
  <2> QED
    BY <1>6, <2>1, Distances DEF Preparing
<1> QED
  BY <1>2, <1>3, <1>4, <1>5, <1>6 DEF Preparing

-----------------------------------------------------------------------------
LEMMA InitHolds == Init => IInv
<1> SUFFICES ASSUME Init PROVE IInv
  OBVIOUS
<1> USE DEF Init
<1>1. TypeOK
  <2>1. qc \in QcStates
    BY GraphAssumption DEF QcStates, NoChecks, Retry, SectionRetry
  <2>2. cached \in BOOLEAN
    OBVIOUS
  <2>3. qc.attempt <= MaxQc + resumes /\ resumes \in 0..MaxResumes /\ formats \in 0..MaxFormat
    BY GraphAssumption
  <2> QED
    BY <2>1, <2>2, <2>3 DEF TypeOK, Nodes, Preparing, NoChecks
<1>2. PreparedInOrder /\ RetryPending /\ PassEndsIt
  BY DEF PreparedInOrder, Ready, RetryPending, PassEndsIt, Preparing
<1>3. AttemptsLeft
  BY GraphAssumption DEF AttemptsLeft
<1>4. RecordsKept /\ ChecksAreTrue /\ PassIsEarned
  BY DEF RecordsKept, ChecksAreTrue, PassIsEarned, SectionRetry
<1> QED
  BY <1>1, <1>2, <1>3, <1>4 DEF IInv

-----------------------------------------------------------------------------
(* Preparation.                                                            *)

LEMMA PrepareIsOne ==
  ASSUME Prepare
  PROVE  \E node \in Preparing : Prepared(node) /\ last' \in {last, node}
BY DEF Prepare, ResolveInstruction, PlanConcepts, ParseReference, Research, RealignPlan,
       ChooseReference, Checkpointed, Preparing

LEMMA PrepareHolds == IInv /\ Prepare => IInv' /\ StepsLeft' < StepsLeft
<1> SUFFICES ASSUME IInv, Prepare PROVE IInv' /\ StepsLeft' < StepsLeft
  OBVIOUS
<1> PICK node \in Preparing : Prepared(node) /\ last' \in {last, node}
  BY PrepareIsOne
<1> USE DEF IInv
<1>1. /\ next = node /\ prepared' = prepared \cup {node} /\ next' = AfterPreparing(node)
      /\ mode' = mode /\ cached' = cached /\ outcome' = outcome /\ formats' = formats
      /\ doc' = doc /\ flaws' = flaws /\ fixed' = fixed /\ qc' = qc
      /\ resumes' = resumes /\ judged' = judged /\ seen' = seen /\ lost' = lost
  BY DEF Prepared, history
<1>2. /\ next' \in (Preparing \ {"resolver"}) \cup {"study_agent"}
      /\ Distance(next') < Distance(next)
  BY <1>1, PreparingGoesOn
<1>3. TypeOK'
  BY <1>1, <1>2 DEF TypeOK, Nodes
<1>4. PreparedInOrder'
  <2>1. Ready(next)'
    BY <1>1 DEF PreparedInOrder, Ready, Planned, Provided, Preparing, AfterPreparing,
                AfterReference, TypeOK
  <2>2. (last \in Preparing => Ready(AfterPreparing(last)))'
    <3>1. CASE last' = last
      BY <1>1, <3>1 DEF PreparedInOrder, Ready, Planned, Provided, AfterPreparing, AfterReference
    <3>2. CASE last' = node
      BY <1>1, <3>2, <2>1 DEF AfterPreparing, AfterReference
    <3> QED
      BY <3>1, <3>2
  <2>3. (last \in {"study_agent", "quality_check"} => Provided)'
    BY <1>1 DEF PreparedInOrder, Provided, Planned, Preparing
  <2> QED
    BY <2>1, <2>2, <2>3 DEF PreparedInOrder
<1>5. AttemptsLeft' /\ RetryPending' /\ PassEndsIt'
  BY <1>1, <1>2 DEF AttemptsLeft, RetryPending, PassEndsIt, Nodes, Preparing
<1>6. RecordsKept' /\ ChecksAreTrue' /\ PassIsEarned'
  BY <1>1 DEF RecordsKept, ChecksAreTrue, PassIsEarned
<1>7. StepsLeft' < StepsLeft
  <2>1. Distance(next) \in Int /\ Distance(next') \in Int
    BY <1>1, <1>2, Distances DEF Preparing
  <2>2. qc.attempt \in Int /\ formats \in Int
    BY CheckFields, GraphAssumption DEF TypeOK
  <2> QED
    BY <1>1, <1>2, <2>1, <2>2, GraphAssumption DEF StepsLeft
<1> QED
  BY <1>3, <1>4, <1>5, <1>6, <1>7

-----------------------------------------------------------------------------
(* The runner.                                                             *)

LEMMA StopHolds == IInv /\ (Stop \/ Finalize) => IInv'
<1> SUFFICES ASSUME IInv, Stop \/ Finalize PROVE IInv'
  OBVIOUS
<1> USE DEF IInv
<1>1. /\ next' \in {"stopped", "stored"} /\ last' = last /\ prepared' = prepared
      /\ mode' = mode /\ cached' = cached /\ outcome' = outcome /\ formats' = formats
      /\ doc' = doc /\ flaws' = flaws /\ fixed' = fixed /\ qc' = qc
      /\ resumes' = resumes /\ judged' = judged /\ seen' = seen /\ lost' = lost
  BY DEF Stop, Finalize, history
<1>2. TypeOK'
  BY <1>1 DEF TypeOK
<1>3. PreparedInOrder'
  BY <1>1 DEF PreparedInOrder, Ready, Planned, Provided, AfterPreparing, AfterReference
<1>4. AttemptsLeft' /\ RetryPending' /\ PassEndsIt'
  BY <1>1 DEF AttemptsLeft, RetryPending, PassEndsIt, Nodes, Preparing
<1>5. RecordsKept' /\ ChecksAreTrue' /\ PassIsEarned'
  BY <1>1 DEF RecordsKept, ChecksAreTrue, PassIsEarned, Preparing
<1> QED
  BY <1>2, <1>3, <1>4, <1>5

LEMMA ResumeHolds == IInv /\ Resume => IInv'
<1> SUFFICES ASSUME IInv, Resume PROVE IInv'
  OBVIOUS
<1> USE DEF IInv
<1>1. /\ next = "stopped" /\ resumes < MaxResumes /\ resumes' = resumes + 1
      /\ next' = ResumeNode /\ last' = last /\ prepared' = prepared
      /\ mode' = mode /\ cached' = cached /\ outcome' = outcome /\ formats' = formats
      /\ doc' = doc /\ flaws' = flaws /\ fixed' = fixed /\ qc' = qc
      /\ judged' = judged /\ seen' = seen /\ lost' = lost
  BY DEF Resume, history
<1>2. qc.attempt \in Nat /\ formats \in Nat /\ resumes \in Nat
  BY CheckFields, GraphAssumption DEF TypeOK
<1>3. /\ next' \in Nodes \cup {"end"}
      /\ Ready(next')
      /\ formats = MaxFormat => next' = "end"
      /\ fixed # {} => next' = "quality_check"
      /\ next' = "quality_check" => doc # {}
      /\ qc.passed => next' = "quality_check"
      /\ qc.result = "infra" => next' = "quality_check"
  <2>1. CASE last = "none"
    <3>1. next' = "resolver"
      BY <1>1, <2>1 DEF ResumeNode, Preparing
    <3>2. Ready("resolver")
      BY DEF Ready
    <3>3. formats # MaxFormat
      BY <2>1 DEF AttemptsLeft
    <3>4. fixed = {}
      BY <2>1 DEF RetryPending
    <3>5. ~qc.passed /\ qc.result # "infra"
      BY <2>1 DEF PassEndsIt, RecordsKept
    <3> QED
      BY <3>1, <3>2, <3>3, <3>4, <3>5 DEF Nodes, Preparing
  <2>2. CASE last \in Preparing
    <3>1. next' = AfterPreparing(last)
      BY <1>1, <2>2 DEF ResumeNode, Preparing
    <3>2. next' \in (Preparing \ {"resolver"}) \cup {"study_agent"}
      BY <2>2, <3>1, PreparingGoesOn
    <3> QED
      BY <2>2, <3>1, <3>2 DEF PreparedInOrder, AttemptsLeft, RetryPending, PassEndsIt,
                              RecordsKept, Nodes, Preparing
  <2>3. CASE last = "study_agent"
    <3>1. next' = AfterAgent(outcome, formats)
      BY <1>1, <2>3 DEF ResumeNode, Preparing
    <3>2. CASE outcome = "document"
      <4>1. next' = "quality_check"
        BY <3>1, <3>2 DEF AfterAgent
      <4> QED
        BY <2>3, <3>2, <4>1 DEF PreparedInOrder, Ready, AttemptsLeft, RetryPending, PassEndsIt,
                                RecordsKept, Nodes
    <3>3. CASE outcome = "malformed" /\ formats < MaxFormat
      <4>1. next' = "study_agent"
        BY <3>1, <3>3 DEF AfterAgent
      <4> QED
        BY <1>2, <2>3, <3>3, <4>1, GraphAssumption
           DEF PreparedInOrder, Ready, RetryPending, PassEndsIt, RecordsKept, Nodes
    <3>4. CASE outcome # "document" /\ ~(outcome = "malformed" /\ formats < MaxFormat)
      <4>1. next' = "end"
        BY <3>1, <3>4 DEF AfterAgent
      <4> QED
        BY <2>3, <3>4, <4>1 DEF Ready, RetryPending, PassEndsIt, RecordsKept
    <3> QED
      BY <3>2, <3>3, <3>4
  <2>4. CASE last = "quality_check"
    <3>1. next' = IF qc.result # "infra" /\ qc.retry # "none" THEN "study_agent" ELSE "quality_check"
      BY <1>1, <2>4 DEF ResumeNode, Preparing
    <3> QED
      BY <2>4, <3>1 DEF PreparedInOrder, Ready, AttemptsLeft, RetryPending, PassEndsIt, Nodes
  <2> QED
    BY <2>1, <2>2, <2>3, <2>4 DEF TypeOK, Nodes
<1>4. TypeOK'
  BY <1>1, <1>2, <1>3, GraphAssumption DEF TypeOK
<1>5. PreparedInOrder'
  BY <1>1, <1>3 DEF PreparedInOrder, Ready, Planned, Provided, AfterPreparing, AfterReference
<1>6. AttemptsLeft'
  BY <1>1, <1>2, <1>3, GraphAssumption DEF AttemptsLeft, TypeOK, Nodes, Preparing
<1>7. RetryPending' /\ PassEndsIt'
  BY <1>1, <1>3 DEF RetryPending, PassEndsIt, Preparing
<1>8. RecordsKept' /\ ChecksAreTrue' /\ PassIsEarned'
  BY <1>1, <1>3 DEF RecordsKept, ChecksAreTrue, PassIsEarned, Preparing
<1> QED
  BY <1>4, <1>5, <1>6, <1>7, <1>8

-----------------------------------------------------------------------------
(* The generator.                                                          *)

(* What is written is unseen, and no longer what the last check looked at. *)
LEMMA WrittenHolds ==
  ASSUME TypeOK, NEW new \in SUBSET Section, Written(new),
         new \subseteq doc', doc' \subseteq Section
  PROVE  /\ qc' \in QcStates /\ qc'.same = (qc.same \cap doc') \ new
         /\ qc'.attempt = qc.attempt /\ qc'.result = qc.result /\ qc'.checks = qc.checks
         /\ qc'.baseline = qc.baseline /\ qc'.retry = qc.retry /\ qc'.reverify = qc.reverify
         /\ qc'.passed = qc.passed
         /\ judged' = (judged \cap doc') \ new
         /\ seen' \in [Section -> SUBSET SectionFault]
         /\ lost' \in [Section -> SUBSET Loss]
         /\ flaws' \in [Section -> SUBSET Flaw]
         /\ \A s \in Section \ doc' : flaws'[s] = {}
         /\ \A s \in doc' \ new : /\ seen'[s] = seen[s] /\ lost'[s] = lost[s]
                                  /\ flaws'[s] = flaws[s]
<1> DEFINE kept == (qc.same \cap doc') \ new
<1>1. qc \in QcStates /\ kept \in SUBSET Section
  BY CheckFields DEF TypeOK
<1>2. qc' = [qc EXCEPT !.same = kept]
  BY DEF Written
<1>3. /\ qc' \in QcStates /\ qc'.same = kept
      /\ qc'.attempt = qc.attempt /\ qc'.result = qc.result /\ qc'.checks = qc.checks
      /\ qc'.baseline = qc.baseline /\ qc'.retry = qc.retry /\ qc'.reverify = qc.reverify
      /\ qc'.passed = qc.passed
  <2> HIDE DEF kept
  <2> QED
    BY <1>1, <1>2, WrittenFields
<1>4. /\ seen' \in [Section -> SUBSET SectionFault]
      /\ \A s \in doc' \ new : seen'[s] = seen[s]
  <2>1. seen' = [s \in Section |-> IF s \in doc' \ new THEN seen[s] ELSE {}]
    BY DEF Written
  <2> QED
    BY <2>1 DEF TypeOK
<1>5. /\ lost' \in [Section -> SUBSET Loss]
      /\ \A s \in doc' \ new : lost'[s] = lost[s]
  <2>1. lost' = [s \in Section |-> IF s \in doc' \ new THEN lost[s] ELSE {}]
    BY DEF Written
  <2> QED
    BY <2>1 DEF TypeOK
<1>6. /\ flaws' \in [Section -> SUBSET Flaw]
      /\ \A s \in Section \ doc' : flaws'[s] = {}
      /\ \A s \in doc' \ new : flaws'[s] = flaws[s]
  <2>1. PICK f \in [new -> SUBSET Flaw] :
          flaws' = [s \in Section |-> IF s \in new THEN f[s]
                                     ELSE IF s \in doc' THEN flaws[s] ELSE {}]
    BY DEF Written
  <2> QED
    BY <2>1 DEF TypeOK
<1>7. judged' = (judged \cap doc') \ new
  BY DEF Written
<1> QED
  BY <1>3, <1>4, <1>5, <1>6, <1>7

LEMMA RetryHolds == IInv /\ RetrySections => IInv' /\ StepsLeft' < StepsLeft
<1> SUFFICES ASSUME IInv, RetrySections PROVE IInv' /\ StepsLeft' < StepsLeft
  OBVIOUS
<1> USE DEF IInv
<1> PICK patched \in SUBSET Patchable, inserted \in SUBSET Insertable :
       doc' = doc \cup inserted /\ fixed' = patched \cup inserted
       /\ Written(patched \cup inserted)
  BY DEF RetrySections
<1> DEFINE new == patched \cup inserted
<1>1. /\ next = "study_agent" /\ qc.retry \in SectionRetry /\ doc # {}
      /\ outcome' = "document" /\ last' = "study_agent" /\ next' = "quality_check"
      /\ prepared' = prepared /\ mode' = mode /\ cached' = cached /\ formats' = formats
      /\ resumes' = resumes
  BY DEF RetrySections
<1>2. fixed = {} /\ ~qc.passed /\ formats # MaxFormat /\ qc.attempt < MaxQc + resumes
  BY <1>1 DEF RetryPending, PassEndsIt, AttemptsLeft, Nodes
<1>3. new \in SUBSET Section /\ new \subseteq doc' /\ doc' \subseteq Section
  BY CheckFields DEF Patchable, Insertable, Missing, TypeOK
<1>4. Written(new) /\ fixed' = new
  OBVIOUS
<1>4a. doc' \ new \subseteq doc
  OBVIOUS
<1> HIDE DEF new
<1>5. /\ qc' \in QcStates /\ qc'.same = (qc.same \cap doc') \ new
      /\ qc'.attempt = qc.attempt /\ qc'.result = qc.result /\ qc'.checks = qc.checks
      /\ qc'.baseline = qc.baseline /\ qc'.retry = qc.retry /\ qc'.reverify = qc.reverify
      /\ qc'.passed = qc.passed
      /\ judged' = (judged \cap doc') \ new
      /\ seen' \in [Section -> SUBSET SectionFault]
      /\ lost' \in [Section -> SUBSET Loss]
      /\ flaws' \in [Section -> SUBSET Flaw]
      /\ \A s \in Section \ doc' : flaws'[s] = {}
      /\ \A s \in doc' \ new : seen'[s] = seen[s] /\ lost'[s] = lost[s] /\ flaws'[s] = flaws[s]
  BY <1>3, <1>4, WrittenHolds
<1>6. TypeOK'
  BY <1>1, <1>3, <1>4, <1>5 DEF TypeOK, Nodes
<1>7. PreparedInOrder'
  BY <1>1 DEF PreparedInOrder, Ready, Planned, Provided, Preparing
<1>8. AttemptsLeft' /\ RetryPending' /\ PassEndsIt'
  BY <1>1, <1>2, <1>5 DEF AttemptsLeft, RetryPending, PassEndsIt, Preparing
<1>9. RecordsKept' /\ ChecksAreTrue'
  <2>1. qc.result # "infra"
    BY <1>1 DEF RecordsKept
  <2>2. RecordsKept'
    BY <1>1, <1>5, <2>1 DEF RecordsKept
  <2>3. doc' \ fixed' \subseteq qc'.same
    BY <1>1, <1>2, <1>4, <1>4a, <1>5 DEF ChecksAreTrue
  <2>4. ASSUME NEW s \in doc', "misplaced" \in flaws'[s]
        PROVE  s \in qc'.reverify \cup fixed'
    BY <1>1, <1>2, <1>4, <1>4a, <1>5, <2>4 DEF ChecksAreTrue
  <2>5. qc'.result = "checks" =>
          \A s \in qc'.same : lost'[s] = {} => s \in judged' /\ seen'[s] = qc'.checks[s] \ Flaw
    BY <1>5 DEF ChecksAreTrue
  <2> QED
    BY <2>2, <2>3, <2>4, <2>5 DEF ChecksAreTrue
<1>10. PassIsEarned'
  BY <1>2, <1>5 DEF PassIsEarned
<1>11. StepsLeft' < StepsLeft
  BY <1>1, <1>5, Distances, CheckFields, GraphAssumption DEF StepsLeft, TypeOK
<1> QED
  BY <1>6, <1>7, <1>8, <1>9, <1>10, <1>11

LEMMA WriteHolds == IInv /\ WriteDocument => IInv' /\ StepsLeft' < StepsLeft
<1> SUFFICES ASSUME IInv, WriteDocument PROVE IInv' /\ StepsLeft' < StepsLeft
  OBVIOUS
<1> USE DEF IInv
<1>1. /\ next = "study_agent" /\ qc.retry \notin SectionRetry
      /\ outcome' = "document" /\ last' = "study_agent" /\ next' = "quality_check"
      /\ prepared' = prepared /\ mode' = mode /\ cached' = cached /\ formats' = formats
      /\ fixed' = fixed /\ resumes' = resumes
  BY DEF WriteDocument
<1>2. fixed = {} /\ ~qc.passed /\ formats # MaxFormat /\ qc.attempt < MaxQc + resumes
  BY <1>1 DEF RetryPending, PassEndsIt, AttemptsLeft, Nodes
<1>3. PICK new \in SUBSET Section :
        doc' # {} /\ new \subseteq doc' /\ doc' \subseteq Section /\ Written(new)
  <2>1. PICK returned \in (SUBSET Section) \ {{}} :
          /\ doc' = IF Preserving THEN doc \cup returned ELSE returned
          /\ Written(IF Preserving THEN returned \ (doc \ qc.reverify) ELSE returned)
    BY DEF WriteDocument
  <2>2. doc \subseteq Section
    BY DEF TypeOK
  <2>3. CASE Preserving
    <3>1. Written(returned \ (doc \ qc.reverify)) /\ doc' = doc \cup returned
      BY <2>1, <2>3
    <3> QED
      BY <2>2, <3>1
  <2>4. CASE ~Preserving
    <3>1. Written(returned) /\ doc' = returned
      BY <2>1, <2>4
    <3> QED
      BY <3>1
  <2> QED
    BY <2>3, <2>4
<1>4. /\ qc' \in QcStates /\ qc'.same = (qc.same \cap doc') \ new
      /\ qc'.attempt = qc.attempt /\ qc'.result = qc.result /\ qc'.checks = qc.checks
      /\ qc'.baseline = qc.baseline /\ qc'.retry = qc.retry /\ qc'.passed = qc.passed
      /\ judged' = (judged \cap doc') \ new
      /\ seen' \in [Section -> SUBSET SectionFault]
      /\ lost' \in [Section -> SUBSET Loss]
      /\ flaws' \in [Section -> SUBSET Flaw]
      /\ \A s \in Section \ doc' : flaws'[s] = {}
      /\ \A s \in doc' \ new : seen'[s] = seen[s] /\ lost'[s] = lost[s]
  BY <1>3, WrittenHolds
<1>5. TypeOK'
  BY <1>1, <1>2, <1>3, <1>4 DEF TypeOK, Nodes
<1>6. PreparedInOrder'
  BY <1>1 DEF PreparedInOrder, Ready, Planned, Provided, Preparing
<1>7. AttemptsLeft' /\ RetryPending' /\ PassEndsIt'
  BY <1>1, <1>2, <1>3, <1>4 DEF AttemptsLeft, RetryPending, PassEndsIt
<1>8. RecordsKept' /\ ChecksAreTrue'
  BY <1>1, <1>4 DEF RecordsKept, ChecksAreTrue
<1>9. PassIsEarned'
  BY <1>2, <1>4 DEF PassIsEarned
<1>10. StepsLeft' < StepsLeft
  BY <1>1, <1>4, Distances, CheckFields, GraphAssumption DEF StepsLeft, TypeOK
<1> QED
  BY <1>5, <1>6, <1>7, <1>8, <1>9, <1>10

LEMMA NothingHolds == IInv /\ WriteNothing => IInv' /\ StepsLeft' < StepsLeft
<1> SUFFICES ASSUME IInv, WriteNothing PROVE IInv' /\ StepsLeft' < StepsLeft
  OBVIOUS
<1> USE DEF IInv
<1>1. /\ next = "study_agent" /\ qc.retry \notin SectionRetry /\ doc' = {} /\ Written({})
      /\ outcome' \in {"malformed", "other"} /\ formats' = FormatsAfter(outcome')
      /\ last' = "study_agent" /\ next' = AfterAgent(outcome', formats')
      /\ prepared' = prepared /\ mode' = mode /\ cached' = cached
      /\ fixed' = fixed /\ resumes' = resumes
  BY DEF WriteNothing
<1>2. fixed = {} /\ ~qc.passed /\ formats # MaxFormat /\ qc.attempt < MaxQc + resumes
  BY <1>1 DEF RetryPending, PassEndsIt, AttemptsLeft, Nodes
<1>3. /\ qc' \in QcStates /\ qc'.same = {}
      /\ qc'.attempt = qc.attempt /\ qc'.result = qc.result /\ qc'.checks = qc.checks
      /\ qc'.baseline = qc.baseline /\ qc'.retry = qc.retry /\ qc'.passed = qc.passed
      /\ judged' = {}
      /\ seen' \in [Section -> SUBSET SectionFault]
      /\ lost' \in [Section -> SUBSET Loss]
      /\ flaws' \in [Section -> SUBSET Flaw] /\ \A s \in Section : flaws'[s] = {}
  BY <1>1, WrittenHolds
<1>4. qc.attempt \in Nat /\ formats \in 0..(MaxFormat - 1)
  BY <1>2, CheckFields, GraphAssumption DEF TypeOK
<1>5. /\ formats' \in 0..MaxFormat
      /\ next' \in {"study_agent", "end"}
      /\ formats' = MaxFormat => outcome' = "malformed" /\ next' = "end"
      /\ next' = "study_agent" => formats' = formats + 1
      /\ formats <= formats'
  <2>1. CASE outcome' = "malformed" /\ formats + 1 < MaxFormat
    <3>1. formats' = formats + 1
      BY <1>1, <2>1 DEF FormatsAfter
    <3>2. next' = "study_agent"
      BY <1>1, <2>1, <3>1 DEF AfterAgent
    <3> QED
      BY <1>4, <2>1, <3>1, <3>2, GraphAssumption
  <2>2. CASE outcome' = "malformed" /\ ~(formats + 1 < MaxFormat)
    <3>1. formats' = formats + 1
      BY <1>1, <2>2 DEF FormatsAfter
    <3>2. next' = "end"
      BY <1>1, <2>2, <3>1 DEF AfterAgent
    <3> QED
      BY <1>4, <2>2, <3>1, <3>2, GraphAssumption
  <2>3. CASE outcome' = "other"
    <3>1. formats' = formats
      BY <1>1, <2>3 DEF FormatsAfter
    <3>2. next' = "end"
      BY <1>1, <2>3 DEF AfterAgent
    <3> QED
      BY <1>4, <2>3, <3>1, <3>2, GraphAssumption
  <2> QED
    BY <1>1, <2>1, <2>2, <2>3
<1>6. TypeOK'
  BY <1>1, <1>2, <1>3, <1>5 DEF TypeOK, Nodes
<1>7. PreparedInOrder'
  BY <1>1, <1>5 DEF PreparedInOrder, Ready, Planned, Provided, Preparing
<1>8. AttemptsLeft' /\ RetryPending' /\ PassEndsIt'
  BY <1>1, <1>2, <1>3, <1>5 DEF AttemptsLeft, RetryPending, PassEndsIt, Nodes, Preparing
<1>9. RecordsKept' /\ ChecksAreTrue'
  BY <1>1, <1>3 DEF RecordsKept, ChecksAreTrue
<1>10. PassIsEarned'
  BY <1>2, <1>3 DEF PassIsEarned
<1>11. StepsLeft' < StepsLeft
  <2>1. Distance(next) = 1 /\ formats' \in Nat /\ formats \in Nat
    BY <1>1, <1>4, <1>5, Distances, GraphAssumption
  <2>2. CASE next' = "study_agent"
    <3>1. Distance(next') = 1
      BY <2>2, Distances
    <3> QED
      BY <1>3, <1>4, <1>5, <2>1, <2>2, <3>1, GraphAssumption DEF StepsLeft
  <2>3. CASE next' = "end"
    <3>1. Distance(next') = -1
      BY <2>3, Distances
    <3> QED
      BY <1>3, <1>4, <1>5, <2>1, <3>1, GraphAssumption DEF StepsLeft
  <2> QED
    BY <1>5, <2>2, <2>3
<1> QED
  BY <1>6, <1>7, <1>8, <1>9, <1>10, <1>11
-----------------------------------------------------------------------------
(* The quality check.                                                      *)

(* What the judge may say, and what may be frozen of it.                   *)
LEMMA JudgedFaults ==
  ASSUME NEW j \in Judgement
  PROVE  j.faults \in [Section -> SUBSET SectionFault] /\ j.whole \in SUBSET DocumentFault
BY GraphAssumption

LEMMA FrozenFaults == Freezable \subseteq SUBSET SectionFault
<1>1. Possible \subseteq SectionFault
  BY JudgedFaults DEF Possible
<1> QED
  BY <1>1 DEF Freezable

(* A result that the last check left is about the text that has not        *)
(* changed, in every section whose record was not lost.                    *)
LEMMA LastResult ==
  ASSUME IInv, qc.attempt # 0 \/ fixed # {}, NEW s \in doc, lost[s] = {}
  PROVE  /\ qc.baseline # {}
         /\ s \in qc.same => s \in judged /\ seen[s] = qc.checks[s] \ Flaw
<1>1. qc.result \in {"none", "infra", "checks"} /\ qc.result # "infra"
  BY CheckFields DEF IInv, TypeOK, RecordsKept
<1>2. qc.result # "none"
  BY DEF IInv, RecordsKept, RetryPending, SectionRetry
<1> QED
  BY <1>1, <1>2 DEF IInv, RecordsKept, ChecksAreTrue

(* Without the judge's checks there is nothing to carry or to revise.      *)
LEMMA ModeIsLater ==
  ASSUME NEW f, NEW t, VerificationMode(f, t) # "full"
  PROVE  /\ qc.attempt # 0 \/ fixed # {}
         /\ VerificationMode(f, t) = "deterministic_only" => fixed = {}
<1>1. fixed # {} => VerificationMode(f, t) = "targeted"
  BY DEF VerificationMode
<1>2. fixed = {} /\ qc.attempt = 0 => VerificationMode(f, t) = "full"
  BY DEF VerificationMode
<1> QED
  BY <1>1, <1>2

(* A way of checking: what it records of a section contains the flaws and, *)
(* unless it was lost, is what the judge found in its present text.        *)
Faithful(f, checks) ==
  /\ judged' \subseteq doc
  /\ seen' \in [Section -> SUBSET SectionFault]
  /\ lost' \in [Section -> SUBSET Loss]
  /\ \A s \in doc : f[s] \subseteq checks[s]
  /\ \A s \in doc : lost'[s] = {} => s \in judged' /\ seen'[s] = checks[s] \ Flaw

Concluded(f) ==
  \E checks \in Answers, whole \in SUBSET DocumentFault,
     kept \in [Section -> SUBSET SectionFault], asked \in SUBSET Section :
    Conclude(checks, whole, kept, asked) /\ Faithful(f, checks)

(* The judge's checks with the flaws: both can be told apart again.        *)
LEMMA RecordedFields ==
  ASSUME doc \subseteq Section, NEW f \in [Section -> SUBSET Flaw],
         NEW v, \A s \in doc : v[s] \subseteq SectionFault \cup Flaw
  PROVE  /\ Recorded(v, f) \in Answers
         /\ \A s \in doc : /\ f[s] \subseteq Recorded(v, f)[s]
                           /\ Recorded(v, f)[s] \ Flaw = v[s] \ Flaw
BY DEF Recorded, Answers

LEMMA FaultsAreNoFlaws == \A x \in SUBSET SectionFault : x \ Flaw = x
BY DEF SectionFault, Flaw

LEMMA AllConcluded ==
  ASSUME IInv, NEW f \in [Section -> SUBSET Flaw], NEW t, VerifyAll(f, t)
  PROVE  Concluded(f)
<1>1. /\ doc \subseteq Section /\ judged \subseteq doc /\ seen \in [Section -> SUBSET SectionFault]
      /\ qc.frozen \in [Section -> SUBSET SectionFault]
  BY CheckFields DEF IInv, TypeOK
<1> DEFINE known == {s \in doc : Unasked(s, t) = {} \/ s \in judged}
           left  == [s \in doc |-> IF Unasked(s, t) = {} THEN {} ELSE seen[s] \cap Unasked(s, t)]
<1>2. PICK j \in Judgement :
        /\ Conclude(Recorded(j.faults, f), j.whole, qc.frozen, doc)
        /\ judged' = known
        /\ seen' = [s \in Section |-> IF s \in doc THEN j.faults[s] \cup left[s] ELSE {}]
        /\ lost' = [s \in Section |->
                      IF s \notin doc \/ (s \in known /\ left[s] \subseteq j.faults[s])
                        THEN {} ELSE {"frozen"}]
  BY DEF VerifyAll
<1>3. j.faults \in [Section -> SUBSET SectionFault] /\ j.whole \in SUBSET DocumentFault
  BY JudgedFaults
<1>4. \A s \in doc : left[s] \subseteq SectionFault
  BY <1>1
<1>5. known \subseteq doc
  OBVIOUS
<1> HIDE DEF known, left
<1> DEFINE v == j.faults
<1>6. \A s \in doc : v[s] \subseteq SectionFault /\ v[s] \subseteq SectionFault \cup Flaw
  BY <1>1, <1>3
<1>7. /\ Recorded(v, f) \in Answers
      /\ \A s \in doc : f[s] \subseteq Recorded(v, f)[s] /\ Recorded(v, f)[s] \ Flaw = v[s] \ Flaw
  <2> HIDE DEF v
  <2> QED
    BY <1>1, <1>6, RecordedFields
<1>8. seen' \in [Section -> SUBSET SectionFault]
  BY <1>2, <1>3, <1>4
<1>9. lost' \in [Section -> SUBSET Loss]
  BY <1>2 DEF Loss
<1>10. ASSUME NEW s \in doc, lost'[s] = {}
       PROVE  s \in judged' /\ seen'[s] = Recorded(v, f)[s] \ Flaw
  <2>1. s \in known /\ left[s] \subseteq v[s]
    BY <1>1, <1>2, <1>10
  <2>2. seen'[s] = v[s]
    BY <1>1, <1>2, <2>1
  <2>3. v[s] \ Flaw = v[s]
    BY <1>6, FaultsAreNoFlaws
  <2> QED
    BY <1>2, <1>7, <2>1, <2>2, <2>3
<1>11. Faithful(f, Recorded(v, f))
  BY <1>2, <1>5, <1>7, <1>8, <1>9, <1>10 DEF Faithful
<1>12. Conclude(Recorded(v, f), j.whole, qc.frozen, doc)
  BY <1>2
<1> HIDE DEF v
<1> QED
  BY <1>1, <1>3, <1>7, <1>11, <1>12 DEF Concluded

LEMMA CarriedConcluded ==
  ASSUME IInv, NEW f \in [Section -> SUBSET Flaw], NEW t, CarryForward(f, t)
  PROVE  Concluded(f)
<1>1. /\ doc \subseteq Section /\ judged \subseteq doc /\ seen \in [Section -> SUBSET SectionFault]
      /\ lost \in [Section -> SUBSET Loss]
      /\ qc.frozen \in [Section -> SUBSET SectionFault] /\ qc.checks \in Answers
      /\ qc.whole \in SUBSET DocumentFault
  BY CheckFields DEF IInv, TypeOK
<1> DEFINE kept == qc.same \ t
           v == [s \in Section |-> IF s \in kept THEN qc.checks[s] \ Flaw ELSE {}]
<1>2. PICK whole \in SUBSET DocumentFault : Conclude(Recorded(v, f), whole, qc.frozen, {})
  BY <1>1 DEF CarryForward
<1>3. /\ VerificationMode(f, t) = "deterministic_only"
      /\ judged' = judged \ t
      /\ seen' = [s \in Section |-> IF s \in t THEN {} ELSE seen[s]]
      /\ lost' = [s \in Section |-> IF s \in doc \ kept /\ qc.baseline # {}
                                      THEN lost[s] \cup {"narrowed"} ELSE lost[s]]
  BY DEF CarryForward
<1>4. \A s \in doc : /\ v[s] \subseteq SectionFault \cup Flaw
                     /\ s \in kept => v[s] \ Flaw = qc.checks[s] \ Flaw
  BY <1>1 DEF Answers
<1>5. kept = qc.same \ t
  OBVIOUS
<1> HIDE DEF kept, v
<1>6. /\ Recorded(v, f) \in Answers
      /\ \A s \in doc : f[s] \subseteq Recorded(v, f)[s] /\ Recorded(v, f)[s] \ Flaw = v[s] \ Flaw
  BY <1>1, <1>4, RecordedFields
<1>7. seen' \in [Section -> SUBSET SectionFault] /\ judged' \subseteq doc
  BY <1>1, <1>3
<1>8. lost' \in [Section -> SUBSET Loss]
  BY <1>1, <1>3 DEF Loss
<1>9. ASSUME NEW s \in doc, lost'[s] = {}
      PROVE  s \in judged' /\ seen'[s] = Recorded(v, f)[s] \ Flaw
  <2>1. s \in Section /\ lost[s] = {} /\ (s \in kept \/ qc.baseline = {})
    BY <1>1, <1>3, <1>9
  <2>2. qc.attempt # 0 \/ fixed # {}
    BY <1>3, ModeIsLater
  <2>3. /\ qc.baseline # {}
        /\ s \in qc.same => s \in judged /\ seen[s] = qc.checks[s] \ Flaw
    BY <2>1, <2>2, LastResult
  <2>4. s \in kept /\ s \in qc.same /\ s \notin t
    BY <1>5, <2>1, <2>3
  <2>5. seen'[s] = seen[s] /\ s \in judged'
    BY <1>3, <2>1, <2>3, <2>4
  <2> QED
    BY <1>4, <1>6, <2>3, <2>4, <2>5
<1>10. Faithful(f, Recorded(v, f))
  BY <1>6, <1>7, <1>8, <1>9 DEF Faithful
<1> QED
  BY <1>1, <1>2, <1>6, <1>10 DEF Concluded

LEMMA RevisedConcluded ==
  ASSUME IInv, NEW f \in [Section -> SUBSET Flaw], NEW t \in SUBSET Misplaced(flaws),
         VerifyRevised(f, t)
  PROVE  Concluded(f)
<1>1. /\ doc \subseteq Section /\ judged \subseteq doc /\ seen \in [Section -> SUBSET SectionFault]
      /\ lost \in [Section -> SUBSET Loss] /\ fixed \subseteq doc
      /\ qc.frozen \in [Section -> SUBSET SectionFault] /\ qc.checks \in Answers
  BY CheckFields DEF IInv, TypeOK
<1> DEFINE scope == (IF fixed # {} THEN Scope ELSE Changed(f, t)) \cap doc
           shown == IF fixed # {} THEN fixed \cap scope ELSE scope
           stale == IF fixed = {} /\ qc.baseline # {} THEN doc \ (qc.same \ t) ELSE {}
<1>2. VerificationMode(f, t) = "targeted"
  BY DEF VerifyRevised
<1>3. PICK j \in Judgement :
        LET said == [s \in doc |-> IF s \in shown THEN j.faults[s] ELSE qc.checks[s]]
        IN \E dropped \in SUBSET UNION {{s} \X said[s] : s \in doc} :
           LET r == [s \in doc |-> {x \in said[s] : <<s, x>> \notin dropped}]
           IN /\ Conclude(Recorded(r, f), j.whole, Pruned(scope), scope)
              /\ judged' = (judged \ t) \cup shown
              /\ seen' = [s \in Section |-> IF s \in shown THEN j.faults[s]
                                            ELSE IF s \in t THEN {} ELSE seen[s]]
              /\ lost' = [s \in Section |->
                            IF s \notin doc THEN {}
                            ELSE (IF s \in shown THEN {} ELSE lost[s])
                                 \cup {l \in Loss : \/ l = "deduped" /\ r[s] # said[s]
                                                    \/ l = "omitted" /\ s \in scope \ shown
                                                    \/ l = "narrowed" /\ s \in stale \ scope}]
  BY Zenon DEF VerifyRevised
<1> DEFINE said0 == [s \in doc |-> IF s \in shown THEN j.faults[s] ELSE qc.checks[s]]
<1>3a. PICK dropped \in SUBSET UNION {{s} \X said0[s] : s \in doc} :
           LET r == [s \in doc |-> {x \in said0[s] : <<s, x>> \notin dropped}]
           IN /\ Conclude(Recorded(r, f), j.whole, Pruned(scope), scope)
              /\ judged' = (judged \ t) \cup shown
              /\ seen' = [s \in Section |-> IF s \in shown THEN j.faults[s]
                                            ELSE IF s \in t THEN {} ELSE seen[s]]
              /\ lost' = [s \in Section |->
                            IF s \notin doc THEN {}
                            ELSE (IF s \in shown THEN {} ELSE lost[s])
                                 \cup {l \in Loss : \/ l = "deduped" /\ r[s] # said0[s]
                                                    \/ l = "omitted" /\ s \in scope \ shown
                                                    \/ l = "narrowed" /\ s \in stale \ scope}]
  BY <1>3, Zenon
<1> DEFINE v == [s \in doc |-> {x \in said0[s] : <<s, x>> \notin dropped}]
<1>4. /\ Conclude(Recorded(v, f), j.whole, Pruned(scope), scope)
      /\ judged' = (judged \ t) \cup shown
      /\ seen' = [s \in Section |-> IF s \in shown THEN j.faults[s]
                                    ELSE IF s \in t THEN {} ELSE seen[s]]
      /\ lost' = [s \in Section |->
                    IF s \notin doc THEN {}
                    ELSE (IF s \in shown THEN {} ELSE lost[s])
                         \cup {l \in Loss : \/ l = "deduped" /\ v[s] # said0[s]
                                            \/ l = "omitted" /\ s \in scope \ shown
                                            \/ l = "narrowed" /\ s \in stale \ scope}]
  BY <1>3a, Zenon
<1>4a. \A s \in doc : /\ said0[s] = (IF s \in shown THEN j.faults[s] ELSE qc.checks[s])
                      /\ v[s] \subseteq said0[s]
  OBVIOUS
<1>5. /\ scope \subseteq doc /\ shown \subseteq scope
      /\ fixed = {} => shown = scope
      /\ fixed # {} => scope = (qc.reverify \cup fixed) \cap doc /\ shown = fixed
      /\ fixed = {} /\ qc.baseline # {} => stale = doc \ (qc.same \ t)
  BY <1>1 DEF Scope
<1> HIDE DEF scope, shown, stale, said0, v
<1>6. j.faults \in [Section -> SUBSET SectionFault] /\ j.whole \in SUBSET DocumentFault
  BY JudgedFaults
<1>7. \A s \in doc : said0[s] \subseteq SectionFault \cup Flaw /\ v[s] \subseteq SectionFault \cup Flaw
  BY <1>1, <1>4a, <1>6 DEF Answers
<1>8. /\ Recorded(v, f) \in Answers
      /\ \A s \in doc : f[s] \subseteq Recorded(v, f)[s] /\ Recorded(v, f)[s] \ Flaw = v[s] \ Flaw
  BY <1>1, <1>7, RecordedFields
<1>9. judged' \subseteq doc
  BY <1>1, <1>4, <1>5
<1>10. seen' \in [Section -> SUBSET SectionFault]
  BY <1>1, <1>4, <1>6
<1>11. lost' \in [Section -> SUBSET Loss]
  BY <1>1, <1>4
<1>12. ASSUME NEW s \in doc, lost'[s] = {}
       PROVE  s \in judged' /\ seen'[s] = Recorded(v, f)[s] \ Flaw
  <2>1. s \in Section
    BY <1>1
  <2>2. lost'[s] = (IF s \in shown THEN {} ELSE lost[s])
                     \cup {l \in Loss : \/ l = "deduped" /\ v[s] # said0[s]
                                        \/ l = "omitted" /\ s \in scope \ shown
                                        \/ l = "narrowed" /\ s \in stale \ scope}
    BY <1>4, <2>1
  <2>3. /\ s \notin shown => lost[s] = {}
        /\ v[s] = said0[s] /\ s \notin scope \ shown /\ s \notin stale \ scope
    BY <1>12, <2>2 DEF Loss
  <2>4. CASE s \in shown
    <3>1. v[s] = j.faults[s] /\ seen'[s] = j.faults[s] /\ s \in judged'
      BY <1>4, <1>4a, <2>1, <2>3, <2>4
    <3>2. v[s] \ Flaw = v[s]
      BY <1>6, <2>1, <3>1, FaultsAreNoFlaws
    <3> QED
      BY <1>8, <3>1, <3>2
  <2>5. CASE s \notin shown
    <3>1. s \notin scope /\ s \notin stale /\ lost[s] = {} /\ v[s] = qc.checks[s]
      BY <1>4a, <2>3, <2>5
    <3>2. qc.attempt # 0 \/ fixed # {}
      BY <1>2, ModeIsLater
    <3>3. /\ qc.baseline # {}
          /\ s \in qc.same => s \in judged /\ seen[s] = qc.checks[s] \ Flaw
      BY <3>1, <3>2, LastResult
    <3>4. s \in qc.same /\ s \notin t
      <4>1. CASE fixed = {}
        BY <1>5, <3>1, <3>3, <4>1
      <4>2. CASE fixed # {}
        <5>1. qc.retry \in SectionRetry
          BY <4>2 DEF IInv, RetryPending
        <5>2. /\ doc \ fixed \subseteq qc.same
              /\ "misplaced" \in flaws[s] => s \in qc.reverify \cup fixed
          BY <5>1 DEF IInv, ChecksAreTrue
        <5>3. s \in t => "misplaced" \in flaws[s]
          BY DEF Misplaced
        <5> QED
          BY <1>5, <3>1, <4>2, <5>2, <5>3
      <4> QED
        BY <4>1, <4>2
    <3>5. seen'[s] = seen[s] /\ s \in judged'
      BY <1>4, <2>1, <2>5, <3>3, <3>4
    <3> QED
      BY <1>8, <3>1, <3>3, <3>4, <3>5
  <2> QED
    BY <2>4, <2>5
<1>13. Faithful(f, Recorded(v, f))
  BY <1>8, <1>9, <1>10, <1>11, <1>12 DEF Faithful
<1>14. Pruned(scope) \in [Section -> SUBSET SectionFault]
  BY <1>1 DEF Pruned
<1>15. Conclude(Recorded(v, f), j.whole, Pruned(scope), scope) /\ scope \in SUBSET Section
  BY <1>1, <1>4, <1>5
<1> QED
  BY <1>6, <1>8, <1>13, <1>14, <1>15 DEF Concluded

(* Every way of routing a failure is a retry that the generator knows.     *)
LEMMA RoutesAreRetries ==
  ASSUME NEW checks, NEW whole, NEW targets
  PROVE  Routes(checks, whole, targets) \subseteq Retry
<1>1. ScopedRetry(targets, whole) \in Retry
  BY DEF ScopedRetry, Retry, SectionRetry
<1> QED
  BY <1>1 DEF Routes, Retry

(* The verdict that follows from what was recorded.                        *)
LEMMA ConcludeFields ==
  ASSUME TypeOK, qc.attempt < MaxQc + resumes,
         NEW checks \in Answers, NEW whole \in SUBSET DocumentFault,
         NEW kept \in [Section -> SUBSET SectionFault], NEW asked \in SUBSET Section,
         Conclude(checks, whole, kept, asked)
  PROVE  /\ qc' \in QcStates
         /\ qc'.attempt = qc.attempt + 1 /\ qc'.result = "checks" /\ qc'.checks = checks
         /\ qc'.whole = whole /\ qc'.baseline = doc /\ qc'.same = doc
         /\ qc'.passed => /\ qc'.retry = "none"
                          /\ "refusal" \notin whole => \A s \in doc : checks[s] \cap Blocking = {}
         /\ ~qc'.passed => \A s \in doc : checks[s] # {} => s \in qc'.reverify
         /\ next' \in {"end", "study_agent"}
         /\ qc'.passed => next' = "end"
         /\ qc.attempt + 1 >= MaxQc => next' = "end"
<1> DEFINE passed == Deliverable(checks, whole)
<1>1. PICK targets \in IF passed THEN {{}} ELSE Targets(checks, whole) :
      \E retry \in IF passed THEN {"none"} ELSE Routes(checks, whole, targets) :
      \E add \in [asked -> Freezable] :
        /\ qc' = [attempt |-> qc.attempt + 1, result |-> "checks", checks |-> checks,
                  whole |-> whole, baseline |-> doc, same |-> doc,
                  frozen |-> [s \in Section |->
                                kept[s] \cup (IF s \in asked THEN add[s] ELSE {})],
                  retry |-> retry, reverify |-> targets,
                  passed |-> passed,
                  permanent |-> ~passed /\ LastAttempt(qc.attempt + 1)]
        /\ next' = AfterCheck(qc')
  BY DEF Conclude
<1>2. PICK retry \in IF passed THEN {"none"} ELSE Routes(checks, whole, targets),
           add \in [asked -> Freezable] :
        /\ qc' = [attempt |-> qc.attempt + 1, result |-> "checks", checks |-> checks,
                  whole |-> whole, baseline |-> doc, same |-> doc,
                  frozen |-> [s \in Section |->
                                kept[s] \cup (IF s \in asked THEN add[s] ELSE {})],
                  retry |-> retry, reverify |-> targets,
                  passed |-> passed,
                  permanent |-> ~passed /\ LastAttempt(qc.attempt + 1)]
        /\ next' = AfterCheck(qc')
  BY <1>1
<1>3. retry \in Retry /\ (passed => retry = "none")
  BY <1>2, RoutesAreRetries DEF Retry
<1>4. /\ targets \in SUBSET Section /\ doc \subseteq Section
      /\ ~passed => \A s \in doc : checks[s] # {} => s \in targets
  BY <1>1 DEF TypeOK, Targets, Failed
<1>5. [s \in Section |-> kept[s] \cup (IF s \in asked THEN add[s] ELSE {})]
        \in [Section -> SUBSET SectionFault]
  BY <1>2, FrozenFaults
<1>6. passed /\ "refusal" \notin whole => \A s \in doc : checks[s] \cap Blocking = {}
  BY DEF Deliverable
<1>7. passed \in BOOLEAN /\ LastAttempt(qc.attempt + 1) \in BOOLEAN
  BY DEF Deliverable, LastAttempt
<1>8. /\ qc.attempt \in Nat /\ qc.attempt + 1 \in 0..(MaxQc + MaxResumes)
      /\ LastAttempt(qc.attempt + 1) <=> qc.attempt + 1 >= MaxQc
  BY CheckFields, GraphAssumption DEF TypeOK, LastAttempt
<1> HIDE DEF passed
<1>9. /\ qc'.attempt = qc.attempt + 1 /\ qc'.result = "checks" /\ qc'.checks = checks
      /\ qc'.whole = whole /\ qc'.baseline = doc /\ qc'.same = doc /\ qc'.retry = retry
      /\ qc'.reverify = targets /\ qc'.passed = passed
      /\ qc'.permanent = (~passed /\ LastAttempt(qc.attempt + 1))
  BY <1>2
<1>10. qc' \in QcStates
  <2>1. (~passed /\ LastAttempt(qc.attempt + 1)) \in BOOLEAN
    OBVIOUS
  <2> QED
    BY <1>2, <1>3, <1>4, <1>5, <1>7, <1>8, <2>1 DEF QcStates, Answers
<1>11. next' = IF qc'.passed \/ qc'.permanent THEN "end" ELSE "study_agent"
  BY <1>2, <1>9 DEF AfterCheck
<1> QED
  BY <1>3, <1>4, <1>6, <1>8, <1>9, <1>10, <1>11

LEMMA CheckHolds == IInv /\ QualityCheck => IInv' /\ StepsLeft' < StepsLeft
<1> SUFFICES ASSUME IInv, QualityCheck PROVE IInv' /\ StepsLeft' < StepsLeft
  OBVIOUS
<1>1. PICK r \in Remediated :
        /\ VerifyAll(r[1], r[2]) \/ VerifyRevised(r[1], r[2]) \/ CarryForward(r[1], r[2])
        /\ flaws' = r[1]
  BY DEF QualityCheck
<1> DEFINE f == r[1]
           t == r[2]
<1>2. /\ f \in [Section -> SUBSET Flaw] /\ t \in SUBSET Misplaced(flaws)
      /\ \A s \in Section : s \notin t => f[s] = flaws[s]
  BY DEF Remediated
<1>3. VerifyAll(f, t) \/ VerifyRevised(f, t) \/ CarryForward(f, t)
  BY <1>1
<1>4. flaws' = f
  BY <1>1
<1> HIDE DEF f, t
<1>5. Concluded(f)
  BY <1>2, <1>3, AllConcluded, RevisedConcluded, CarriedConcluded
<1> USE DEF IInv
<1>6. /\ next = "quality_check" /\ fixed' = {} /\ last' = "quality_check"
      /\ prepared' = prepared /\ mode' = mode /\ cached' = cached /\ formats' = formats
      /\ outcome' = outcome /\ doc' = doc /\ resumes' = resumes
  BY DEF QualityCheck
<1>7. formats # MaxFormat /\ qc.attempt < MaxQc + resumes /\ doc # {}
  BY <1>6 DEF RetryPending, AttemptsLeft, Nodes
<1>8. \A s \in Section \ doc : f[s] = {}
  BY <1>2 DEF Misplaced, TypeOK
<1> PICK checks \in Answers, whole \in SUBSET DocumentFault,
         kept \in [Section -> SUBSET SectionFault], asked \in SUBSET Section :
       Conclude(checks, whole, kept, asked) /\ Faithful(f, checks)
  BY <1>5 DEF Concluded
<1>9. /\ qc' \in QcStates
      /\ qc'.attempt = qc.attempt + 1 /\ qc'.result = "checks" /\ qc'.checks = checks
      /\ qc'.whole = whole /\ qc'.baseline = doc /\ qc'.same = doc
      /\ qc'.passed => /\ qc'.retry = "none"
                       /\ "refusal" \notin whole => \A s \in doc : checks[s] \cap Blocking = {}
      /\ ~qc'.passed => \A s \in doc : checks[s] # {} => s \in qc'.reverify
      /\ next' \in {"end", "study_agent"}
      /\ qc'.passed => next' = "end"
      /\ qc.attempt + 1 >= MaxQc => next' = "end"
  BY <1>7, ConcludeFields
<1>10. /\ judged' \subseteq doc
       /\ seen' \in [Section -> SUBSET SectionFault]
       /\ lost' \in [Section -> SUBSET Loss]
       /\ \A s \in doc : f[s] \subseteq checks[s]
       /\ \A s \in doc : lost'[s] = {} => s \in judged' /\ seen'[s] = checks[s] \ Flaw
  BY DEF Faithful
<1>11. qc.attempt \in Nat /\ formats \in Nat /\ resumes \in Nat
  BY CheckFields, GraphAssumption DEF TypeOK
<1>12. TypeOK'
  <2>1. qc'.attempt <= MaxQc + resumes'
    BY <1>6, <1>7, <1>9, <1>11, GraphAssumption
  <2>2. flaws' \in [Section -> SUBSET Flaw] /\ \A s \in Section \ doc' : flaws'[s] = {}
    BY <1>2, <1>4, <1>6, <1>8
  <2> QED
    BY <1>6, <1>9, <1>10, <2>1, <2>2 DEF TypeOK, Nodes
<1>13. PreparedInOrder'
  BY <1>6, <1>9 DEF PreparedInOrder, Ready, Planned, Provided, Preparing
<1>14. AttemptsLeft'
  BY <1>6, <1>7, <1>9, <1>11, GraphAssumption DEF AttemptsLeft, Nodes, Preparing
<1>15. RetryPending' /\ PassEndsIt' /\ RecordsKept'
  BY <1>6, <1>7, <1>9 DEF RetryPending, PassEndsIt, RecordsKept
<1>16. ChecksAreTrue'
  <2>1. qc'.retry \in SectionRetry => ~qc'.passed
    BY <1>9 DEF SectionRetry
  <2>2. ASSUME qc'.retry \in SectionRetry, NEW s \in doc, "misplaced" \in f[s]
        PROVE  s \in qc'.reverify
    BY <1>9, <1>10, <2>1, <2>2
  <2> QED
    BY <1>4, <1>6, <1>9, <1>10, <2>2 DEF ChecksAreTrue
<1>17. PassIsEarned'
  <2>1. ASSUME qc'.passed, "refusal" \notin whole, NEW s \in doc, lost'[s] = {}
        PROVE  s \in judged' /\ seen'[s] \cap Blocking = {}
    BY <1>9, <1>10, <2>1
  <2> QED
    BY <1>6, <1>9, <2>1 DEF PassIsEarned
<1>18. StepsLeft' < StepsLeft
  <2>1. Distance(next) = 0 /\ Distance(next') \in Int /\ Distance(next') <= 1
    BY <1>6, <1>9, Distances
  <2> QED
    BY <1>6, <1>9, <1>11, <2>1, GraphAssumption DEF StepsLeft
<1> QED
  BY <1>12, <1>13, <1>14, <1>15, <1>16, <1>17, <1>18

LEMMA UnavailableHolds == IInv /\ CheckUnavailable => IInv' /\ StepsLeft' < StepsLeft
<1> SUFFICES ASSUME IInv, CheckUnavailable PROVE IInv' /\ StepsLeft' < StepsLeft
  OBVIOUS
<1> USE DEF IInv
<1>1. /\ next = "quality_check" /\ last' = "quality_check"
      /\ lost' = [s \in Section |-> IF s \in doc THEN lost[s] \cup {"infra"} ELSE {}]
      /\ qc' = [qc EXCEPT !.attempt = @ + 1, !.result = "infra", !.checks = NoChecks,
                          !.whole = {}, !.passed = FALSE,
                          !.permanent = LastAttempt(qc.attempt + 1)]
      /\ next' = AfterCheck(qc')
      /\ prepared' = prepared /\ mode' = mode /\ cached' = cached /\ formats' = formats
      /\ outcome' = outcome /\ doc' = doc /\ resumes' = resumes
      /\ flaws' = flaws /\ fixed' = fixed /\ judged' = judged /\ seen' = seen
  BY DEF CheckUnavailable
<1>2. formats # MaxFormat /\ qc.attempt < MaxQc + resumes /\ doc # {}
  BY <1>1 DEF RetryPending, AttemptsLeft, Nodes
<1>3. qc \in QcStates /\ qc.attempt \in Nat /\ formats \in Nat /\ resumes \in Nat
      /\ qc.attempt + 1 \in 0..(MaxQc + MaxResumes)
  BY <1>2, CheckFields, GraphAssumption DEF TypeOK
<1> DEFINE n == qc.attempt + 1
           final == LastAttempt(qc.attempt + 1)
<1>4. n \in 0..(MaxQc + MaxResumes) /\ final \in BOOLEAN /\ (final <=> n >= MaxQc)
  BY <1>3, GraphAssumption DEF LastAttempt
<1>5. qc' = Unavailable(qc, n, final)
  BY <1>1 DEF Unavailable
<1>6. n = qc.attempt + 1
  OBVIOUS
<1> HIDE DEF n, final
<1>7. /\ qc' \in QcStates /\ qc'.attempt = n /\ qc'.result = "infra"
      /\ qc'.retry = qc.retry /\ qc'.reverify = qc.reverify /\ qc'.same = qc.same
      /\ qc'.passed = FALSE /\ qc'.permanent = final
  <2>1. /\ qc' \in QcStates /\ qc'.attempt = n /\ qc'.result = "infra"
        /\ qc'.passed = FALSE /\ qc'.permanent = final
    BY <1>3, <1>4, <1>5, UnavailableFields
  <2>2. qc'.retry = qc.retry /\ qc'.reverify = qc.reverify /\ qc'.same = qc.same
    BY <1>3, <1>5, RetryStays
  <2> QED
    BY <2>1, <2>2
<1>8. next' = IF final THEN "end" ELSE "quality_check"
  BY <1>1, <1>4, <1>7 DEF AfterCheck
<1>9. TypeOK'
  <2>1. qc'.attempt <= MaxQc + resumes'
    BY <1>1, <1>2, <1>3, <1>6, <1>7, GraphAssumption
  <2>2. lost' \in [Section -> SUBSET Loss]
    BY <1>1 DEF TypeOK, Loss
  <2> QED
    BY <1>1, <1>7, <1>8, <2>1, <2>2 DEF TypeOK, Nodes
<1>10. PreparedInOrder'
  BY <1>1, <1>8 DEF PreparedInOrder, Ready, Planned, Provided, Preparing
<1>11. AttemptsLeft'
  BY <1>1, <1>2, <1>3, <1>4, <1>6, <1>7, <1>8, GraphAssumption DEF AttemptsLeft, Nodes, Preparing
<1>12. RetryPending' /\ PassEndsIt'
  BY <1>1, <1>2, <1>7, <1>8 DEF RetryPending, PassEndsIt, Preparing
<1>13. RecordsKept' /\ ChecksAreTrue' /\ PassIsEarned'
  <2>1. \A s \in doc' : "infra" \in lost'[s]
    BY <1>1 DEF TypeOK
  <2>2. next' \notin Preparing \cup {"study_agent"}
    BY <1>8 DEF Preparing
  <2> QED
    BY <1>1, <1>7, <2>1, <2>2 DEF RecordsKept, ChecksAreTrue, PassIsEarned
<1>14. StepsLeft' < StepsLeft
  <2>1. Distance(next) = 0 /\ Distance(next') \in Int /\ Distance(next') <= 0
    BY <1>1, <1>8, Distances
  <2> QED
    BY <1>1, <1>3, <1>6, <1>7, <2>1, GraphAssumption DEF StepsLeft
<1> QED
  BY <1>9, <1>10, <1>11, <1>12, <1>13, <1>14

-----------------------------------------------------------------------------
(* A step that runs a node brings the end nearer.                          *)
LEMMA NodeStep ==
  IInv /\ GraphStep => IInv' /\ (next \in Nodes => StepsLeft' < StepsLeft)
BY PrepareHolds, RetryHolds, WriteHolds, NothingHolds, CheckHolds, UnavailableHolds, StopHolds
   DEF GraphStep, Finalize, Nodes, Preparing

LEMMA StepHolds == IInv /\ [Next]_vars => IInv'
<1>1. ASSUME IInv, UNCHANGED vars PROVE IInv'
  <2> USE <1>1 DEF IInv, vars, history
  <2>1. TypeOK'
    BY DEF TypeOK
  <2>2. PreparedInOrder'
    BY DEF PreparedInOrder, Ready, Planned, Provided, AfterPreparing, AfterReference
  <2>3. AttemptsLeft' /\ RetryPending' /\ PassEndsIt'
    BY DEF AttemptsLeft, RetryPending, PassEndsIt
  <2>4. RecordsKept' /\ ChecksAreTrue' /\ PassIsEarned'
    BY DEF RecordsKept, ChecksAreTrue, PassIsEarned
  <2> QED
    BY <2>1, <2>2, <2>3, <2>4
<1> QED
  BY <1>1, NodeStep, StopHolds, ResumeHolds DEF Next

LEMMA LeftIsBounded == IInv => -1 <= StepsLeft
<1> SUFFICES ASSUME IInv PROVE -1 <= StepsLeft
  OBVIOUS
<1>1. /\ qc.attempt \in Nat /\ formats \in Nat
      /\ qc.attempt <= MaxQc + MaxResumes /\ formats <= MaxFormat
  BY CheckFields, GraphAssumption DEF IInv, TypeOK
<1>2. Distance(next) \in Int /\ -1 <= Distance(next)
  BY Distances DEF IInv, TypeOK, Nodes, Preparing
<1> QED
  BY <1>1, <1>2, GraphAssumption DEF StepsLeft

(* The inductive invariant, see IInv.                                      *)
THEOREM GraphInvariance == Spec => []IInv
<1>1. Init => IInv
  BY InitHolds
<1>2. IInv /\ [Next]_vars => IInv'
  BY StepHolds
<1> QED
  BY <1>1, <1>2, PTL DEF Spec

(* The variables keep their types and the attempts their limits.           *)
THEOREM GraphTypes == Spec => []TypeOK
<1>1. IInv => TypeOK
  BY DEF IInv
<1> QED
  BY <1>1, GraphInvariance, PTL

(* Wherever a run is stopped and resumed, nothing is written or judged     *)
(* before the plan, the reference and the realignment are there.           *)
THEOREM NothingUnprepared == Spec => []PreparedFirst
<1>1. IInv => PreparedFirst
  BY DEF IInv, PreparedInOrder, Ready, Provided, Planned, PreparedFirst
<1> QED
  BY <1>1, GraphInvariance, PTL

(* In a document that passes and is not a refusal, the judge has been      *)
(* shown the present text of every section and found no blocking fault in  *)
(* it, unless the record of that section was lost in one of five ways.     *)
THEOREM PassesAreEarned == Spec => []PassIsEarned
<1>1. IInv => PassIsEarned
  BY DEF IInv
<1> QED
  BY <1>1, GraphInvariance, PTL

(* Every node that is run brings the graph nearer to its end, however the  *)
(* generator and the judge answer.                                         *)
THEOREM GraphEnds == Spec => NearerToEnd
<1>1. ASSUME IInv, (-1 <= StepsLeft)', [Next]_vars
      PROVE  [(next \in Nodes /\ next' # "stopped")
                => (-1 <= StepsLeft' /\ StepsLeft' < StepsLeft)]_vars
  <2>2. CASE GraphStep
    BY <1>1, <2>2, NodeStep
  <2>3. CASE Stop
    BY <2>3 DEF Stop
  <2>4. CASE Resume
    BY <2>4 DEF Resume, Nodes, Preparing
  <2>5. CASE UNCHANGED vars
    BY <2>5
  <2> QED
    BY <1>1, <2>2, <2>3, <2>4, <2>5 DEF Next
<1>2. IInv => -1 <= StepsLeft
  BY LeftIsBounded
<1> QED
  BY <1>1, <1>2, GraphInvariance, PTL DEF Spec, NearerToEnd
=============================================================================
