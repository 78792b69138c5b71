----------------------------- MODULE StudyGraph -----------------------------
(***************************************************************************)
(* The graph that makes one study material: preparation, the generator and *)
(* the quality check that sends the document back to it.  A document is a  *)
(* set of sections; of a section's text the model keeps the flaws that the *)
(* deterministic checks find in it and the faults that the judge, who is   *)
(* the model itself and may say anything, finds in it.                     *)
(*                                                                         *)
(* A node is one step, together with the checkpoint of what it returned: a *)
(* node that returns an error, or whose run is stopped or dies before the  *)
(* checkpoint, leaves the state as it was.  A stopped run may be resumed.  *)
(***************************************************************************)
EXTENDS Integers, FiniteSets

CONSTANTS
  Section,        \* the sections the plan asks for
  Judgement,      \* what the judge may say of a document (TLC: few faults at a time)
  MaxQc,          \* MAX_QC_ATTEMPTS
  MaxFormat,      \* MAX_GENERATOR_FORMAT_ATTEMPTS
  MaxResumes      \* resumptions of the run (bounds the state space)

\* A check that failed, by its category and whether it is critical:
\* must_cover, content_accuracy, code_quality or stack_fidelity,
\* document_coherence with a section.
SectionFault == {"uncovered", "inaccurate", "inexact", "miscoded", "clumsy",
                 "incoherent", "uneven"}

\* teaching_alignment, document_coherence without a section; the risk of
\* hallucination is high; the document is a refusal.
DocumentFault == {"misaligned", "adrift", "disjointed", "loose", "risky", "refusal"}

\* Computed without the judge: placement checks, and the det_stem checks.
Flaw == {"misplaced", "unsound"}

ASSUME GraphAssumption ==
  /\ Section # {}
  /\ Judgement \subseteq [faults : [Section -> SUBSET SectionFault], whole : SUBSET DocumentFault]
  /\ MaxQc \in Nat \ {0} /\ MaxFormat \in Nat \ {0} /\ MaxResumes \in Nat

VARIABLES
  mode,        \* reference_mode: none, pdf, external
  cached,      \* the reference text of an earlier run can be used
  next,        \* the node to run next, or how the run stands
  last,        \* last_completed_node of the checkpoint
  prepared,    \* the preparing nodes whose results the state has
  outcome,     \* generation_outcome
  formats,     \* generator_format_attempt
  doc,         \* the sections of generation_parsed_document
  flaws,       \* per section: the flaws in its text
  fixed,       \* fixed_sections: what the last section retry returned
  qc,          \* what the quality check left in the state, see QcStates
  resumes,     \* resumptions so far
  judged,      \* sections whose present text the judge has been shown
  seen,        \* per section: the faults it last found there
  lost         \* per section: how the record may have come to differ from that

history == <<judged, seen, lost>>
vars == <<mode, cached, next, last, prepared, outcome, formats, doc, flaws,
          fixed, qc, resumes, history>>

Preparing == {"resolver", "concept_checklist", "reference_router", "llamaparse",
              "external_research", "checklist_realign"}
Nodes == Preparing \cup {"study_agent", "quality_check"}

Blocking  == {"uncovered", "inaccurate", "miscoded", "incoherent"} \cup Flaw
Substance == {"uncovered", "inaccurate", "inexact", "misaligned", "adrift"}
Code      == {"miscoded", "clumsy"}

\* The faults that the judge may find in a section, and what of it can be frozen
\* once it has passed: that all is covered, and what is said of the code.
Possible  == UNION {j.faults[s] : j \in Judgement, s \in Section}
Freezable == {passed \cap Possible : passed \in {{}, {"uncovered"}, Code, {"uncovered"} \cup Code}}

\* Why the record of a section may not be what the judge found there.
Loss == {"infra", "omitted", "narrowed", "deduped", "frozen"}

SectionRetry == {"patch", "insert", "both"} \* SECTION_RETRY_MODES
Retry        == SectionRetry \cup {"full", "none"}

QcStates ==
  [ attempt   : 0..(MaxQc + MaxResumes),
    result    : {"none", "infra", "checks"},       \* qc_result
    checks    : [Section -> SUBSET (SectionFault \cup Flaw)], \* failed checks in it
    whole     : SUBSET DocumentFault,              \* ... and on the document
    baseline  : SUBSET Section,                    \* sections with a content hash
    same      : SUBSET Section,                    \* ... that the text still has
    frozen    : [Section -> SUBSET SectionFault],  \* not to be asked about again
    retry     : Retry,                             \* qc_retry_mode
    reverify  : SUBSET Section,                    \* qc_reverify_section_ids
    passed    : BOOLEAN,
    permanent : BOOLEAN ]

NoChecks == [s \in Section |-> {}]

Init ==
  /\ mode \in {"none", "pdf", "external"} /\ cached \in IF mode = "none" THEN {FALSE} ELSE BOOLEAN
  /\ next = "resolver" /\ last = "none" /\ prepared = {}
  /\ outcome = "none" /\ formats = 0
  /\ doc = {} /\ flaws = [s \in Section |-> {}] /\ fixed = {}
  /\ qc = [attempt |-> 0, result |-> "none", checks |-> NoChecks, whole |-> {},
           baseline |-> {}, same |-> {}, frozen |-> NoChecks, retry |-> "none",
           reverify |-> {}, passed |-> FALSE, permanent |-> FALSE]
  /\ resumes = 0
  /\ judged = {} /\ seen = NoChecks /\ lost = NoChecks

-----------------------------------------------------------------------------
(* Routing. *)

Missing == Section \ doc

AfterReference ==
  IF mode = "external"
    THEN IF cached THEN "checklist_realign" ELSE "external_research"
    ELSE IF mode = "pdf" /\ ~cached THEN "llamaparse" ELSE "study_agent"

AfterAgent(kind, tries) ==
  CASE kind = "document" -> "quality_check"
    [] kind = "malformed" /\ tries < MaxFormat -> "study_agent"
    [] OTHER -> "end"

\* Mutant: a resumed run does not realign the plan with what was researched.
AfterPreparingHasty(node) ==
  CASE node = "resolver" -> "concept_checklist"
    [] node = "concept_checklist" -> "reference_router"
    [] node = "reference_router" -> AfterReference
    [] node \in {"external_research", "llamaparse", "checklist_realign"} -> "study_agent"

AfterPreparing(node) ==
  CASE node = "resolver" -> "concept_checklist"
    [] node = "concept_checklist" -> "reference_router"
    [] node = "reference_router" -> AfterReference
    [] node = "external_research" -> "checklist_realign"
    [] node \in {"llamaparse", "checklist_realign"} -> "study_agent"

AfterCheck(q) ==
  IF q.passed \/ q.permanent THEN "end"
  ELSE IF q.result = "infra" THEN "quality_check" ELSE "study_agent"

\* Where a resumed run goes on.  It asks neither whether the check had passed
\* nor whether it had failed for good.
ResumeNode ==
  CASE last = "none" -> "resolver"
    [] last \in Preparing -> AfterPreparing(last)
    [] last = "study_agent" -> AfterAgent(outcome, formats)
    [] last = "quality_check" ->
         IF qc.result # "infra" /\ qc.retry # "none" THEN "study_agent" ELSE "quality_check"

-----------------------------------------------------------------------------
(* Preparation. *)

Prepared(node) ==
  /\ next = node
  /\ prepared' = prepared \cup {node}
  /\ next' = AfterPreparing(node)
  /\ UNCHANGED <<mode, cached, outcome, formats, doc, flaws, fixed, qc, resumes,
                 history>>

Checkpointed(node) == Prepared(node) /\ last' = node

ResolveInstruction == Checkpointed("resolver")
PlanConcepts       == Checkpointed("concept_checklist")
ParseReference     == Checkpointed("llamaparse")
Research           == Checkpointed("external_research")
RealignPlan        == Checkpointed("checklist_realign")

\* The router's answer is empty, and not checkpointed, when the mode was given.
ChooseReference == Prepared("reference_router") /\ last' \in {last, "reference_router"}

Prepare == \/ ResolveInstruction \/ PlanConcepts \/ ChooseReference
           \/ ParseReference \/ Research \/ RealignPlan

-----------------------------------------------------------------------------
(* The generator. *)

\* What is written may have any flaws, and nobody has judged it.
Written(new) ==
  /\ \E f \in [new -> SUBSET Flaw] :
       flaws' = [s \in Section |-> IF s \in new THEN f[s]
                                  ELSE IF s \in doc' THEN flaws[s] ELSE {}]
  /\ qc' = [qc EXCEPT !.same = (@ \cap doc') \ new]
  /\ judged' = (judged \cap doc') \ new
  /\ seen' = [s \in Section |-> IF s \in doc' \ new THEN seen[s] ELSE {}]
  /\ lost' = [s \in Section |-> IF s \in doc' \ new THEN lost[s] ELSE {}]

\* The sections that a patch may replace, and those that may be inserted.
Patchable  == IF qc.retry = "insert" THEN {} ELSE qc.reverify \cap doc
Insertable == IF qc.retry = "patch" THEN {} ELSE Missing

\* run_section_retry: the model returns some of the sections it was asked for.
RetrySections ==
  /\ next = "study_agent" /\ qc.retry \in SectionRetry /\ doc # {}
  /\ \E patched \in SUBSET Patchable, inserted \in SUBSET Insertable :
       /\ doc' = doc \cup inserted
       /\ fixed' = patched \cup inserted
       /\ Written(patched \cup inserted)
  /\ outcome' = "document"
  /\ last' = "study_agent" /\ next' = "quality_check"
  /\ UNCHANGED <<mode, cached, prepared, formats, resumes>>

\* A full regeneration keeps the sections that were not to be rewritten.
Preserving == qc.retry = "full" /\ qc.reverify # {}

WriteDocument ==
  /\ next = "study_agent" /\ qc.retry \notin SectionRetry
  /\ \E returned \in (SUBSET Section) \ {{}} :
       /\ doc' = IF Preserving THEN doc \cup returned ELSE returned
       /\ Written(IF Preserving THEN returned \ (doc \ qc.reverify) ELSE returned)
  /\ outcome' = "document"
  /\ last' = "study_agent" /\ next' = "quality_check"
  /\ UNCHANGED <<mode, cached, prepared, formats, fixed, resumes>>

\* Mutant: the attempts at a well-formed document are not counted.
FormatsUncounted(kind) == formats

FormatsAfter(kind) == IF kind = "malformed" THEN formats + 1 ELSE formats

\* No document: malformed, or an answer such as "a reference is required".
WriteNothing ==
  /\ next = "study_agent" /\ qc.retry \notin SectionRetry
  /\ outcome' \in {"malformed", "other"}
  /\ formats' = FormatsAfter(outcome')
  /\ doc' = {} /\ Written({})
  /\ last' = "study_agent" /\ next' = AfterAgent(outcome', formats')
  /\ UNCHANGED <<mode, cached, prepared, fixed, resumes>>

-----------------------------------------------------------------------------
(* The quality check.  f: the flaws that are left after the check has moved  *)
(* some blocks itself; t: the sections whose text it changed by that.        *)

Misplaced(f) == {s \in doc : "misplaced" \in f[s]}

\* run_placement_remediation_phase: in some sections blocks are moved; that may
\* not be enough, and it may settle or create a flaw of the other kind.
Remediated ==
  {r \in [Section -> SUBSET Flaw] \X SUBSET Misplaced(flaws) :
     \A s \in Section \ r[2] : r[1][s] = flaws[s]}

\* Mutant: the third attempt is not the last.
LastAttemptLate(n) == n > MaxQc

LastAttempt(n) == n >= MaxQc

\* substance_certified: no failed check of substance in the previous result.
Certified ==
  /\ \A s \in Section : qc.checks[s] \cap Substance = {}
  /\ qc.whole \cap Substance = {}

\* sections_with_changed_hashes: of the misplaced ones, or of all if none is.
Changed(f, t) ==
  IF qc.baseline = {} THEN Misplaced(f)
  ELSE (IF Misplaced(f) = {} THEN doc ELSE Misplaced(f)) \ (qc.same \ t)

\* Mutant: inserted sections are not verified, only those that had failed.
ScopeOfFailures == qc.reverify

\* reverify_section_ids_for_targeted
Scope == qc.reverify \cup fixed

\* Flaws other than misplaced blocks.
Unsettled(f) == Missing # {} \/ \E s \in doc : "unsound" \in f[s]

VerificationMode(f, t) ==
  CASE fixed # {} -> "targeted"
    [] fixed = {} /\ (qc.attempt = 0 \/ ~Certified \/ Unsettled(f)) -> "full"
    [] OTHER -> IF Changed(f, t) # {} THEN "targeted" ELSE "deterministic_only"

\* _map_failures_to_targets: the sections with a failed check, blocking or not.
Failed(checks) == {s \in doc : checks[s] # {}}

\* is_qc_deliverable.  A missing section is critical.
Deliverable(checks, whole) ==
  \/ "refusal" \in whole
  \/ /\ Missing = {} /\ whole \subseteq {"adrift", "loose"}
     /\ \A s \in doc : checks[s] \cap Blocking = {}

\* The failed checks on the whole document (its risk is no check).
OnDocument(whole) == whole \ {"risky", "refusal"}

\* is_placement_only_failure
PlacementOnly(checks, whole) ==
  /\ Missing = {} /\ OnDocument(whole) = {} /\ Failed(checks) # {}
  /\ \A s \in doc : checks[s] \subseteq {"misplaced"}

\* _merge_llm_recommendation_targets: failures of the document alone are sent
\* to the sections that the judge recommends.
Targets(checks, whole) ==
  IF Failed(checks) # {} \/ Missing # {} \/ OnDocument(whole) = {}
    THEN {Failed(checks)} ELSE SUBSET doc

\* _deterministic_mode, and the document's alignment as the sole failure.
ScopedRetry(targets, whole) ==
  CASE targets # {} /\ Missing # {} -> "both"
    [] targets # {} /\ Missing = {} -> "patch"
    [] targets = {} /\ Missing # {} -> "insert"
    [] OTHER -> IF OnDocument(whole) \in (SUBSET {"misaligned", "adrift"}) \ {{}}
                  THEN "full" ELSE "none"

\* classify_retry_routing: a critical misalignment needs a new document, misplaced
\* blocks alone never do, other failures may count as widespread.
Routes(checks, whole, targets) ==
  LET scoped == ScopedRetry(targets, whole)
  IN CASE PlacementOnly(checks, whole) -> {scoped}
       [] "misaligned" \in whole -> {"full"}
       [] scoped = "none" /\ OnDocument(whole) = {} -> {"none"}
       [] OTHER -> {scoped, "full"}

\* The judge's checks with those computed here.
Recorded(v, f) == [s \in Section |-> IF s \in doc THEN v[s] \cup f[s] ELSE {}]

\* The verdict, and what the node returns.  kept: what stays frozen; asked:
\* the sections in which more of what passed may be frozen.
Conclude(checks, whole, kept, asked) ==
  LET passed == Deliverable(checks, whole)
  IN \E targets \in IF passed THEN {{}} ELSE Targets(checks, whole) :
     \E retry \in IF passed THEN {"none"} ELSE Routes(checks, whole, targets) :
     \E add \in [asked -> Freezable] :
       /\ qc' = [attempt |-> qc.attempt + 1, result |-> "checks", checks |-> checks,
                 whole |-> whole, baseline |-> doc, same |-> doc,
                 frozen |-> [s \in Section |->
                               kept[s] \cup (IF s \in asked THEN add[s] ELSE {})],
                 retry |-> retry, reverify |-> targets,
                 passed |-> passed,
                 permanent |-> ~passed /\ LastAttempt(qc.attempt + 1)]
       /\ next' = AfterCheck(qc')

\* resolve_frozen_for_full_qc: what a full check does not ask about again.
Unasked(s, t) == IF s \in qc.same \ t THEN qc.frozen[s] ELSE {}

\* The whole document is judged, but for what is frozen.
VerifyAll(f, t) ==
  /\ VerificationMode(f, t) = "full"
  /\ \E j \in Judgement :
       LET v     == j.faults
           known == {s \in doc : Unasked(s, t) = {} \/ s \in judged}
           left  == [s \in doc |-> IF Unasked(s, t) = {} THEN {} ELSE seen[s] \cap Unasked(s, t)]
       IN /\ Conclude(Recorded(v, f), j.whole, qc.frozen, doc)
          /\ judged' = known
          /\ seen' = [s \in Section |-> IF s \in doc THEN v[s] \cup left[s] ELSE {}]
          /\ lost' = [s \in Section |->
                        IF s \notin doc \/ (s \in known /\ left[s] \subseteq v[s])
                          THEN {} ELSE {"frozen"}]

\* prune_frozen_for_sections: of the sections in scope, and what had to be
\* covered by those that were missing.
Pruned(scope) ==
  [s \in Section |-> IF s \in scope THEN {}
                     ELSE IF s \in qc.baseline THEN qc.frozen[s] ELSE qc.frozen[s] \ {"uncovered"}]

\* merge_targeted_qc_checks: the judge is shown what was revised and asked about
\* the scope of it (checklist_for_reverify, topic_split_for_targets); its checks
\* replace the earlier ones of every section in scope, revised or not, and of
\* the checks of one kind on one section (_dedup_key) only the last is kept.
VerifyRevised(f, t) ==
  /\ VerificationMode(f, t) = "targeted"
  /\ LET scope == (IF fixed # {} THEN Scope ELSE Changed(f, t)) \cap doc
         shown == IF fixed # {} THEN fixed \cap scope ELSE scope
         stale == IF fixed = {} /\ qc.baseline # {} THEN doc \ (qc.same \ t) ELSE {}
     IN \E j \in Judgement :
        LET said == [s \in doc |-> IF s \in shown THEN j.faults[s] ELSE qc.checks[s]]
        IN \E dropped \in SUBSET UNION {{s} \X said[s] : s \in doc} :
           LET r == [s \in doc |-> {x \in said[s] : <<s, x>> \notin dropped}]
           IN /\ Conclude(Recorded(r, f), j.whole, Pruned(scope), scope)
              /\ judged' = (judged \ t) \cup shown
              /\ seen' = [s \in Section |-> IF s \in shown THEN j.faults[s]
                                            ELSE IF s \in t THEN {} ELSE seen[s]]
              /\ lost' = [s \in Section |->
                            IF s \notin doc THEN {}
                            ELSE (IF s \in shown THEN {} ELSE lost[s])
                                 \cup {l \in Loss : \/ l = "deduped" /\ r[s] # said[s]
                                                    \/ l = "omitted" /\ s \in scope \ shown
                                                    \/ l = "narrowed" /\ s \in stale \ scope}]

\* checks_safe_to_carry_forward: no call, the checks of unchanged sections, and
\* those of the document if nothing in it has changed.
CarryForward(f, t) ==
  /\ VerificationMode(f, t) = "deterministic_only"
  /\ LET kept  == qc.same \ t
         whole == qc.whole \cap ({"risky", "refusal"} \cup IF qc.baseline # {} /\ qc.baseline \subseteq kept
                                                             THEN OnDocument(qc.whole) ELSE {})
     IN /\ Conclude(Recorded([s \in Section |-> IF s \in kept THEN qc.checks[s] \ Flaw ELSE {}], f),
                    whole, qc.frozen, {})
        /\ lost' = [s \in Section |-> IF s \in doc \ kept /\ qc.baseline # {}
                                        THEN lost[s] \cup {"narrowed"} ELSE lost[s]]
  /\ judged' = judged \ t
  /\ seen' = [s \in Section |-> IF s \in t THEN {} ELSE seen[s]]

\* Phase 1b moves blocks within some of the misplaced sections, then the mode
\* of verification is chosen.
QualityCheck ==
  /\ next = "quality_check"
  /\ \E r \in Remediated : LET f == r[1]
                              t == r[2] IN
       /\ VerifyAll(f, t) \/ VerifyRevised(f, t) \/ CarryForward(f, t)
       /\ flaws' = f
  /\ fixed' = {} /\ last' = "quality_check"
  /\ UNCHANGED <<mode, cached, prepared, outcome, formats, doc, resumes>>

\* build_infra_failure_return: no key is configured, or the judge did not answer.
\* The result takes the place of the previous one; all else of the check's state
\* stays, and blocks moved in this visit are forgotten.
CheckUnavailable ==
  /\ next = "quality_check"
  /\ qc' = [qc EXCEPT !.attempt = @ + 1, !.result = "infra", !.checks = NoChecks,
                      !.whole = {}, !.passed = FALSE,
                      !.permanent = LastAttempt(qc.attempt + 1)]
  /\ next' = AfterCheck(qc') /\ last' = "quality_check"
  /\ lost' = [s \in Section |-> IF s \in doc THEN lost[s] \cup {"infra"} ELSE {}]
  /\ UNCHANGED <<mode, cached, prepared, outcome, formats, doc, flaws, fixed,
                 resumes, judged, seen>>

-----------------------------------------------------------------------------
(* The runner. *)

\* A node returns an error (only realignment and routing have none), or the run
\* is paused or its worker dies before the node's checkpoint.
Stop ==
  /\ next \in Nodes \cup {"end"}
  /\ next' = "stopped"
  /\ UNCHANGED <<mode, cached, last, prepared, outcome, formats, doc, flaws, fixed,
                 qc, resumes, history>>

\* The result of a graph that has ended is stored as a version.
Finalize ==
  /\ next = "end"
  /\ next' = "stored"
  /\ UNCHANGED <<mode, cached, last, prepared, outcome, formats, doc, flaws, fixed,
                 qc, resumes, history>>

Resume ==
  /\ next = "stopped" /\ resumes < MaxResumes
  /\ resumes' = resumes + 1
  /\ next' = ResumeNode
  /\ UNCHANGED <<mode, cached, last, prepared, outcome, formats, doc, flaws, fixed,
                 qc, history>>

GraphStep == Prepare \/ RetrySections \/ WriteDocument \/ WriteNothing \/ QualityCheck
             \/ CheckUnavailable \/ Finalize

Next == GraphStep \/ Stop \/ Resume

Spec == Init /\ [][Next]_vars

-----------------------------------------------------------------------------
(* Properties. *)

\* The variables have their types; in particular the attempts at a check stay
\* within the maximum, plus one for every resumption of a run that had used
\* them up, and the attempts at a well-formed document within theirs.
TypeOK ==
  /\ mode \in {"none", "pdf", "external"} /\ cached \in BOOLEAN
  /\ next \in Nodes \cup {"end", "stored", "stopped"}
  /\ last \in Nodes \cup {"none"}
  /\ prepared \subseteq Preparing
  /\ outcome \in {"none", "document", "malformed", "other"}
  /\ formats \in 0..MaxFormat
  /\ doc \subseteq Section /\ fixed \subseteq doc
  /\ flaws \in [Section -> SUBSET Flaw] /\ \A s \in Section \ doc : flaws[s] = {}
  /\ qc \in QcStates /\ qc.attempt <= MaxQc + resumes
  /\ resumes \in 0..MaxResumes
  /\ judged \subseteq doc
  /\ seen \in [Section -> SUBSET SectionFault]
  /\ lost \in [Section -> SUBSET Loss]

\* Nothing is written or judged before the plan is made, the reference of the
\* run's mode is there and, after research, the plan agrees with it, wherever
\* the run was stopped and resumed.
PreparedFirst ==
  next \in {"study_agent", "quality_check"} =>
    /\ {"resolver", "concept_checklist", "reference_router"} \subseteq prepared
    /\ mode = "external" => "checklist_realign" \in prepared
    /\ ~cached => /\ mode = "external" => "external_research" \in prepared
                  /\ mode = "pdf" => "llamaparse" \in prepared

\* In a document that passed and is not a refusal, the judge has been shown the
\* present text of every section and found no blocking fault in it, unless the
\* record of that section was lost since: the judge could not be asked (infra);
\* a revision left the section out (omitted); misplaced blocks narrowed what was
\* looked at (narrowed); of several checks of one kind the last was kept
\* (deduped); or what is frozen was not asked about again (frozen).
PassIsEarned ==
  qc.passed /\ "refusal" \notin qc.whole =>
    \A s \in doc : lost[s] = {} => s \in judged /\ seen[s] \cap Blocking = {}

\* A failure of the infrastructure never makes a document pass that the judge
\* has not seen.  (What the code says of itself; it does not hold.)
NeverFakePass ==
  qc.passed /\ (\A s \in doc : lost[s] \subseteq {"infra"}) => doc \subseteq judged

\* However the generator and the judge answer, every node that is run brings
\* the graph nearer to its end: the attempts left count for more than the way
\* from one node to the next.
Distance(node) ==
  CASE node = "resolver" -> 6
    [] node = "concept_checklist" -> 5
    [] node = "reference_router" -> 4
    [] node = "external_research" -> 3
    [] node \in {"llamaparse", "checklist_realign"} -> 2
    [] node = "study_agent" -> 1
    [] node = "quality_check" -> 0
    [] OTHER -> -1

StepsLeft == 2 * ((MaxQc + MaxResumes - qc.attempt) + (MaxFormat - formats)) + Distance(next)

NearerToEnd ==
  [][(next \in Nodes /\ next' # "stopped") => (-1 <= StepsLeft' /\ StepsLeft' < StepsLeft)]_vars

-----------------------------------------------------------------------------
(* The inductive invariant. *)

\* What must have been prepared before a node runs, and when it may be next.
Planned  == {"resolver", "concept_checklist", "reference_router"} \subseteq prepared
Provided == /\ Planned
            /\ mode = "external" => "checklist_realign" \in prepared
            /\ ~cached => /\ mode = "external" => "external_research" \in prepared
                          /\ mode = "pdf" => "llamaparse" \in prepared

Ready(node) ==
  /\ node = "concept_checklist" => "resolver" \in prepared
  /\ node = "reference_router" => {"resolver", "concept_checklist"} \subseteq prepared
  /\ node = "llamaparse" => Planned /\ mode = "pdf"
  /\ node = "external_research" => Planned /\ mode = "external"
  /\ node = "checklist_realign" => /\ Planned /\ mode = "external"
                                   /\ ~cached => "external_research" \in prepared
  /\ node \in {"study_agent", "quality_check"} => Provided

PreparedInOrder ==
  /\ Ready(next)
  /\ last \in Preparing => Ready(AfterPreparing(last))
  /\ last \in {"study_agent", "quality_check"} => Provided

\* A node that may be run has an attempt left.
AttemptsLeft ==
  /\ next \in Nodes => qc.attempt < MaxQc + resumes
  /\ formats = MaxFormat => next \notin Nodes /\ last = "study_agent" /\ outcome = "malformed"

\* A section retry waits for the check, and only for it.
RetryPending ==
  /\ fixed # {} =>
       /\ next \notin Preparing \cup {"study_agent"}
       /\ qc.retry \in SectionRetry
       /\ \/ last = "study_agent" /\ outcome = "document"
          \/ last = "quality_check" /\ qc.result = "infra"
  /\ next = "quality_check" \/ last = "quality_check" \/ (last = "study_agent" /\ outcome = "document")
       => doc # {}

\* A check that passes is the last word, unless the run is resumed and checked again.
PassEndsIt ==
  qc.passed =>
    /\ next \in {"quality_check", "end", "stored", "stopped"}
    /\ last = "quality_check"
    /\ qc.retry = "none"

\* A failed attempt to ask the judge is followed by another one.
RecordsKept ==
  /\ qc.result = "none" =>
       qc.attempt = 0 /\ qc.retry = "none" /\ qc.baseline = {} /\ judged = {}
  /\ qc.result = "infra" =>
       /\ last = "quality_check" /\ next \notin Preparing \cup {"study_agent"}
       /\ \A s \in doc : "infra" \in lost[s]
  /\ qc.result = "checks" => qc.baseline # {}

\* What the last check recorded of the text that has not changed since is what the judge
\* found in it, unless it was lost, and a section retry is about all that failed.
ChecksAreTrue ==
  /\ qc.result = "checks" =>
       \A s \in qc.same : lost[s] = {} => s \in judged /\ seen[s] = qc.checks[s] \ Flaw
  /\ qc.retry \in SectionRetry =>
       /\ doc \ fixed \subseteq qc.same
       /\ \A s \in doc : "misplaced" \in flaws[s] => s \in qc.reverify \cup fixed

IInv ==
  /\ TypeOK
  /\ PreparedInOrder
  /\ AttemptsLeft
  /\ RetryPending
  /\ PassEndsIt
  /\ RecordsKept
  /\ ChecksAreTrue
  /\ PassIsEarned
=============================================================================
