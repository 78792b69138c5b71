---------------------------- MODULE MCStudyGraph ----------------------------
(* StudyGraph with two sections.                                             *)
EXTENDS StudyGraph, TLC

CONSTANTS intro, proof

TwoSections == {intro, proof}

\* What must be covered blocks, is substance and can be frozen; a critical
\* failure of coherence only blocks, and an inexact statement is only substance.
Findings == {{}, {"uncovered"}, {"incoherent"}, {"inexact"}}

\* On the document: a misalignment, an incoherence, a refusal.
Impressions == {{}, {"misaligned"}, {"disjointed"}, {"refusal"}}

\* At most one of them at a time.
Judgements ==
  {j \in [faults : [Section -> Findings], whole : Impressions] :
     Cardinality({s \in Section : j.faults[s] # {}}) + Cardinality(j.whole) <= 1}

\* Sections are interchangeable.
Symmetry == Permutations(Section)

\* Once there is a document to check, nothing reads how it was prepared, nor how
\* many attempts it took: one way of preparing is explored beyond the first check.
OneModeChecked == qc.attempt > 0 => mode = "none" /\ formats = 0

\* Faults, flaws and losses, of which at most two are there at a time.
Wrongs == {<<s, x>> \in Section \X (SectionFault \cup Flaw \cup Loss) :
             x \in flaws[s] \cup qc.checks[s] \cup seen[s] \cup lost[s]}
          \cup ({"document"} \X (qc.whole \ {"refusal"}))

FewWrongs == OneModeChecked /\ Cardinality(Wrongs) <= 2
=============================================================================
