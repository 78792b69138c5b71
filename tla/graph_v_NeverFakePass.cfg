SPECIFICATION Spec
CONSTANTS
  intro = intro
  proof = proof
  Section <- TwoSections
  Judgement <- Judgements
  MaxQc = 3
  MaxFormat = 2
  MaxResumes = 1
INVARIANTS
  NeverFakePass
CHECK_DEADLOCK FALSE
