SPECIFICATION Spec
CONSTANTS
  intro = intro
  proof = proof
  Section <- TwoSections
  Judgement <- Judgements
  MaxQc = 3
  MaxFormat = 2
  MaxResumes = 1
SYMMETRY Symmetry
CONSTRAINT FewWrongs
INVARIANTS
  TypeOK
  PreparedFirst
  
PROPERTIES
  NearerToEnd
CHECK_DEADLOCK FALSE
