SPECIFICATION Spec
CONSTANTS
  c1 = c1
  c2 = c2
  Callers <- TwoCallers
  MaxVersions = 3
SYMMETRY Symmetry
CONSTRAINTS
  OverlapInOrder
  LastVersionEndsIt
INVARIANTS
  TypeOK
  OnePublished
  OneWorking
  PublishedIsActive
  GeneratedInOrder
PROPERTIES
  LiveNeverCleared
