SPECIFICATION FairSpec
CONSTANTS
  BatchSize = 2
  MaxText = 3
  MaxArtifacts = 2
INVARIANTS
  SuccessMeansAllSent
  NoHoles
  TwiceOnlyAcrossBatches
  NamedAgainOnlyIfUnsure
PROPERTIES
  Concluded
CHECK_DEADLOCK FALSE
