SPECIFICATION SpecOfBatches
CONSTANTS
  Root = root
  worker = w1
  Workers = {w1, w2}
  Batches <- BatchesThatMeet
  ReadLimit = 2
  MaxEdits = 1
  NoOne = none
CHECK_DEADLOCK FALSE
INVARIANTS
  ImpactIsTrue
  NoEditBesideProcess
PROPERTIES
  WorkspaceIsShared
  BatchesEnd
