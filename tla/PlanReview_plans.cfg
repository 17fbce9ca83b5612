SPECIFICATION Spec
ACTION_CONSTRAINT
  LongPlansAlone
CONSTANTS
  Steps <- Two
  Definitions <- Kinds
  OpenStates <- Open
  MaxQuestions = 2
  MaxResults = 1
  EvidenceLimit = 2
  MaxRevision = 3
  MaxWishes = 2
  MaxSessions = 2
  MaxFaults = 1
INVARIANTS
  CompletionIsSupported
  OfferIsFresh
  CopiesAgree
CHECK_DEADLOCK FALSE
