SPECIFICATION FairSpec
ACTION_CONSTRAINTS
  OneRole
  SmallBatches
  WorkersLoseStorage
CONSTANTS
  Mode = "Continue"
  Starts <- PromptsAndTools
  MaxTurns = 1
  MaxQuestions = 0
  MaxRequests = 2
  MaxOps = 4
  MaxJobs = 2
  TransportRetries = 1
  RateLimitRetries = 0
  InputDuringClear = FALSE
INVARIANTS
  ResultsAreTold
PROPERTIES
  TurnSettles
  WorkerIsAnswered
  StopCompletes
