SPECIFICATION FairSpec
CONSTANTS
  Mode = "Continue"
  Starts <- Prompts
  MaxTurns = 3
  MaxQuestions = 1
  MaxRequests = 0
  MaxOps = 1
  MaxJobs = 1
  TransportRetries = 0
  RateLimitRetries = 0
  InputDuringClear = FALSE
INVARIANTS
  TurnsDoNotOverlap
  TurnsAreOwned
PROPERTIES
  QueueDrains
