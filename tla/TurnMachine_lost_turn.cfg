SPECIFICATION Spec
CONSTANTS
  Mode = "Continue"
  Starts <- Prompts
  MaxTurns = 2
  MaxQuestions = 0
  MaxRequests = 0
  MaxOps = 1
  MaxJobs = 1
  TransportRetries = 1
  RateLimitRetries = 0
  InputDuringClear = TRUE
INVARIANTS
  TurnsAreOwned
