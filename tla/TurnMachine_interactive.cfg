SPECIFICATION Spec
CONSTANTS
  Mode = "Continue"
  Starts <- Prompts
  MaxTurns = 2
  MaxQuestions = 1
  MaxRequests = 0
  MaxOps = 2
  MaxJobs = 1
  TransportRetries = 1
  RateLimitRetries = 0
  InputDuringClear = TRUE
INVARIANTS
  NoOrphanedFollowUps
  QuestionsAgree
  NoUnownedWork
