SPECIFICATION Spec
CONSTANTS
  MaxCalls = 3
  MaxGenerations = 2
  MaxChanges = 2
  QueueLimit = 1
CHECK_DEADLOCK FALSE
INVARIANTS
  RoutesAreKnown
  AnswersAreCurrent
PROPERTIES
  PreparationsEnd
