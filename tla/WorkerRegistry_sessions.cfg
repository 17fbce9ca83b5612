SPECIFICATION FairSpec
CONSTANTS
  Owners = {s1, s2}
  Ids = {w1, w2}
  Root = root
  NoSession = none
  MaxActive = 2
  MaxStarts = 2
INVARIANTS
  WorkIsOwned
  EditorsAreAlone
  AnswersSeeReports
  LogIsTrue
PROPERTIES
  TurnBecomesIdle
