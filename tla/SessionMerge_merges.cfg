SPECIFICATION Spec
CONSTANTS
  s1 = s1
  s2 = s2
  f1 = f1
  f2 = f2
  None = None
  Sessions = {s1, s2}
  First = s1
  Files = {f1, f2}
  MaxEdits = 2
  MaxTurns = 2
  MaxTrouble = 1
INVARIANTS
  QuestionsMatch
PROPERTIES
  MainIsApproved
  MainKeepsItsWork
  NothingIsLost
  ForksKeepTheirSource
SYMMETRY Symmetry
CHECK_DEADLOCK FALSE
