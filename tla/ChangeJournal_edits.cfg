CONSTANTS
  f = f
  g = g
  Files = {f, g}
  Listed = {f}
  Missing = 0
  Original = 1
  Contents = {0, 1}
  test = test
  Commands = {test}
  MaxTasks = 3
  MaxForeign = 1
  MaxFaults = 1
  Unseen = Unseen
SPECIFICATION Spec
INVARIANTS JournalIsTrue ReviewIsHonest EvidenceIsCurrent
PROPERTY ForeignEditsSurvive
CHECK_DEADLOCK FALSE
