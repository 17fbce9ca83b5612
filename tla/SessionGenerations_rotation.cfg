CONSTANTS
  p1 = p1
  p2 = p2
  root = root
  worker = worker
  other = other
  Procs = {p1, p2}
  Sessions <- ThreeSessions
  Parent <- OneWorker
  NoOne = NoOne
  MaxGeneration = 3
  MaxOperations = 4
  MaxFaults = 2
SPECIFICATION Spec
SYMMETRY Alike
INVARIANT FamiliesStayTogether
PROPERTY StoreIsDurable
CHECK_DEADLOCK FALSE
