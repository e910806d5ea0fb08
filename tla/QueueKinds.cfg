SPECIFICATION Spec
CONSTANTS
  j1 = j1
  j2 = j2
  j3 = j3
  j4 = j4
  w1 = w1
  w2 = w2
  NoMsg = NoMsg
  Jobs = {j1, j2, j3, j4}
  Kind <- AllKinds
  Workers = {w1}
  Drainers = {}
  MaxRetries = 2
  Prefetch = 2
  DlqMayUnbind = TRUE
  MaxFaults = 2
  MaxStops = 1
INVARIANTS LossOnlyOfPoison WindowMatches
CHECK_DEADLOCK FALSE
