SPECIFICATION FairSpec
CONSTANTS
  j1 = j1
  j2 = j2
  j3 = j3
  j4 = j4
  w1 = w1
  w2 = w2
  NoMsg = NoMsg
  Jobs = {j1, j2}
  Kind <- RegisteredAndUnknown
  Workers = {w1, w2}
  Drainers = {}
  MaxRetries = 2
  Prefetch = 2
  DlqMayUnbind = FALSE
  MaxFaults = 1
  MaxStops = 1
INVARIANTS NoConcurrentRun RetryBudget
PROPERTY Drained
CHECK_DEADLOCK FALSE
