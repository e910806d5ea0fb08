SPECIFICATION Spec
CONSTANTS
  j1 = j1
  j2 = j2
  j3 = j3
  j4 = j4
  w1 = w1
  w2 = w2
  NoMsg = NoMsg
  Jobs = {j1}
  Kind <- OneJob
  Workers = {w1, w2}
  Drainers = {w2}
  MaxRetries = 3
  Prefetch = 1
  DlqMayUnbind = FALSE
  MaxFaults = 3
  MaxStops = 0
INVARIANTS NoLoss DeadLetterJustified
PROPERTY ImplementsLedger
CHECK_DEADLOCK FALSE
