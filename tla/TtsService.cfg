SPECIFICATION FairSpec
CONSTANTS
  Callers = {c1, c2}
  Warmers = {w1, w2, w3}
  Texts = {x, blank}
  Silent = {blank}
  Hello = hello
  NoOne = none
  MaxCalls = 2
  MaxFaults = 1
INVARIANTS OneForOne OneWorker
PROPERTY Returns
CHECK_DEADLOCK FALSE
