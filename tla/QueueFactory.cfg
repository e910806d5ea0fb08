SPECIFICATION FairSpec
CONSTANTS
  Threads = {t1, t2, t3}
  Objects = {q1, q2, q3}
  None = none
  MaxCalls = 4
  MaxFaults = 2
  MaxResets = 1
INVARIANTS ChannelExclusive BuiltOnce NoneIsEarned LossesAreSingle
PROPERTY Returns
CHECK_DEADLOCK FALSE
