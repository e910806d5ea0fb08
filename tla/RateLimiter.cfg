SPECIFICATION Spec
CONSTANTS
  u1 = u1
  u2 = u2
  t1 = t1
  t2 = t2
  NoBucket = NoBucket
  NoPromise = NoPromise
  NoUser = NoUser
  Users = {u1}
  Threads = {t1, t2}
  Capacity = 2
  Refill = 2
  Unit = 3
  MinTtl = 2
  NoRefillTtl = 4
  MaxTime = 9
  MaxSetBack = 2
  MaxFaults = 1
INVARIANTS BurstBound RetryAfterHonest MeteredUnlessFault
SYMMETRY Symmetry
