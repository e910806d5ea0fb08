SPECIFICATION Spec
CONSTANTS
  app = app
  worker = worker
  t1 = t1
  t2 = t2
  t3 = t3
  a = a
  b = b
  c = c
  d = d
  n1 = n1
  n2 = n2
  k1 = k1
  k2 = k2
  day = day
  v1 = v1
  v2 = v2
  v3 = v3
  NoItem = NoItem
  NoFile = NoFile
  Procs = {app, worker}
  Threads = {t1, t2, t3}
  ProcOf <- ThreeThreads
  Items = {a, b}
  Key <- TwoKeys
  Value <- TwoValues
  NoValue = NoValue
  Stale = {b}
  Notes = {}
  Mirrored = TRUE
  Semantic = FALSE
  Callers = {t1, t2}
  Jobs = {t3}
  MaxOps = 1
  MaxCrashes = 1
  MaxRaises = 2
INVARIANTS TypeOK MirrorForgets
CHECK_DEADLOCK FALSE
