SPECIFICATION Spec
CONSTANTS
  app = app
  worker = worker
  t1 = t1
  t2 = t2
  t3 = t3
  a = a
  b = b
  c = c
  d = d
  n1 = n1
  n2 = n2
  k1 = k1
  k2 = k2
  day = day
  v1 = v1
  v2 = v2
  v3 = v3
  NoItem = NoItem
  NoFile = NoFile
  Procs = {app}
  Threads = {t1}
  ProcOf <- OneThread
  Items = {a, b, d, n1, n2}
  Key <- NoteKeys
  Value <- NoteValues
  NoValue = v2
  Stale = {n1}
  Notes = {n1, n2}
  Mirrored = TRUE
  Semantic = TRUE
  Callers = {t1}
  Jobs = {t1}
  MaxOps = 3
  MaxCrashes = 1
  MaxRaises = 1
INVARIANTS Durable EraseFinal IndexMatches OneSummary
CHECK_DEADLOCK FALSE
