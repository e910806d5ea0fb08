SPECIFICATION Spec
CONSTANTS
  t1 = t1
  t2 = t2
  u1 = u1
  Users = {u1}
  Turns = {t1, t2}
  MaxTurns = 2
  MaxDeltas = 2
  MaxEvents = 2
INVARIANTS Remembers ToldIsRemembered HistoryIsSound OncePerTurn
SYMMETRY Symmetry
CHECK_DEADLOCK FALSE
