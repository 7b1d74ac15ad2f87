SPECIFICATION Spec
CONSTANTS
  Threads = {t1, t2}
  Conns = {c1, c2, c3}
  MaxConnections = 1
  BudgetMax = 9
  BudgetTimeout = TRUE
  ForeignMax = 0
  HasMonitor = TRUE
  MayClose = FALSE
  None = None
SYMMETRY Interchangeable
CHECK_DEADLOCK FALSE
INVARIANTS
  NoOvershoot
