SPECIFICATION Spec
CONSTANTS
  Threads = {t1, t2, t3}
  Conns = {c1, c2, c3}
  MaxConnections = 2
  BudgetMax = 3
  BudgetTimeout = TRUE
  ForeignMax = 1
  HasMonitor = TRUE
  MayClose = TRUE
  None = None
SYMMETRY Interchangeable
CHECK_DEADLOCK FALSE
INVARIANTS
  PermitsConserved
  BudgetExact
  OnePlace
  ClosedIsEmpty
  WakeupsSuffice
