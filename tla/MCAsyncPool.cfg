SPECIFICATION FairSpec
CONSTANTS
  Tasks = {t1, t2, t3}
  Closers = {k1, k2}
  Monitor = monitor
  Recovery = recovery
  Conns = {c1, c2}
  MaxConnections = 2
  BudgetMax = 2
  ForeignMax = 1
  None = None
CHECK_DEADLOCK FALSE
INVARIANTS
  PermitsConserved
  BudgetExact
  CloseIsComplete
PROPERTIES
  CloseDrains
