SPECIFICATION FairSpec
CONSTANTS
  Tasks = {k1, k2}
  Threads = {w1}
  Callers = {}
  MaxWorkers = 1
  MayClose = TRUE
  None = None
CHECK_DEADLOCK FALSE
PROPERTIES
  CloseReturns
