SPECIFICATION KeyFairSpec
CONSTANTS
  Procs = {p1, p2, p3}
  NoKey = NoKey
  MayCrash = TRUE
INVARIANTS OneKey
PROPERTIES EveryCallEnds
CHECK_DEADLOCK FALSE
