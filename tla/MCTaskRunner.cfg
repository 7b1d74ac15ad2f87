SPECIFICATION FairSpec
CONSTANTS
  Tasks = {k1, k2}
  Threads = {w1, w2}
  Callers = {c1}
  MaxWorkers = 1
  MayClose = TRUE
  None = None
CHECK_DEADLOCK FALSE
INVARIANTS
  SlotsConserved
  WaitedTaskIsKept
PROPERTIES
  FinalStatusSticks
  EveryTaskEnds
  SlotsComeBack
