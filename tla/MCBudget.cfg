SPECIFICATION FairSpec
CONSTANTS
  t1 = t1
  t2 = t2
  a1 = a1
  a2 = a2
  a3 = a3
  p1 = p1
  none = none
  Sync = {t1, t2}
  Async = {a1, a2, a3}
  Pools = {p1}
  NoPool = none
  PoolOf <- MCPoolOf
  MaxConnections = 2
  HasTimeout = TRUE
  AbruptLoops = {a2}
INVARIANTS
  TypeOK
  ExactAccounting
  NoIdleCapacity
  QueueIsClean
  NoLostWakeup
PROPERTIES
  IsFairSemaphore
  EveryWaiterIsServed
