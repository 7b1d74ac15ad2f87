SPECIFICATION FairSpec
CONSTANTS
  h1 = h1
  h2 = h2
  h3 = h3
  None = None
  HostList <- ThreeHosts
  Workers <- TwoWorkers
  MaxConcurrency = 2
  RetryCount = 1
  HasFactory = TRUE
  Pooled = {h1}
  MayInterrupt = TRUE
INVARIANTS
  ConnectionsBounded
  NothingLeftBehind
  ResultsComplete
PROPERTIES
  RetriedOnlyIfTransient
  ExecuteEnds
