SPECIFICATION FairSpec
CONSTANTS
  N = 2
  MaxRuns = 2
  MaxCrashes = 2
  None = None
  Empty = Empty
  Remote <- MCRemote
INVARIANTS LifecycleTypeOK IpsCurrent FilesKeptWhileNeeded ShutdownNotLost StopOnlyAfterAll ResultsKept
PROPERTY AllStop
CHECK_DEADLOCK FALSE
