SPECIFICATION FairSpec
CONSTANTS
  o1 = o1
  o2 = o2
  o3 = o3
  p1 = p1
  p2 = p2
  Openers <- MCOpeners
  Pids <- MCPids
  Pid <- MCPid
  NoFile = NoFile
  NoPid = NoPid
  DeadSignalError = "ErrProcessDone"
  AcquisitionsOverlap = FALSE
  DiskMayBeFull = FALSE
  MaxAttempts = 2
INVARIANTS
  TypeOK
  ExclusiveLock
PROPERTIES
  ImplementsExclusivePort
  AcquireReturns
