SPECIFICATION Spec
CONSTANTS
  o1 = o1
  o2 = o2
  o3 = o3
  p1 = p1
  p2 = p2
  Openers <- MCOpeners
  Pids <- MCPids
  Pid <- MCPid
  NoFile = NoFile
  NoPid = NoPid
  DeadSignalError = "ErrProcessDone"
  AcquisitionsOverlap = TRUE
  DiskMayBeFull = FALSE
  MaxAttempts = 2
INVARIANTS
  ExclusiveLock
