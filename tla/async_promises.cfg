SPECIFICATION FairSpec
CONSTANTS
  Ops = {i1, i2, i3}
  Devices = {d1}
  PoolSize = 2
  RetryLimit = 1
  Free = Free
  NoDevice = NoDevice
INVARIANTS
  TypeOK
  ClosedDeviceIsQuiet
  OpenDeviceIsReachable
PROPERTIES
  EveryPromiseSettles
  EventLoopResumes
