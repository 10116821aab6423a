SPECIFICATION Spec
CONSTANTS
  Ops = {i1, i2, i3}
  Devices = {d1, d2}
  PoolSize = 2
  RetryLimit = 1
  Free = Free
  NoDevice = NoDevice
SYMMETRY Symmetry
INVARIANTS
  EventLoopNeverWaitsForBus
