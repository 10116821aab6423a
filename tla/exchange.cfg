SPECIFICATION Spec
CHECK_DEADLOCK FALSE
CONSTANTS
  Jobs <- MCJobs
  Slaves = {1}
  Bit <- MCBit
  Register <- MCRegister
  SentBit <- MCSentBit
  SentRegister <- MCSentRegister
INVARIANTS
  TypeOK
  ReadDeliversSlaveValues
  WriteReachesMemory
  WholeAnswerIsUsed
  ToolPinsAreSafe
