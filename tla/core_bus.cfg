SPECIFICATION Spec
CONSTANTS
  Threads = {t1, t2}
  NoThread = NoThread
  Devices = {d1}
  Requests <- WriteRequests
  Answers <- WriteAnswers
  WriteFCs <- MCWriteFCs
  TransceiverType = "isl43485"
  RetryLimit = 1
  RxCapacity = 1
  AnswersOutliveAttempt = TRUE
  NoCall = NoCall
  NoFrame = NoFrame
  Noise = Noise
SYMMETRY ThreadSymmetry
INVARIANTS
  AckedWriteWasExecuted
  TypeOK
  MutualExclusion
  NeverShutdown
  DriverOwned
  RetryDiscipline
PROPERTIES
  CallsRunDown
