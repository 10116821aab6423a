SPECIFICATION FairSpec
CONSTANTS
  Threads = {t1, t2}
  NoThread = NoThread
  Devices = {d1, d2}
  Requests <- TimelyRequests
  Answers <- TimelyAnswers
  WriteFCs <- MCWriteFCs
  TransceiverType = "max485"
  RetryLimit = 0
  RxCapacity = 3
  AnswersOutliveAttempt = FALSE
  NoCall = NoCall
  NoFrame = NoFrame
  Noise = Noise
INVARIANTS
  RpioBalanced
  CloseIsComplete
  AnswerToThisRequest
PROPERTIES
  PinsMoveOnOpenDevice
  LockFileGoesLast
  ImplementsBus
  EveryCallReturns
