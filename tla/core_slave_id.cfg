SPECIFICATION Spec
CONSTANTS
  Threads = {t1, t2}
  NoThread = NoThread
  Devices = {d1}
  Requests <- ReadRequests
  Answers <- ReadAnswers
  WriteFCs <- MCWriteFCs
  TransceiverType = "isl43485"
  RetryLimit = 0
  RxCapacity = 2
  AnswersOutliveAttempt = TRUE
  NoCall = NoCall
  NoFrame = NoFrame
  Noise = Noise
SYMMETRY ThreadSymmetry
INVARIANTS
  AnswerFromAddressedSlave
