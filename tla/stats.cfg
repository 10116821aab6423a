SPECIFICATION Spec
CONSTANTS
  Threads = {t1, t2}
  NoThread = NoThread
  Slaves = {s1, s2}
  NoAttempt = NoAttempt
  MaxAttempts = 2
SYMMETRY MCSymmetry
INVARIANTS
  TypeOK
  ResultsAddUp
  EveryAttemptCounted
  SnapshotAddsUp
PROPERTIES
  SnapshotsGrow
  SilenceIsReal
