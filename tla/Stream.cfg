CONSTANTS
  t1 = t1
  t2 = t2
  NoThread = NoThread
  Threads = {t1, t2}
  MaxEnqueued = 3
  NilBuffers = FALSE
  MpsSplits = FALSE
  Failures = TRUE
  Synchronous = TRUE
SPECIFICATION FairSpec
INVARIANT SerialExecution
INVARIANT DrainedIsDone
INVARIANT SynchronousGraphIsDone
PROPERTY DrainReturns
PROPERTY EveryNumberIsSignalled
PROPERTY FailureIsReported
PROPERTY ImplementsOrder
