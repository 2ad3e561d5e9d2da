CONSTANTS
  t1 = t1
  t2 = t2
  NoThread = NoThread
  Threads = {t1, t2}
  MaxEnqueued = 3
  NilBuffers = TRUE
  MpsSplits = TRUE
  Failures = TRUE
  Synchronous = FALSE
SPECIFICATION Spec
INVARIANT CommitOrder
INVARIANT NothingWedges
PROPERTY SignalsInOrder
