CONSTANTS
  t1 = t1
  t2 = t2
  s1 = s1
  s2 = s2
  Threads = {t1, t2}
  Streams = {s1, s2}
  NoStream = NoStream
  NoThread = NoThread
  MaxEnqueued = 2
  Failing = {s1}
  NilBuffers = TRUE
SPECIFICATION FairSpec
INVARIANT SyncCopySeesEarlierWork
INVARIANT DeletedIsDrained
INVARIANT ListedStreamsExist
PROPERTY DrainsEnd
CHECK_DEADLOCK FALSE
