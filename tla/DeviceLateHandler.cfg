CONSTANTS
  t1 = t1
  t2 = t2
  s1 = s1
  s2 = s2
  Threads = {t1, t2}
  Streams = {s1, s2}
  NoStream = NoStream
  NoThread = NoThread
  MaxEnqueued = 1
  Failing = {s1}
  NilBuffers = FALSE
SPECIFICATION Spec
INVARIANT HandlerTouchesNoDeleted
CHECK_DEADLOCK FALSE
