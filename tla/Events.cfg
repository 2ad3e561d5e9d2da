CONSTANTS
  s1 = s1
  s2 = s2
  e1 = e1
  t1 = t1
  t2 = t2
  Streams = {s1, s2}
  Events = {e1}
  Threads = {t1, t2}
  Nothing = Nothing
  MaxBuffers = 2
  MaxClock = 3
  MaxRecords = 2
  NilBuffers = {s2}
  Failures = FALSE
SPECIFICATION FairSpec
INVARIANT PlacesMatchNumbers
INVARIANT DependenciesPointBack
INVARIANT WaitSeesItsRecord
INVARIANT CompleteMeansReached
INVARIANT NothingStalls
PROPERTY EveryBufferRuns
PROPERTY AHostIsUnblocked
CHECK_DEADLOCK FALSE
