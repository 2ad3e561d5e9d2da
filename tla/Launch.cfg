CONSTANTS
  a = a
  b = b
  good = good
  bad = bad
  Threads = {t1, t2}
  Ops = {a, b}
  Keys = {good, bad}
  KeyOf <- Derive
  Broken = {bad}
  Graphs = {g1, g2}
  Nothing = Nothing
  MaxBuffers = 2
  MaxCopies = 1
  MaxSessions = 2
SPECIFICATION Spec
SYMMETRY Symmetry
INVARIANT RunsPublishedGraph
INVARIANT NoGraphLost
INVARIANT InOneProfile
INVARIANT ProfileIsComplete
INVARIANT EventsKeepTheirNames
PROPERTY PublishedStays
CHECK_DEADLOCK FALSE
