CONSTANTS
  t1 = t1
  t2 = t2
  b1 = b1
  b2 = b2
  b3 = b3
  Threads = {t1, t2}
  Buffers = {b1, b2, b3}
  Sizes = {0, 2}
  MaxAddress = 4
  MaxAllocs = 3
SPECIFICATION Spec
SYMMETRY Symmetry
INVARIANT LookupFindsOwner
INVARIANT LookupRejectsTheRest
INVARIANT ReferencesAddUp
INVARIANT StatsAgree
CHECK_DEADLOCK FALSE
