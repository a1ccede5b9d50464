CONSTANTS
  Tag = {t1}
  Dispatcher = {d1, d2}
  Request = {r1}
  Overlap = 2
  ReadLimit = 3
  Timeout = 4
  MaxRows = 2
  MaxTick = 4
  Absent = Absent
\* The bounds of time and of dispatches are used up.
CHECK_DEADLOCK FALSE
SPECIFICATION InvalidationSpec
INVARIANT NothingStaysStale
