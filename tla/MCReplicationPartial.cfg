\* A row whose extraction fails after it was captured.
CONSTANTS
  Records = {r1}
  Contents = {a, b}
  Tombstones = {}
  None = None
  Caches = {mac}
  Collector = mac
  Syncers = {p1}
  Faulty = {r1}
  MaxClock = 3
  MaxRuns = 2
  MaxLocal = 0
SPECIFICATION Spec
CHECK_DEADLOCK FALSE
INVARIANTS AbsentMeansGone
