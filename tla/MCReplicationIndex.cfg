\* A conflict between a live and a deleted message, resolved on a replica.
CONSTANTS
  Records = {r1}
  Contents = {a, b}
  Tombstones = {b}
  None = None
  Caches = {mac, copy}
  Collector = mac
  Syncers = {p1}
  Faulty = {}
  MaxClock = 3
  MaxRuns = 2
  MaxLocal = 2
SPECIFICATION Spec
CHECK_DEADLOCK FALSE
INVARIANTS IndexRebuilds
