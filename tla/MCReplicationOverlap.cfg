\* Two processes sync one cache at once.
CONSTANTS
  Records = {r1}
  Contents = {a, b}
  Tombstones = {}
  None = None
  Caches = {mac}
  Collector = mac
  Syncers = {p1, p2}
  Faulty = {}
  MaxClock = 3
  MaxRuns = 2
  MaxLocal = 0
SPECIFICATION Spec
CHECK_DEADLOCK FALSE
INVARIANTS HeadIsMostRecent
