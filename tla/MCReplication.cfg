\* A collector and a replica, one record with two contents, a row that may fail
\* to extract, local writes, conflicts and purges.
CONSTANTS
  Records = {r1}
  Contents = {a, b}
  Tombstones = {}
  None = None
  Caches = {mac, copy}
  Collector = mac
  Syncers = {p1}
  Faulty = {r1}
  MaxClock = 4
  MaxRuns = 2
  MaxLocal = 2
SPECIFICATION Spec
SYMMETRY ContentSymmetry
CHECK_DEADLOCK FALSE
INVARIANTS TypeOK FreshnessWitnessed HeadIsMostRecent TranslationCoherent ReplayNeverBlocked ReplicaConverges
PROPERTIES LocalEditsSurvive CheckpointMatchesSnapshot
