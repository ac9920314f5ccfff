\* One cache, two racing exporters of one consumer, two racing confirmers,
\* identity edits.
CONSTANTS
  Hosts = {h1}
  Origin = h1
  Captures = {x}
  MaxIdentity = 2
  Consumers = {c1}
  Policies = {text}
  Dirs = {d1}
  Exporters = {p1, p2}
  Limits = {1, 3}
  Bytes <- UnitBytes
  MaxMemberBytes = 2
  MaxCaptures = 2
  MaxFailures = 1
  None = None
  Destinations = {d1}
  Confirmers = {q1, q2}
  Receivers = {}
SPECIFICATION SafeSpec
CHECK_DEADLOCK FALSE
INVARIANTS TypeOK ExportedExactlyOnce ParentLinked ProofsArePrefix
PROPERTIES ImmutablePublication
