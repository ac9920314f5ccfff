\* A cache and a copy of it, one output directory, one receiver.
CONSTANTS
  Hosts = {h1, h2}
  Origin = h1
  Captures = {x, y}
  MaxIdentity = 1
  Consumers = {c1}
  Policies = {text, media}
  Dirs = {d1}
  Exporters = {p1}
  Limits = {2}
  Bytes <- UnitBytes
  MaxMemberBytes = 3
  MaxCaptures = 2
  MaxFailures = 1
  None = None
  Destinations = {}
  Confirmers = {}
  Receivers = {r1}
SPECIFICATION SafeSpec
CHECK_DEADLOCK FALSE
INVARIANTS FaithfulBatches CommittedFileKept OneHistory CommittedPrefixHeld
PROPERTIES ImplementsLog
