\* One exporter, retried with another batch size or a longer journal.
CONSTANTS
  Hosts = {h1}
  Origin = h1
  Captures = {x}
  MaxIdentity = 1
  Consumers = {c1}
  Policies = {text}
  Dirs = {d1}
  Exporters = {p1}
  Limits = {1, 3}
  Bytes <- UnitBytes
  MaxMemberBytes = 2
  MaxCaptures = 2
  MaxFailures = 1
  None = None
  Destinations = {}
  Confirmers = {}
  Receivers = {}
SPECIFICATION SafeSpec
CHECK_DEADLOCK FALSE
PROPERTIES RetryCommitsPublished
