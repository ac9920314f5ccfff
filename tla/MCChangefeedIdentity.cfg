\* One exporter whose process started before identity.json was edited.
CONSTANTS
  Hosts = {h1}
  Origin = h1
  Captures = {x}
  MaxIdentity = 2
  Consumers = {c1}
  Policies = {text}
  Dirs = {d1}
  Exporters = {p1}
  Limits = {3}
  Bytes <- UnitBytes
  MaxMemberBytes = 2
  MaxCaptures = 2
  MaxFailures = 1
  None = None
  Destinations = {}
  Confirmers = {}
  Receivers = {}
SPECIFICATION SafeSpec
CHECK_DEADLOCK FALSE
PROPERTIES MappingStored
