\* Fair exporters, uploader and confirmer; one failure of any kind.
CONSTANTS
  Hosts = {h1}
  Origin = h1
  Captures = {x}
  MaxIdentity = 1
  Consumers = {c1}
  Policies = {text}
  Dirs = {d1}
  Exporters = {p1, p2}
  Limits = {1, 3}
  Bytes <- UnitBytes
  MaxMemberBytes = 2
  MaxCaptures = 2
  MaxFailures = 1
  None = None
  Destinations = {d1}
  Confirmers = {q1}
  Receivers = {}
SPECIFICATION Spec
CHECK_DEADLOCK FALSE
PROPERTIES EveryCaptureExported EveryCaptureDelivered
