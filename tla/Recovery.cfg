SPECIFICATION FairSpec
CONSTANTS
  s1 = s1
  b1 = b1
  b2 = b2
  k1 = k1
  i1 = i1
  i2 = i2
  s2 = s2
  p1 = p1
  l1 = l1
  l2 = l2
  BusidOf <- RootHub
  None = None
  AttIds = {i1}
  Servers = {s1}
  Busids = {b1, b2}
  Serials = {k1}
  Groups = {}
  CandidateLists <- NoCandidates
  Flags <- AnyFlags
  Ports = {p1}
  LocalBusids = {l1}
  Watchdog = w
  Pushes = {push}
  Users = {user}
  BACKOFF_THRESHOLD = 1
  FORCE_REBIND_AFTER_FAILURES = 2
  Environments <- HardTimes
  FileOrder = {}
  Hanging = {}
INVARIANTS
  LiveRecordHasItsDevice
PROPERTIES
  RecordsComeBack
