SPECIFICATION Spec
CONSTANTS
  s1 = s1
  b1 = b1
  b2 = b2
  k1 = k1
  i1 = i1
  i2 = i2
  s2 = s2
  p1 = p1
  l1 = l1
  l2 = l2
  BusidOf <- RootHub
  None = None
  AttIds = {i1, i2}
  Servers = {s1, s2}
  Busids = {b1}
  Serials = {}
  Groups = {g1}
  CandidateLists <- PrimaryBackup
  Flags <- AnyFlags
  Ports = {p1, p2}
  LocalBusids = {l1, l2}
  Watchdog = w
  Pushes = {push}
  Users = {user}
  BACKOFF_THRESHOLD = 1
  FORCE_REBIND_AFTER_FAILURES = 2
  Environments <- QuietGroups
  FileOrder = {}
  Hanging = {s1, s2}
PROPERTIES
  GroupStaysWanted
