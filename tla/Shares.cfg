SPECIFICATION FairSpec
CONSTANTS
  b1 = b1
  b2 = b2
  x = x
  y = y
  k = k
  None = None
  Busids = {b1, b2}
  Devs = {x}
  Serials = {k}
  SerialOf <- OneSerial
  Clients = {c1, c2}
  Watchdog = w
  Requests = {r}
  InitialPlug <- OneDevice
  MaxRestarts = 1
  Events = {"renumber", "reset", "clients", "restart", "reboot", "killed", "bindfails"}
INVARIANTS
  TypeOK
PROPERTIES
  SharesFollowSerials
  OnlySharedAreBound
  SharedAreBound
  MissingAreFound
  SerialsAreLearnt
  ReturnsArePushed
