SPECIFICATION FairSpec
CONSTANTS
  b1 = b1
  b2 = b2
  x = x
  y = y
  k = k
  None = None
  Busids = {b1, b2, b3}
  Devs = {x, y}
  Serials = {k}
  SerialOf <- OneSerial
  Clients = {}
  Watchdog = w
  Requests = {r}
  InitialPlug <- TwoDevices
  MaxRestarts = 0
  Events = {"renumber"}
PROPERTIES
  SharesFollowDevices
