SPECIFICATION Spec
CONSTANTS
  m1 = m1
  m2 = m2
  e1 = e1
  e2 = e2
  c1 = c1
  c2 = c2
  c3 = c3
  None = None
  Machines = {m1, m2}
  Entries = {e1, e2}
  MachineOf <- Owners
  Ids = {c1, c2, c3}
  Holders <- OwnTokens
  Tasks = {t1, t2}
  FirstHost = 2
  MaxHost = 3
  HostBound = 4
  Tunnelled = {e1}
  Events = {"lost", "wgfails"}
SYMMETRY Alike
INVARIANTS
  TypeOK
  OneMachinePerAddress
  TunnelsAgree
