SPECIFICATION FairSpec
CONSTANTS
  None = None
  Read = Read
  Raising = Raising
  Missing = Missing
  Broken = Broken
  Callers = {c1, c2}
  Fields = {f1, f2}
  Values = {v0, v1}
  f1 = f1
  f2 = f2
  v0 = v0
  v1 = v1
  Defaults <- DefaultsValue
  Updates <- UpdatesValue
INVARIANTS
  TypeOK
  TempsAreGone
PROPERTIES
  Durable
  LockIsReleased
