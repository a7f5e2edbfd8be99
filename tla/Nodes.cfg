SPECIFICATION Spec
CONSTANTS
  None = None
  AttIds = {i1, i2}
  Groups = {g1}
  Tasks = {k1, k2}
  Ports = {p1, p2}
  Ttys = {t1}
  Raws = {r1, r2}
  i1 = i1
  i2 = i2
  k1 = k1
  k2 = k2
  p1 = p1
  p2 = p2
  r1 = r1
  r2 = r2
  t1 = t1
  MaxAttaches = 3
  MaxCrashes = 2
SYMMETRY Symmetry
INVARIANTS
  TypeOK
  LiveNodesAgree
PROPERTIES
  NodesStay
