SPECIFICATION Spec
CHECK_DEADLOCK FALSE
CONSTANTS
  Clients = {c1, c2}
  PostIds = {p1, p2}
  Slugs = {a, b}
  Keys = {k1, k2}
  Limit = 1
  MaxVersion = 3
  None = None
INVARIANTS
  OnePostPerKey
  NoKeyStuck
PROPERTIES
  EventsTellChanges
  NoLostUpdate
SYMMETRY Symmetry
