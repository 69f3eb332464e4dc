SPECIFICATION Spec
CHECK_DEADLOCK FALSE
CONSTANTS
  Users = {founder, guest}
  Founder = founder
  InviteIds = {i1, i2}
  KeyIds = {k1}
  Callers = {c1, c2}
  None = None
INVARIANTS
  ConsumedHasJoined
  LeaversHoldNoTokens
PROPERTIES
  LastOwnerStays
SYMMETRY Symmetry
