SPECIFICATION Spec
CHECK_DEADLOCK FALSE
CONSTANTS
  Callers = {c1, c2}
  Senders = {s1}
  Ids = {i1, i2, i3}
  Events = {e1}
  MaxEndpoints = 1
  MaxSecrets = 3
  Rekeyed = {c2}
  None = None
INVARIANTS
  HeldSecretsSign
  SecretsOpenTogether
  DeliveredOrGone
  LimitOvershootBounded
SYMMETRY Symmetry
