CONSTANTS
  Messages = {m1, m2}
  Malformed = {m2}
  Consumers = {k1, k2}
  NoMessage = NoMessage
  MaxAttempts = 2
  MaxAckPending = 1
  Slow = {}
SPECIFICATION Spec
INVARIANT OneInstanceAtATime
PROPERTY EventuallySettled
CHECK_DEADLOCK FALSE
