CONSTANTS
  Messages = {m1, m2}
  Malformed = {m2}
  Consumers = {k1, k2}
  NoMessage = NoMessage
  MaxAttempts = 2
  MaxAckPending = 2
  Slow = {m1, m2}
SPECIFICATION Safety
SYMMETRY Symmetry
INVARIANTS NeverLost HandlerRunsBounded DeadLetterHasCause
PROPERTY KeepsPromise
CHECK_DEADLOCK FALSE
