CONSTANTS
  Entries = {e1, e2}
  Dispatchers = {d1, d2}
  MaxAttempts = 2
  Batch = 1
  Concurrency = 1
  MaxRequeues = 1
SPECIFICATION Spec
INVARIANTS ClaimsAreUnique OutcomesAreHonest
PROPERTIES ReaperSparesLiveLease StaleClaimSettlesNothing KeepsPromise EventuallySettled
CHECK_DEADLOCK FALSE
