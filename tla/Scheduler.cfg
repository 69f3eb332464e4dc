CONSTANTS
  Replicas = {r1, r2}
  Jobs = {j1}
  Singletons = {j1}
  Manual = {m1}
  Tick = Tick
  NoHolder = NoHolder
SPECIFICATION Spec
INVARIANTS SingleFlight SingletonRunsOnce NoLockLeftBehind DrainedIsQuiet
PROPERTY RunReturns
CHECK_DEADLOCK FALSE
