CONSTANTS
  Rows = {r1}
  Sheets = {s1}
  Jobs = {j1}
  Writers = {w1}
  Managers = {m1}
  NoLink = NoLink
  NoState = NoState
  NoRow = NoRow
  MaxEdits = 1
  MaxVersion = 2
  MaxStamp = 2
  MaxRefs = 1
  MaxPasses = 2
  MaxRowAttempts = 1
  DisableAfter = 1
SPECIFICATION Spec
PROPERTY EventuallyMirrored
CHECK_DEADLOCK FALSE
