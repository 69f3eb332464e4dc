CONSTANTS
  Rows = {r1}
  Sheets = {s1, s2}
  Jobs = {j1}
  Writers = {w1}
  Managers = {m1}
  NoLink = NoLink
  NoState = NoState
  NoRow = NoRow
  MaxEdits = 2
  MaxVersion = 2
  MaxStamp = 3
  MaxRefs = 1
  MaxPasses = 1
  MaxRowAttempts = 1
  DisableAfter = 1
SPECIFICATION Safety
SYMMETRY SheetSymmetry
INVARIANTS NoRowMissed CleanMeansMirrored
CHECK_DEADLOCK FALSE
PROPERTY StaleJobSparesLink
