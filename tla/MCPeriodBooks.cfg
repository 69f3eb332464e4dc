CONSTANTS
  Clients = {c1, c2}
  Txs = {t1}
  Amounts = {1, 2}
  MaxPeriods = 3
  MaxDay = 2
  MaxClosings = 2
  NoRow = NoRow
SPECIFICATION Spec
SYMMETRY Symmetry
INVARIANT PeriodsTile
PROPERTIES CloseIsExact OnlyOvertakenChangeClosed
CHECK_DEADLOCK FALSE
