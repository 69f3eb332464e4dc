SPECIFICATION Spec
CHECK_DEADLOCK FALSE
CONSTANTS
  Clients = {c1, c2}
  WalletIds = {w1, w2}
  TxIds = {t1, t2}
  Names = {a, b}
  Recorded = {"income", "transfer"}
  Amounts = {1}
  MaxAmount = 2
  None = None
PROPERTIES
  BalancesAreMarked
  NamesAreMarked
  AdjustHitsTarget
SYMMETRY Symmetry
