SPECIFICATION Spec
CONSTANTS
  N = 2
  Due = 2
  Amounts = {1, 2}
  Targets = {0, 1, 2}
  Payments = {p1, p2}
  Tellers = {t1}
  Rate = 1
  Cap = 1
  Grace = 0
  Warn = 1
  LastDay = 2
SYMMETRY Symmetric
PROPERTY LockedForDebt
CHECK_DEADLOCK FALSE
