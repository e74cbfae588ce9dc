SPECIFICATION Spec
CONSTANTS
  N = 1
  Due = 1
  Amounts = {1, 2}
  Targets = {0, 1}
  Payments = {p1, p2}
  Tellers = {t1, t2}
  Rate = 1
  Cap = 1
  Grace = 0
  Warn = 0
  LastDay = 0
SYMMETRY Symmetric
CHECK_DEADLOCK FALSE
INVARIANT MoneyNeverLost
