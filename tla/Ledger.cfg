SPECIFICATION MoneySpec
CONSTANTS
  N = 2
  Due = 2
  Amounts = {1, 3}
  Targets = {0, 2}
  Payments = {p1, p2}
  Tellers = {t1, t2}
  Rate = 1
  Cap = 2
  Grace = 0
  Warn = 1
  LastDay = 3
  Registers = {v1}
  Jobs = {y1, y2}
  References = {x1, x2}
  NoReference = NoReference
  MaxClaims = 1
  MaxOpenings = 1
SYMMETRY Symmetric
INVARIANT TypeOK
INVARIANT RowsInOrder
INVARIANT CompletedIsReleased
INVARIANT PhoneFollowsPlan
INVARIANT TotalsHonest
INVARIANT MoneyKept
INVARIANT PrincipalBacked
INVARIANT NoDoubleCharge
INVARIANT TillInOrder
PROPERTY ReleasedOnlyWhenPaid
CHECK_DEADLOCK FALSE
