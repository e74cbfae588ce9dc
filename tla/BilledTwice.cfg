SPECIFICATION CounterSpec
CONSTANTS
  Imeis = {i1}
  Admins = {a1}
  Prices = {5}
  DownPayments = {1}
  Takings = {1, 3}
  MaxInstallments = 2
  MaxReschedules = 2
  MaxReceived = 6
INVARIANT BilledInFull
CHECK_DEADLOCK FALSE
