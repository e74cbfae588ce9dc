SPECIFICATION LocSpec
CONSTANTS
  ServerTests = FALSE
  Reports = {r1}
  Askers = {o1}
INVARIANT ToldPhoneTries
CHECK_DEADLOCK FALSE
