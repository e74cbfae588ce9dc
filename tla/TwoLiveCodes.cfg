SPECIFICATION EnrolSpec
CONSTANTS
  Handsets = {d1}
  NCodes = 2
  NLocks = 1
  Bought = 1
  Redeemers = {r1}
  Clerks = {k1, k2}
  ClaimTries = 1
  NoHandset = NoHandset
INVARIANT OneLiveCode
CHECK_DEADLOCK FALSE
