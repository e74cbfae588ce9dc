SPECIFICATION AllSpec
CONSTANTS
  Staff = {w1}
  Calls = {c1}
  Syncs = {s1, s2}
  Tokens = {t1, t2}
  NoToken = NoToken
  NoSync = NoSync
  Simulator = {"offline", "online", "reboot", "scan"}
  OfflineRule = TRUE
  Handsets = {d1, d2}
  NCodes = 2
  NLocks = 1
  Bought = 1
  Redeemers = {r1, r2}
  Clerks = {k1}
  ClaimTries = 1
  NoHandset = NoHandset
  Boxes = {b5, b6}
  Spellings = {c1, c2}
  PackSizes = {n5, n9}
  NoOrder = NoOrder
  Applicants = {w5}
  Offices = {a5, a6}
  EveryShop = EveryShop
  PackIds = {1, 2, 3}
  Slips = {1, 2}
SYMMETRY Interchangeable
INVARIANTS TypeOK CommandMatchesStatus NothingLocksUnsigned ManagedIsPaidFor CodeWorksOnce OrdersInOrder
PROPERTIES HandedBackStaysFree KeepsPromise
