SPECIFICATION LiveSpec
CONSTANTS
  Staff = {w1}
  Calls = {c1}
  Syncs = {s1}
  Tokens = {t1}
  NoToken = NoToken
  NoSync = NoSync
  Simulator = {"offline"}
  OfflineRule = TRUE
  Texts = {n1}
  Numbered = {n1}
  Relays = {p1, p2}
  Kept = {p1}
  BatchSize = 1
  MaxAttempts = 2
  Handsets = {d1}
  NCodes = 1
  NLocks = 1
  Bought = 0
  Redeemers = {r1}
  Clerks = {k1}
  ClaimTries = 2
  NoHandset = NoHandset
INVARIANT SentOnce
PROPERTIES QueuedCommandSettles UnlockedPhoneIsLetGo ReleaseReachesPhone QueueDrains NoCodeStuck
CHECK_DEADLOCK FALSE
