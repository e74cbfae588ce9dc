SPECIFICATION Spec
CONSTANTS
  Staff = {w1}
  Calls = {c1}
  Syncs = {s1}
  Tokens = {t1}
  NoToken = NoToken
  NoSync = NoSync
  Simulator = {}
  OfflineRule = FALSE
PROPERTY LockedMeansApplied
