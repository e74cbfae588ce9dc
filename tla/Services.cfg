SPECIFICATION ServicesSpec
CONSTANTS
  Terms = {a, b}
  Policies <- TestedPolicies
  Versions = {0, 2}
  Signers = {s1}
  Skews = {0, 1}
  Horizon = 2
  Due = 0
  Grace = 1
  Apps = {x}
  Accounts = {g}
  Threads = {t1, t2}
  Levels = {0, 1, 2}
  NoAccount = NoAccount
  ServerTests = TRUE
  Reports = {r1}
  Askers = {o1}
  People = {p1, p2}
  Requests = {q1, q2}
  MaxFailed = 2
  Imeis = {i1}
  Admins = {a1}
  Prices = {5}
  DownPayments = {0, 1}
  Takings = {1, 3}
  MaxInstallments = 2
  MaxReschedules = 2
  MaxReceived = 6
  Filters = {f1, f2}
  Searches = {h1, h2}
  PageSizes = {z1, z2}
  MaxPages = 2
  MaxInFlight = 2
  Rows = {w1, w2, w3}
  CHUNK_SIZE = 1
  MAX_CHUNKS = 3
  Windows = {b1, b2}
  Supers = {su}
  Owners = {ow}
  Shops = {d1, d2}
  Nobody = Nobody
  NoShop = NoShop
  Kinds = {"customer", "device", "settings"}
  Editors = {e1, e2}
  Subjects = {j1, j2}
  NoSubject = NoSubject
  Plain = {n1, n2}
  Identities = {m1, m2, m3}
  MaxLoads = 2
  MaxSaves = 2
  MaxReloads = 1
  Sellers = {l1, l2}
  Buyers = {u1, u2}
  Handsets = {h3, h4}
  Untyped = Untyped
  MaxPresses = 2
INVARIANTS ServicesTypeOK PowersOnPaper StagesInOrder SomeoneCanManage BlockedInTime NeverUnderBilled ScreenIsCurrent ExportLosesNothing EditsWereSwitchedOn SoldOnce
PROPERTIES NoSoonerThanSigned SavedAsMeant DeskMeansIt
CHECK_DEADLOCK FALSE
