SPECIFICATION MCSpec
CONSTANTS
  CPAdmins = {"r1", "r2"}
  CPAccounts = {"a", "b"}
  CPPuts = 2
  CPEvents = 1
  CPEdits = 1
  CRBoots = 2
  UPCallers = {"a", "b"}
  UPReleases = 3
  UPInstalls = 4
  IBIPs = {"a", "b", "n"}
  IBAllowed = {"b"}
  IBASN = {"n"}
  IBThreads = {t1, t2}
  IBOps = 3
  GTBits = 3
  GTRanges = 3
  Questions = {q1}
  Procs = {p1, p2}
  TTLs = {0, 2}
  CfgTTL = 1
  CfgNegTTL = 2
  StaleTTL = 1
  MaxTime = 2
  MaxSets = 2
  None = None
CHECK_DEADLOCK FALSE
SYMMETRY Symmetry
INVARIANTS ControlSound RevokedStayRevoked ConfigSound UpdatesSound BannerSound GeoTablesExact LifetimesSound
PROPERTIES InstallsAtomically
