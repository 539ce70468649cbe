SPECIFICATION MCSpec
CONSTANTS
  c1 = c1
  Clients = {c1, c2}
  Procs = {p1}
  PoolSize = 1
  Outside = {}
  Statics <- ChangingStatics
  V6 = TRUE
  Reload = TRUE
  LeaseTime = 1
  OfferedHold = 1
  DeclinedHold = 2
  None = none
  FLLists = {"x", "y"}
  FLRefreshers = {"r1"}
  FLRegexEntry = FALSE
  FLEdits = 2
  FLFetches = 1
  QWIds = 4
  QWDomain <- QWDomainDef
  QWBlocked = {2, 3}
  QWPage = 1
  QWScan = 3
  QWTop = 1
  QWWalks = 2
  QWLimits = {1, 2}
  QWOffsets = {0, 1}
  QWSinces = {1, 2}
  DARequests = {l1, l2}
  DAClients = {"c1", "c2"}
  DAMaxFailures = 2
  DAWindow = 1
  DALockout = 1
  DAGuardIdle = 1
  DAShard = 1
  DATime = 2
  DAPause = 1
  DAChanges = 1
  ALCalls = {a1, a2}
  ALClients = {"c1", "c2"}
  ALCost = 2
  ALBurst = 2
  ALRate = 1
  ALIdle = 4
  ALShard = 1
  ALPause = 1
  ALTime = 5
CHECK_DEADLOCK FALSE
INVARIANTS PtrFollowsTable  WalkSound AuthSound APISound
