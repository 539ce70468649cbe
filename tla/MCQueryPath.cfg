SPECIFICATION MCSpec
CONSTANTS
  Queries = {q1, q2}
  Slots = 1
  Refresher = refresher
  MayPanic = TRUE
  None = none
  CLConns = {c1, c2, c3}
  CLIPs = {"i1", "i2"}
  CLMax = 2
  CLSwaps = 1
  HSCalls = 3
  HSClients = {i1}
  CIThreads = {"t1", "t2"}
  CIClients = {"r1", "r2", "r3", "r4"}
  CIForged = {"r2"}
  CIProxies = {"p1"}
  CIASN <- CIASNDef
  CIConfigs <- CIConfigsDef
  CIMaxCache = 1
  CIQueries = 5
  FWUps = 3
  FWBudget = 6
  RCClients = {"c1", "c2"}
  RCHosts = {"h"}
  RCMaxDepth = 2
  RCMaxHops = 2
  RCMaxCNAME = 1
INVARIANTS ForwardSound RaceGoesOn RecursionSound RepliesSound SettingsSound IdentitySound ConnCapsHold
PROPERTIES QueriesEnd RefusedOnlyAtCap
