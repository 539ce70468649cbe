CONSTANTS
  prefix = prefix
  Clients = {c1, c2}
  Prefixes = {prefix}
  PrefixOf <- OnePrefix
  Names = {n, trap}
  Honeypots = {trap}
  Queries = {q1, q2}
  MaxPerShard = 1
  IdleEvict = 0
  Burst = 1
  AutoBlock = TRUE
  BlockAfter = 2
  BlockFor = 1
  NXThreshold = 1
  NXWindow = 1
  NXBlockFor = 1
  RQThreshold = 2
  RQWindow = 1
  RQBlockFor = 1
  RQUDPBlockFor = 1
  HoneypotUDPBlock = 1
  MaxTime = 3
  None = None
SPECIFICATION Spec
SYMMETRY Symmetry
INVARIANTS LimitsHold FloodContained
PROPERTIES BlockKept
