CONSTANTS
  Transports <- AllTransports
  Queries = {x1, x2}
  Probes = {x2}
  Conns = {1, 2, 3}
  PoolSize = 1
  MaxIdle = 0
  OpenFails = 2
  MinCooldown = 1
  MaxCooldown = 1
  None = 0
SPECIFICATION FairSpec
INVARIANTS ConnsSound
PROPERTIES CircuitRearms
