CONSTANTS
  c1 = c1
  Clients = {c1, c2}
  Procs = {p1, p2}
  PoolSize = 1
  Outside = {}
  Statics <- NoStatics
  V6 = FALSE
  Reload = FALSE
  LeaseTime = 1
  OfferedHold = 1
  DeclinedHold = 2
  None = none
SPECIFICATION Spec
INVARIANTS NoSharedAddress
