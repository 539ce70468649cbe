CONSTANTS
  c1 = c1
  Clients = {c1, c2, c3}
  Procs = {p1}
  PoolSize = 2
  Outside = {2}
  Statics <- OutsideStatic
  V6 = FALSE
  Reload = FALSE
  LeaseTime = 2
  OfferedHold = 1
  DeclinedHold = 2
  None = none
  GRCountries = {"AA", "BB"}
  GRParallel = 1
  GRVersions = 2
  GRRuns = 3
SPECIFICATION MCSpec
INVARIANTS LeaseTableSound NoSharedAddress 
PROPERTIES DeclinedWithheld 
