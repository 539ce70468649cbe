SPECIFICATION MCSpec
CONSTANTS
  Cap = 1
  L1Keys = {k1, k2}
  L1Procs = {p1, p2}
  TTLs = {1}
  StaleTTL = 0
  MaxTime = 1
  MaxSets = 4
  NoProc = NoProc
  Absent = Absent
  Keys = {k1}
  Procs = {p1, p2}
  QueueCap = 1
  BatchSize = 2
  MaxWrites = 3
  NoWrite = NoWrite
CHECK_DEADLOCK FALSE
INVARIANTS ShardSound WriterSound
PROPERTIES EvictionTerminates WriterProgress
