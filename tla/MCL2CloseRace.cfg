SPECIFICATION Spec
CONSTANTS
  Keys = {k1}
  Procs = {p1, p2}
  QueueCap = 1
  BatchSize = 2
  MaxWrites = 3
  NoWrite = NoWrite
CHECK_DEADLOCK FALSE
INVARIANT NoEntryLost
