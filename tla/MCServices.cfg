SPECIFICATION MCSpec
CONSTANTS
  UDPWorkers = {w1, w2}
  UDPQueue = 2
  UDPBatch = 2
  UDPDatagrams = 3
  LSCallers = {"reload", "tls"}
  LSProtos <- LSProtosDef
  LSResults = 1
  LSRestarts = 2
  QLQueue = 1
  QLBatch = 2
  QLMaxLen = 2
  QLWindow = 2
  QLDay = 2
  QLHours = 1
  QLRecords = 3
  QLClears = 1
CHECK_DEADLOCK FALSE
INVARIANTS UDPSound ListenersSound LogSound
PROPERTIES ServicesEnd
