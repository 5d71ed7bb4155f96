SPECIFICATION FairSpec
CONSTANTS
  c1 = c1
  k1 = k1
  k2 = k2
  NULL = NULL
  Clients <- MCClients
  GpuOf <- MCGpuOf
  Conns <- MCConns
  GPU_COUNT = 2
  Requests <- MCRequests
  METRICS_ENABLE = "true"
  MAX_SNAPSHOT_CLIENTS = 1
  MAX_SNAPSHOT_CONTEXTS = 1
  BUFFER_SIZE = 14
  LINE <- MCLine
  Pidless = {}
  MAX_CHANGES = 1
  MAX_ROUNDS = 2
  MAX_FAILURES = 1
INVARIANTS OneState WholeSample PageIsPrefix
PROPERTIES NameKept MainProceeds EventuallyAnswered
CHECK_DEADLOCK FALSE
