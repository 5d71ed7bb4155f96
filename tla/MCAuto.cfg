SPECIFICATION Spec
CONSTANTS
  Clients = {c1, c2}
  GPUs = {g}
  NULL = NULL
  MemSizes = {1, 3}
  SOCK_BUF = 8
  MAX_UNREAD = 1
  MODE = "AUTO"
  TOTAL_MEMORY = 2
  MEMORY_RESERVE_PERCENT = 0
  CARRYOVER = FALSE
  Limited = {}
  TQ_FIRES = FALSE
  EPOLL_MAX_EVENTS = 1
  GarbageMem = {0}
  GarbageRunning = {FALSE}
  SIGPIPE_FATAL = FALSE
  STACK_LIMIT = 12
  MAX_CTL = 0
  Threads = {t}
  NVML_OK = FALSE
  MAX_EXITS = 0
  MAX_REPORTS = 2
SYMMETRY Symmetry
INVARIANTS
  TypeOK
  MemoryAccounted
  SharedWithinLimit
PROPERTIES
  OverloadIsSerial
