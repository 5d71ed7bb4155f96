SPECIFICATION Spec
CONSTANTS
  Clients = {c1, c2}
  GPUs = {g}
  NULL = NULL
  MemSizes = {}
  SOCK_BUF = 8
  MAX_UNREAD = 1
  MODE = "AUTO"
  TOTAL_MEMORY = 2
  MEMORY_RESERVE_PERCENT = 0
  CARRYOVER = TRUE
  Limited = {c1, c2}
  TQ_FIRES = FALSE
  EPOLL_MAX_EVENTS = 2
  GarbageMem = {0}
  GarbageRunning = {FALSE}
  SIGPIPE_FATAL = TRUE
  STACK_LIMIT = 12
  MAX_CTL = 0
  Threads = {t}
  NVML_OK = FALSE
  MAX_EXITS = 1
  MAX_REPORTS = 0
SYMMETRY Symmetry
INVARIANTS
  RequestConserved
  WorkConserving
  DropOutstanding
  QueuedOnce
  BacklogBounded
CHECK_DEADLOCK FALSE
