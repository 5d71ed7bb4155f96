SPECIFICATION Spec
CONSTANTS
  Clients = {c1, c2}
  GPUs = {g}
  NULL = NULL
  MemSizes = {}
  SOCK_BUF = 8
  MAX_UNREAD = 2
  MODE = "SERIAL"
  TOTAL_MEMORY = 2
  MEMORY_RESERVE_PERCENT = 0
  CARRYOVER = FALSE
  Limited = {}
  TQ_FIRES = TRUE
  EPOLL_MAX_EVENTS = 2
  GarbageMem = {0}
  GarbageRunning = {FALSE}
  SIGPIPE_FATAL = FALSE
  STACK_LIMIT = 12
  MAX_CTL = 2
  Threads = {t}
  NVML_OK = FALSE
  MAX_EXITS = 0
  MAX_REPORTS = 0
INVARIANTS
  HeldBySomebody
