SPECIFICATION FairSpec
CONSTANTS
  Clients <- MCClients
  CORE_LIMIT <- MCCoreLimit
  c1 = c1
  c2 = c2
  u = u
  COMPUTE_WINDOW_MS = 6
  SAMPLE_INTERVAL_MS = 3
  CARRYOVER_PERCENT = 75
  DROP_TAIL_PERCENT = 70
  MIN_SLEEP_MS = 2
  SWITCH_TIME_MS = 5
  MIN_SWITCH_MS = 4
  MAX_SWITCH_MS = 12
  MemGB = {0, 2}
  LATENCY = 1
  MAX_TAIL = 2
INVARIANTS
  TypeOK
  SleepWithinWindow
  OvershootBounded
  BilledOnce
PROPERTIES
  EventuallyRuns
