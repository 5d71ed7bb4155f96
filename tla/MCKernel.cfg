SPECIFICATION FairSpec
CONSTANTS
  Threads = {t1, t2}
  CoreLimits = {4, 8, 100}
  KERN_SYNC_WINDOW_MAX = 6
  KERN_WINDOW_MIN_FLOOR = 3
  INT_MAX = 2147483647
  WINDOW_START = 5
  LIMITED_MIN = 2
  LIMITED_MAX = 4
  ABUSE = 1
INVARIANTS
  TypeOK
  PendingBounded
PROPERTIES
  LaunchReturns
  CapReached
