SPECIFICATION FairSpec
CONSTANTS
  c1 = c1
  c2 = c2
  p1 = p1
  p2 = p2
  Clients <- MCClients
  Pods <- MCPods
  PodOf <- MCPodOf
  MemTexts <- MCMemTexts
  CoreTexts <- MCCoreTexts
  Manifests <- MCManifests
  EnvLimits <- MCEnvLimits
  MAX_ALLOCATIONS = 3
  Sizes <- MCSizes
  NULL = NULL
  KIBI = 3
  KILO = 2
  TOTAL = 9
  RESERVE = 1
  ENABLE_SINGLE_OVERSUB = FALSE
  GarbagePods <- MCGarbagePods
  GarbageLimits = {3}
  GarbageCores = {0, 100}
  SOCK_BUF = 3
  MAX_EDITS = 1
  MAX_FAILURES = 1
INVARIANTS
  LimitsAgree
  OwnPod
PROPERTIES
  CoreFollows
  MemoryEnforced
