SPECIFICATION FairSpec
CONSTANTS
  VisibleDevices = "/var/run/nvidia-container-devices"
  MountedUUIDs = {g, h}
  NvidiaExposeMountDir = "/var/run/nvidia-container-devices"
  NvshareVirtualDevices = 2
  MAX_CONTAINERS = 2
  MAX_SIZE = 2
  MAX_KUBELET = 1
  MAX_SIGNALS = 1
  MAX_FAULTS = 1
INVARIANTS
  IdleServed
  SharersBounded
PROPERTIES
  LeastLoadedFirst
  EventuallyServed
  TermEnds
