SPECIFICATION Spec
CONSTANTS
  MaxTasks = 2
  Priorities <- MCPriorities
  MaxHandle = 1
  MaxCount = 1
  FrameCycles = 4
  Quantum = 2
  MaxDelay = 1
  AudioLimit = 1
  AsyncPlayer = FALSE
  GuestMayBreak = FALSE
  UnknownPolicy = "skip"
CHECK_DEADLOCK FALSE
PROPERTIES
  PostReachesLiveWaiter
