SPECIFICATION FairSpec
CONSTANTS
  MaxTasks = 2
  Priorities <- MCOnePriority
  MaxHandle = 1
  MaxCount = 1
  FrameCycles = 3
  Quantum = 2
  MaxDelay = 2
  AudioLimit = 1
  AsyncPlayer = TRUE
  GuestMayBreak = FALSE
  UnknownPolicy = "skip"
CHECK_DEADLOCK FALSE
PROPERTIES
  FrameEnds
  StarvationFree
  DelayEnds
