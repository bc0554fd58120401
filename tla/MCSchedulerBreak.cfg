SPECIFICATION FairSpec
CONSTANTS
  MaxTasks = 1
  Priorities <- MCOnePriority
  MaxHandle = 1
  MaxCount = 1
  FrameCycles = 2
  Quantum = 2
  MaxDelay = 1
  AudioLimit = 1
  AsyncPlayer = FALSE
  GuestMayBreak = TRUE
  UnknownPolicy = "skip"
CHECK_DEADLOCK FALSE
PROPERTIES
  FrameEnds
