SPECIFICATION Spec
CONSTANTS
  MaxTasks = 1
  Priorities <- MCOnePriority
  MaxHandle = 1
  MaxCount = 1
  FrameCycles = 2
  Quantum = 2
  MaxDelay = 1
  AudioLimit = 1
  AsyncPlayer = FALSE
  GuestMayBreak = FALSE
  UnknownPolicy = "stop"
CHECK_DEADLOCK FALSE
INVARIANTS
  UnknownPolicyEverywhere
