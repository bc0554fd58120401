SPECIFICATION Spec
CONSTANTS
  MaxTasks = 2
  Priorities <- MCPriorities
  MaxHandle = 1
  MaxCount = 1
  FrameCycles = 3
  Quantum = 2
  MaxDelay = 2
  AudioLimit = 1
  AsyncPlayer = FALSE
  GuestMayBreak = TRUE
  UnknownPolicy = "skip"
CHECK_DEADLOCK FALSE
INVARIANTS
  TypeOK
  NoLostWakeup
  IdleOnlyWhenBlocked
  FrameAccounting
  ActiveNeverWaits
  DeferredWriteRetried
PROPERTIES
  SemWaitEndsByPost

