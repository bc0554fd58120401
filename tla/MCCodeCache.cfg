SPECIFICATION Spec
CONSTANTS
    N = 6
    Hooks = {4}
    Entry = 0
    InitCheck = 3
    Return = 5
    Image <- MCImage
    Targets = {0, 3, 4}
    Stores = {1}
    Patched = {1}
    NewKinds = {"memory", "branch"}
    Slots = 2
    FastSlots = 1
    MaxBlockLen = 3
    MinCompiledLen = 2
    HotThreshold = 1
    MaxEntries = 2
    MaxZeroExits = 2
    MaxCompiles = 1
    Quantum = 3
    None = None
INVARIANTS
    TypeOK
    CachesAgree
    Coherent
    NothingSkipped
PROPERTIES
    FrameEnds
