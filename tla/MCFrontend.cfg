SPECIFICATION Spec
CONSTANTS
    A = A
    B = B
    Buttons = {A, B}
    Priority <- MCPriority
    MaxWindows = 2
    None = None
INVARIANTS
    TypeOK
    OptionsInForce
    KeyMessagesAlternate
    PointersStable
