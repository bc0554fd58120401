\* Blocks of one to three instructions: every operation in every form after a
\* few others, every branch with several delay slots, every access at the
\* edges of RAM and of the framebuffer.
SPECIFICATION Spec
CONSTANTS
    Base = 4
    Bits = 8
    And <- MCAnd
    Or <- MCOr
    Xor <- MCXor
    Shl <- MCShl
    Shr <- MCShr
    Sar <- MCSar
    Clz <- MCClz
    Segment = 32
    RamSize = 8
    MapSize = 4
    Aliases <- MCAliases
    GprCount = 4
    JumpRegion = 16
    Blocks <- MCBlocks
    Starts <- MCStarts
    None = None
INVARIANTS
    TypeOK
    ExitAgrees
    AccessAgrees
    CandidateAgrees
\* A block that returned is over.
CHECK_DEADLOCK FALSE
