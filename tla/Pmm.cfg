CONSTANTS
    MAX_FRAMES = 11
    ByteFrames = 4
    PageSize = 4
    Word = 256
    LowFrames = 2
    Mmap <- MC_Mmap
    KernelStart = 8
    KernelEnd = 10
    MaxFailed = 2
    MaxTables = 2
SPECIFICATION Spec
INVARIANTS
    OneOwner
    OwnedMarked
    KernelProtected
    InAvailableMemory
    CountBounds
    MarkedForGood
CHECK_DEADLOCK FALSE
