CONSTANTS
    MAX_FRAMES = 11
    ByteFrames = 4
    PageSize = 4
    Word = 256
    LowFrames = 2
    Mmap <- MC_Mmap
    KernelStart = 8
    KernelEnd = 10
    MaxFailed = 2
    MaxTables = 2
SPECIFICATION Spec
INVARIANT LowProtected
CHECK_DEADLOCK FALSE
