CONSTANTS
    BLOCK_SIZE = 1
    Size = 2
    FrameSize = 12
    Frames = 2
    BootTasks = 3
    AfterRace = FALSE
SPECIFICATION Spec
INVARIANTS
    TypeOK
    Tiled
    OwnedBlocks
PROPERTY NotHandedOutTwice
CHECK_DEADLOCK FALSE
