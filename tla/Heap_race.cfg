CONSTANTS
    BLOCK_SIZE = 1
    Size = 2
    FrameSize = 12
    Frames = 2
    BootTasks = 3
    AfterRace = TRUE
SPECIFICATION Spec
INVARIANT AccurateDiagnostics
CHECK_DEADLOCK FALSE
