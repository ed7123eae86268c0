CONSTANTS
    reaper = reaper
    shell = shell
    clock = clock
    w1 = w1
    w2 = w2
    NoTask = NoTask
    Task <- MC_Task
    Reaper = reaper
    Boot <- MC_Boot
    Immortal <- MC_Immortal
    Shell = shell
    LockUser = {}
SPECIFICATION FairRingSpec
INVARIANT RingIntact
PROPERTIES
    PsListsAll
    PsEnds
