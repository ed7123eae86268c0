CONSTANTS
    reaper = reaper
    shell = shell
    d = d
    w1 = w1
    w2 = w2
    NoTask = NoTask
    Task <- MC_Task
    Reaper = reaper
    Boot <- MC_Boot
    Immortal <- MC_Immortal
    Shell = shell
    LockUser <- MC_LockUser
SPECIFICATION FairSpec
INVARIANTS
    QueuesMatchStates
    NoTaskLost
    NoLostCorpse
    InterruptsOff
    NeverIdle
    MutualExclusion
    NoLostWakeup
PROPERTIES
    LifeCycle
    ReadyRuns
    CorpseReaped
    WaiterWoken
