CONSTANTS
    t1 = t1
    t2 = t2
    Task <- MC_Task
    Exiting <- MC_Exiting
    Sched = Sched
    StackWords = 40
SPECIFICATION Spec
INVARIANTS
    TypeOK
    TaskRestored
    RestoredUntilExit
CHECK_DEADLOCK FALSE
