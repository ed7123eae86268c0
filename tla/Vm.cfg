CONSTANTS
    STACK_SIZE = 2
    CODE_SIZE = 5
    IntMax = 255
    Codes <- MC_Codes
SPECIFICATION Spec
INVARIANTS
    TypeOK
    ReturnsBehindCall
CHECK_DEADLOCK FALSE
