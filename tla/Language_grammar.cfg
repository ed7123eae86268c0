CONSTANTS
    STACK_SIZE = 8
    CODE_SIZE = 64
    IntMax = 32767
    Codes = {}
    Programs <- MC_Programs
    Malformed <- MC_Malformed
    ParenProducts = FALSE
    MaxTurns = 4
SPECIFICATION LanguageSpec
INVARIANT GrammarFollowed
CHECK_DEADLOCK FALSE
