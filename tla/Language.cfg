CONSTANTS
    STACK_SIZE = 8
    CODE_SIZE = 64
    IntMax = 32767
    Codes = {}
    Programs <- MC_Programs
    Malformed <- MC_Malformed
    ParenProducts = TRUE
    MaxTurns = 4
SPECIFICATION LanguageSpec
INVARIANTS
    OutputCorrect
    TokensRead
PROPERTIES
    StatementsBalanced
    Finishes
CHECK_DEADLOCK FALSE
