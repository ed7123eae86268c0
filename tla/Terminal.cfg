CONSTANTS
    Rows = 3
    Cols = 3
    LineMax = 4
    Letter = {"a", "b"}
    commands <- MC_commands
    spawnables <- MC_spawnables
    ClockCol = 2
    ClockLen = 2
    Lines <- MC_Lines
    MaxSpawns = 1
SPECIFICATION FairSpec
INVARIANTS
    WritesOnScreen
    ScreenShowsLine
    ClearWipes
PROPERTIES
    SpawnedByName
    ShellReturns
