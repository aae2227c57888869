SPECIFICATION BacklogSpec
CONSTANTS
    Norm <- NormOf
    Axes = {"x", "y"}
    Cosmetic <- CosmeticOf
    Reports <- ReportsOf
    Frontier = {"y"}
    Limit = 2
    MaxCommands = 2
    MaxPeople = 1
    MaxBacklogOdd = 0
INVARIANT MemoryMirrorsLedger
CHECK_DEADLOCK FALSE
