SPECIFICATION SheetSpec
CONSTANTS
    MaxRow = 3
    MaxCol = 1
    Cap = 3
    HeaderRow = 1
    UseTable = TRUE
    ChunkMax = 1
    MaxCells = 4
    MaxDenseCells = 4
    Declared <- ThreeExtents
    Grids <- NumberedGrids
    Word = 16
CHECK_DEADLOCK FALSE
INVARIANTS RefusedBeforeStarted SameCells HeaderCounts RangeWithinBudget GapsTile StringsDefinedFirst
