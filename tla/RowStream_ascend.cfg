SPECIFICATION Spec
CONSTANTS
    MaxRow = 3
    MaxCol = 0
    Cap = 4
    HeaderRow <- NoSelection
    UseTable = FALSE
    ChunkMax = 1
    MaxCells = 5
CHECK_DEADLOCK FALSE
INVARIANTS RowsAscend
