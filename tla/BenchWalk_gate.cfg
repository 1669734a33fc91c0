SPECIFICATION GateSpec
CONSTANTS
    MaxRow = 3
    MaxCol = 1
    Cap = 3
    HeaderRow <- NoSelection
    UseTable = TRUE
    ChunkMax = 2
    MaxCells = 4
    Kinds <- MixedKinds
    BatchRows = 2
CHECK_DEADLOCK FALSE
INVARIANTS
    RowsNeverRegress NoCellLost
    WalkIsRange PackedLossless GateHolds
