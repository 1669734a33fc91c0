SPECIFICATION ProceduresSpec
CONSTANTS
    MaxPicture = 3
    MaxPictureTotal = 5
    MaxSharedStrings = 160
    ReadMax = 2
    Entries = 2
    Lengths = {0, 1, 40}
    Counts = {1, 2, 8, 1000}
    Base = 2
    PieceMax = 3
    StreamMax = 7
    Readers = 2
    Words = 3
    CountMax = 50
    Prologs <- AllPrologs
    Values <- AllValues
    Attributes = 2
    MaxRow = 3
    MaxCol = 2
    TextLengths = {1, 3}
    SlotBytes = 2
    MaxDenseCells = 8
    MaxFormulaBytes = 9
    Word = 12
    MaxCells = 4
    Rpcs = {"vba", "pictures"}
    FrameLimit = 2
    ItemSizes = {1, 2, 3}
    MaxItems = 3
CHECK_DEADLOCK FALSE
INVARIANTS
    PictureLimitsHold PlainTablesCovered CountsRecords CountIsDeclared
    CheckedBeforeParsed DetectedAsEverywhere
    RowsFaithful DenseWithinBudget HeldWithinBudget ItemsAnswered
