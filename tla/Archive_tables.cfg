SPECIFICATION PackageSpec
CONSTANTS
    MaxPicture = 3
    MaxPictureTotal = 5
    MaxSharedStrings = 160
    ReadMax = 2
    Entries = 2
    Lengths = {0, 1, 40}
    Counts = {1, 2, 8, 1000}
    Base = 2
    PieceMax = 3
    StreamMax = 7
    Readers = 2
    Words = 3
    CountMax = 50
    Prologs <- AllPrologs
    Values <- AllValues
    Attributes = 2
CHECK_DEADLOCK FALSE
INVARIANT TablesCovered
