SPECIFICATION Spec
CONSTANTS
    b1 = b1  b2 = b2  b3 = b3
    r1 = r1  r2 = r2  r3 = r3
    NoBook = NoBook
    Books <- TwoBooks
    Reads <- TwoReads
    Bytes <- EvenBytes
    ReaderBytes <- EvenReaderBytes
    MaxOpen = 2
    MaxBytes = 6
    Ttl = 2
    ReaperOn = TRUE
    Period = 2
PROPERTY RefusedForAnother
