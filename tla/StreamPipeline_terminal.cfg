SPECIFICATION Spec
CONSTANTS
    NoThread = NoThread
    Streams = {s1}
    Threads = {t1}
    Slots = 1
    Capacity = 1
    Events = 2

CHECK_DEADLOCK FALSE
INVARIANTS TerminalByStatus
