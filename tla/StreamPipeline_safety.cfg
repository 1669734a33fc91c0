SPECIFICATION Spec
CONSTANTS
    NoThread = NoThread
    Streams = {s1, s2}
    Threads = {t1, t2}
    Slots = 1
    Capacity = 2
    Events = 3
SYMMETRY Alike
CHECK_DEADLOCK FALSE
INVARIANTS OwnStall SlotBackAtEnd
PROPERTIES IsEventStream IsSlotPool
