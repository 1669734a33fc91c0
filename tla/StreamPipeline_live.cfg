SPECIFICATION ServerFairSpec
CONSTANTS
    NoThread = NoThread
    Streams = {s1, s2}
    Threads = {t1}
    Slots = 2
    Capacity = 1
    MaxCalls = 2
    Events = 1
CHECK_DEADLOCK FALSE
PROPERTIES SlotsComeBack StreamsDrain UploadsGoOn ShutsDown
