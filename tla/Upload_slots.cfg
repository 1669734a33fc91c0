SPECIFICATION FairSpec
CONSTANTS
    Uploads = {u1, u2, u3}
    Slots = 2
    MaxBytes = 3
    Stall = 2
    Deadlines = {0, 3}
CHECK_DEADLOCK FALSE
INVARIANTS BufferBounded
PROPERTIES SlotsComeBack IsSlotPool
