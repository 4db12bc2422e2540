SPECIFICATION Spec
CONSTANTS
    c1 = c1
    c2 = c2
    Callers = {c1, c2}
    Msecs = {2, 3}
    LoopTimeout = 2
    MIN_TIMEOUT = 2
    Manual = {TRUE}
    HalfRange = 100
    slot1 = slot1
    slot2 = slot2
    slot3 = slot3
    slot4 = slot4
    slot5 = slot5
    Kinds <- TimersAndDescriptors
    Slots = {slot1, slot2, slot3, slot4, slot5}
    NULL = NULL
    MaxCalls = 4
    MaxClock = 1
CHECK_DEADLOCK FALSE
INVARIANTS TimeoutKept
