SPECIFICATION Spec
CONSTANTS
    Sizes = {1,2}
    MinSize = 4
    MaxSize = 8
    Extra = 1
    UintMod = 16
    MaxPuts = 9
INVARIANTS InBounds RingReady
PROPERTY FifoUnlessOverrun
CHECK_DEADLOCK FALSE
