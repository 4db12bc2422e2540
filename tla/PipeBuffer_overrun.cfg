SPECIFICATION Spec
CONSTANTS
    Sizes = {1}
    MinSize = 9
    MaxSize = 9
    Extra = 1
    UintMod = 64
    MaxPuts = 12
PROPERTY Fifo
CHECK_DEADLOCK FALSE
