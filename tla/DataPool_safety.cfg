SPECIFICATION Spec
CONSTANTS
    w1 = w1
    w2 = w2
    r1 = r1
    r2 = r2
    Writers = {w1, w2}
    Readers = {r1, r2}
    NoThread = NoThread
    MaxPuts = 3
    Unlimited = 4
    InitialMax = 4
    Maxes = {1}
    Callbacks <- AllCallbacks
    Interruptible = {w1}
SYMMETRY ReaderSymmetry
INVARIANTS HandoffConsistent NwaitsExact Conservation
PROPERTY ImplementsPool
CHECK_DEADLOCK FALSE
