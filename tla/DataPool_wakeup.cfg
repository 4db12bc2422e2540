SPECIFICATION FairSpec
CONSTANTS
    w1 = w1
    w2 = w2
    r1 = r1
    r2 = r2
    Writers = {w1, w2}
    Readers = {r1}
    NoThread = NoThread
    MaxPuts = 3
    Unlimited = 4
    InitialMax = 4
    Maxes = {}
    Callbacks <- OnEmptyOnly
    Interruptible = {r1}
INVARIANT NoLostWakeup
PROPERTY ReaderServed
CHECK_DEADLOCK FALSE
