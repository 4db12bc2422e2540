SPECIFICATION FairSpec
CONSTANTS
    w1 = w1
    w2 = w2
    r1 = r1
    r2 = r2
    Writers = {w1}
    Readers = {r1, r2}
    NoThread = NoThread
    MaxPuts = 2
    Unlimited = 3
    InitialMax = 3
    Maxes = {}
    Callbacks = {}
    Interruptible = {}
PROPERTY ReaderServed
CHECK_DEADLOCK FALSE
