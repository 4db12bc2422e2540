SPECIFICATION FairSpec
CONSTANTS
    w1 = w1
    w2 = w2
    r1 = r1
    r2 = r2
    Writers = {w1, w2}
    Readers = {}
    Vm <- VmPerThread
    Sure = 1
    Cap = 1
PROPERTY TimedPutReturns
CHECK_DEADLOCK FALSE
