SPECIFICATION FairSpec
CONSTANTS
    w1 = w1
    w2 = w2
    r1 = r1
    r2 = r2
    Writers = {w1, w2}
    Readers = {r1, r2}
    Vm <- VmPerThread
    Sure = 1
    Cap = 2
INVARIANTS CountsExact NoLostWakeup
PROPERTY GetsReturn
CHECK_DEADLOCK FALSE
