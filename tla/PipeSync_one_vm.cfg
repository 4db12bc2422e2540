SPECIFICATION FairSpec
CONSTANTS
    w1 = w1
    w2 = w2
    r1 = r1
    r2 = r2
    Writers = {w1}
    Readers = {r1}
    Vm <- OneVm
    Sure = 1
    Cap = 1
PROPERTY TimedGetReturns
CHECK_DEADLOCK FALSE
