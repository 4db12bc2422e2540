SPECIFICATION FairSpec
CONSTANTS
    m = m
    a = a
    b = b
    c = c
    Main = m
    Slots = {a}
    RunvmFrom = {m}
    Suspends = {}
    Terminates = {}
    Interrupts = {}
    StartFails = {}
    Kept = {m}
    WaitsOnVm = TRUE
    LateCalls = FALSE
    EarlyWakes = {}
PROPERTY VmWaitEnds
CHECK_DEADLOCK FALSE
