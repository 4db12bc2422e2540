SPECIFICATION FairSpec
CONSTANTS
    m = m
    a = a
    b = b
    c = c
    Main = m
    Slots = {a, b}
    RunvmFrom = {m}
    Suspends = {m, b}
    Terminates = {a}
    Interrupts = {b}
    StartFails = {}
    Kept = {m}
    WaitsOnVm = FALSE
    LateCalls = FALSE
    EarlyWakes = {m, b}
INVARIANTS NrefExact EndsInOrder SavedFromGC
PROPERTIES CallsEnd
CHECK_DEADLOCK FALSE
