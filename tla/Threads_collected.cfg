SPECIFICATION Spec
CONSTANTS
    m = m
    a = a
    b = b
    c = c
    Main = m
    Slots = {a, b}
    RunvmFrom = {m}
    Suspends = {}
    Terminates = {}
    Interrupts = {}
    StartFails = {}
    Kept = {}
    WaitsOnVm = FALSE
    LateCalls = FALSE
    EarlyWakes = {}
INVARIANT SavedFromGC
CHECK_DEADLOCK FALSE
