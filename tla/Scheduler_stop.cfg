SPECIFICATION FairSpec
CONSTANTS
    w1 = w1
    w2 = w2
    w3 = w3
    NoTask = NoTask
    Workers = {w1, w2, w3}
    First = {w1, w2, w3}
    Options = {"timed"}
    MinWorkers = 1
    MaxWorkers = 3
    HasEvq = TRUE
    KeptEvent = TRUE
    OutsideCalls = {}
    Terminates = {}
    StopArgs = {TRUE}
    Interrupts = {w3}
    LateFail = FALSE
    LateTimeout = FALSE
    MaxTasks = 1
INVARIANTS Consistent EvqAttended
PROPERTIES StopEnds
