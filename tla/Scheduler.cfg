SPECIFICATION FairSpec
CONSTANTS
    w1 = w1
    w2 = w2
    w3 = w3
    NoTask = NoTask
    Workers = {w1, w2}
    First = {w1}
    Options = {"linger", "not_linger"}
    MinWorkers = 1
    MaxWorkers = 2
    HasEvq = TRUE
    KeptEvent = TRUE
    OutsideCalls = {}
    Terminates = {"active", "suspended", "waiting"}
    StopArgs = {TRUE}
    Interrupts = {w2}
    LateFail = FALSE
    LateTimeout = FALSE
    MaxTasks = 2
INVARIANTS Consistent EventsMatch EvqAttended
PROPERTIES TaskTaken
