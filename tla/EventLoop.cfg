SPECIFICATION FairSpec
CONSTANTS
    l1 = l1
    l2 = l2
    c1 = c1
    s1 = s1
    NoThread = NoThread
    Loopers = {l1, l2}
    Controllers = {c1}
    Callers = {s1}
    Linger = {l1}
    Once = {l2}
    Timed = {l2}
    DelOneshot = FALSE
    MaxSlots = 3
INVARIANTS LoopSound SlotsSound
PROPERTIES StopEnds CallsReturn ReadyHandled
