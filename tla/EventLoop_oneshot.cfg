SPECIFICATION Spec
CONSTANTS
    l1 = l1
    l2 = l2
    c1 = c1
    s1 = s1
    NoThread = NoThread
    Loopers = {l1}
    Controllers = {c1}
    Callers = {s1}
    Linger = {l1}
    Once = {}
    Timed = {}
    DelOneshot = TRUE
    MaxSlots = 3
INVARIANT SlotsSound
