CONSTANTS
    e1 = e1  e2 = e2  e3 = e3  e4 = e4  NONE = NONE
    Kinds = {"poll"}
    Events = {e1, e2, e3, e4}
    Fd <- MCFd
    Writes = {e2}
    OneShots = {e3}
    Kept = {}
    Mods = {e3}
    Closed = {e4}
    Reopens = {}
    SigFd = 0
    NEVENT = 2
    FD_SETSIZE = 4
SPECIFICATION Spec
INVARIANTS InBounds
