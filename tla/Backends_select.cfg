CONSTANTS
    e1 = e1  e2 = e2  e3 = e3  e4 = e4  NONE = NONE
    Kinds = {"select"}
    Events = {e1, e2, e3, e4}
    Fd <- MCFdAround
    Writes = {e2}
    OneShots = {}
    Kept = {e3}
    Mods = {e3}
    Closed = {e4}
    Reopens = {}
    SigFd = 2
    NEVENT = 2
    FD_SETSIZE = 8
SPECIFICATION Spec
INVARIANT Interrupted
