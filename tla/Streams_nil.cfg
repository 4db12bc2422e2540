SPECIFICATION Spec
CONSTANTS
    Growable = TRUE
    Bufio = TRUE
    Partial = {"flush"}
    LateError = FALSE
    AddDuring = {}
    Newlines = {2, 3, 6}
    InitialLen = 2
    BufSize = 2
    MaxPut = 3
    MaxBytes = 6
INVARIANTS NilAtEnd
CHECK_DEADLOCK FALSE
