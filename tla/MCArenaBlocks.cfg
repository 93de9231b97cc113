SPECIFICATION Spec
CONSTANTS
    SIZE = 6
    ALIGN = 2
    MIN_FREE_SIZE = 3
    Requests = {1, 3, 6}
    MAX_OBJECTS = 5
    MAX_MARKS = 2
INVARIANT
    BlocksReclaimed
CHECK_DEADLOCK FALSE
