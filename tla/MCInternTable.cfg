SPECIFICATION Spec
CONSTANTS
    Strings = {EMPTY, s1, s2, s3}
    EMPTY = EMPTY
    Long = {s1}
    Hashes = {0, 1, 3}
    CAP = 2
    MAX_MEM = 5
INVARIANTS
    TypeOK
    Reachable
    AnswersStayValid
    NothingLeaks
PROPERTIES
    ImplementsInterner
    CallsReturn
