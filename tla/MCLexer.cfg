SPECIFICATION Spec
CONSTANTS
    Sources <- AllSources
    LEN_SIZE = 4
    SIZE_SIZE = 64
    MaxPeek = 2
    MaxPeeks = 1
INVARIANTS
    TypeOK
    LongestLexemes
    AdjacentIsTextual
    PeeksTellTheFuture
PROPERTY
    CallsReturn
CHECK_DEADLOCK FALSE
