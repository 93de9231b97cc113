SPECIFICATION Spec
CONSTANTS
    Sources <- AllSources
    Files <- IncludeFiles
    MAX_BUFFERS = 6
INVARIANTS
    TypeOK
    
    IncludesAreOpen
PROPERTY
    Ends
CHECK_DEADLOCK FALSE
