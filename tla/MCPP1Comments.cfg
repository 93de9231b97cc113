SPECIFICATION Spec
CONSTANTS
    Sources <- OtherSources
    Files <- IncludeFiles
    MAX_BUFFERS = 4
INVARIANT
    OnlyCommentsGo
CHECK_DEADLOCK FALSE
