SPECIFICATION FairSpec
CONSTANTS
    X = X
    Y = Y
    F = F
    I = I
    XY = XY
    W = W
    D = D
    None = None
    Names <- MCNames
    Define = D
    Concat <- MCConcat
    Programs <- UnclosedPrograms
    MAX_BUFFERS = 4
PROPERTY
    UnclosedCallIsReported
CHECK_DEADLOCK FALSE
