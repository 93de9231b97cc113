SPECIFICATION FairSpec
CONSTANTS
    X = X
    Y = Y
    F = F
    I = I
    XY = XY
    W = W
    D = D
    None = None
    Names <- MCNames
    Define = D
    Concat <- MCConcat
    Programs <- AllPrograms
    MAX_BUFFERS = 4
INVARIANTS
    TypeOK
    StackMirrorsCalls
    NoSelfNesting
    NoDirectiveInOutput
    RemainingMacrosAreCyclic
    ExpandsAsDocumented
    NoStaleUse
PROPERTY
    Terminates
CHECK_DEADLOCK FALSE
