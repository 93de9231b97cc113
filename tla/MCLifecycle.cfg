SPECIFICATION Spec
CONSTANTS
    Ids = {0, 2, 3}
    NUM_BITS = 1
    Uninit = Uninit
    Files = {f, g}
    MaxObjects = 7
INVARIANTS
    TypeOK
    OwnedOnce
    ViewsAreLive
    BalancedCalls
PROPERTY
    ImplementsMap
CHECK_DEADLOCK FALSE
