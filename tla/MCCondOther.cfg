SPECIFICATION Spec
CONSTANTS
    Conditions <- OtherConditions
    Macros <- MacroDefs
    Depth = 8
INVARIANT
    EveryValueIsC
CHECK_DEADLOCK FALSE
