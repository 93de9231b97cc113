SPECIFICATION Spec
CONSTANTS
    Conditions <- AllConditions
    Macros <- MacroDefs
    Depth = 8
INVARIANTS
    TypeOK
    SourcesMirrorFrames
    PowersAscend
    WholeConditionRead
    ValueIsC
PROPERTY
    EvaluationEnds
CHECK_DEADLOCK FALSE
