SPECIFICATION Spec
CONSTANTS
    Width = 3
    Names <- xy
    ReadOnly <- NoName
    kCacheLimit = 2
    Expressions <- Skipping
    LoopBody <- NoExpression
    Stored <- LeastAndTwo
INVARIANTS
    ShortCircuitsEffects
CHECK_DEADLOCK FALSE
