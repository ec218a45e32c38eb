SPECIFICATION Spec
CONSTANTS
    Width = 3
    Names <- xy
    ReadOnly <- JustY
    kCacheLimit = 2
    Expressions <- OneOrTwo
    LoopBody <- Counting
    Stored <- LeastAndTwo
INVARIANTS
    TypeOK
    CacheTrue
    AgreesWithC
CHECK_DEADLOCK FALSE
