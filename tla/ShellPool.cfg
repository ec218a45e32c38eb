SPECIFICATION FairSpec
CONSTANTS
    Signals = {"INT", "TERM"}
    Profiles <- Trapped
    MaxArrivals = 2
    MaxCommands = 1
    Workers = {"w1", "w2"}
    Targets = {"a", "A", "b", "c"}
    Requested <- OneCommand
    Outcomes <- Found
    Key <- LowerCase
INVARIANTS
    OwedKept
    TrapsDoNotNest
    ShutdownSeesAll
    WaiterHasHope
    NoEarlyStop
PROPERTIES
    TrappedSignalSpares
    KeepsItsPromise
    Heeded
    PoolEnds
CHECK_DEADLOCK FALSE
