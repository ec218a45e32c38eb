SPECIFICATION FairSpec
CONSTANTS
    Constructs = {"while", "for", "if", "case", "function", "group", "list", "exit"}
    Outcomes = {1}
    Errexit = TRUE
    Posix = TRUE
    MaxLevels = 2
    MaxSignals = 1
    MaxFrames = 5
INVARIANTS
    RequestsAreAwaited
PROPERTIES
    OnlyItsBoundaryConsumes
    UnwindingEnds
