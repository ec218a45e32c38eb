SPECIFICATION Spec
CONSTANTS
    PidMax = 2
    ExitCodes <- BothCodes
    KillSignals <- NoSignals
    StopSignals <- TerminalStop
    MaxJobs = 2
    MaxMembers = 1
    MaxOperands = 1
    CacheLimit = 1
    Interactive = TRUE
    Monitor = TRUE
    Posix = TRUE
    NotifyOption = FALSE
    AutoBackgrounds <- OnlyFalse
    Commands <- Most
INVARIANTS
    RecencyMarks
    IndexesAgree
    NoUnnoticedStop
    RetainedIsTrue
PROPERTIES
    WaitTellsTheTruth
