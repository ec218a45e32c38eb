SPECIFICATION Spec
CONSTANTS
    PidMax = 2
    ExitCodes <- Failure
    KillSignals <- Killed
    StopSignals <- TerminalStop
    MaxJobs = 1
    MaxMembers = 2
    MaxOperands = 1
    CacheLimit = 256
    Interactive = TRUE
    Monitor = TRUE
    Posix = FALSE
    NotifyOption = FALSE
    AutoBackgrounds <- OnlyFalse
    Commands <- Control
INVARIANTS
    NoUnnoticedStop
