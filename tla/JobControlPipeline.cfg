SPECIFICATION FairSpec
CONSTANTS
    PidMax = 2
    ExitCodes <- Failure
    KillSignals <- Killed
    StopSignals <- TerminalStop
    MaxJobs = 1
    MaxMembers = 2
    MaxOperands = 1
    CacheLimit = 256
    Interactive = TRUE
    Monitor = TRUE
    Posix = FALSE
    NotifyOption = FALSE
    AutoBackgrounds <- Either
    Commands <- Everything
INVARIANTS
    TypeOK
    MembersAccounted
    ExitStatusOfLastMember
    FinishedToldOnce
PROPERTIES
    ReapedIsRetained
    FinishedForGood
    WaitersReturn
    FinishedJobsLeave
