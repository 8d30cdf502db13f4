SPECIFICATION Spec
CONSTANTS
    s1 = s1
    c1 = c1
    c2 = c2
    Sessions <- MCSessions
    Callers <- MCCallers
    PtySessions <- MCPty
    Visible <- MCVisible
    MaxChunks = 2
    PendingCap = 1
CHECK_DEADLOCK FALSE
INVARIANTS
    TypeOK
    TerminateCallbackAtMostOnce
    CleanupAtMostOnce
    NoSilentLoss
PROPERTIES
    RemovedStaysGone
    BackgroundExitIsArchived
    KilledIsSeenToExit
