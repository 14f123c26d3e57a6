CONSTANTS
    Threads <- MC_SingleThreads
    MAINLINE = "mainline"
    NBUF <- MC_NBUF
    SendsOn <- MC_SingleSendsOn
    MAX_TXCOUNT <- MC_MAX_TXCOUNT
SPECIFICATION Spec
INVARIANT CountCoversFull
PROPERTY DeferredEventuallySent
