CONSTANTS
    Threads <- MC_MultiThreads
    MAINLINE = "mainline"
    NBUF <- MC_NBUF
    SendsOn <- MC_MultiSendsOn
    MAX_TXCOUNT <- MC_MAX_TXCOUNT
SPECIFICATION Spec
PROPERTY DeferredEventuallySent
