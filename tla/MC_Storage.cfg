CONSTANTS
    Entries <- MC_AppEntries
    Attr <- MC_AppAttr
    Values <- MC_Values
    Default <- MC_AppDefault
    REPORTED_FAILS = TRUE
    FLUSH_FAILS = FALSE
    Order <- MC_AppOrder
    RtWritten <- MC_AppRt
SPECIFICATION Spec
PROPERTY NoSilentRollback
