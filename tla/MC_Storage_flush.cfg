CONSTANTS
    Entries <- MC_AutoEntries
    Attr <- MC_AutoAttr
    Values <- MC_Values
    Default <- MC_AutoDefault
    REPORTED_FAILS = FALSE
    FLUSH_FAILS = TRUE
    Order <- MC_AutoOrder
    RtWritten <- MC_NoRt
SPECIFICATION Spec
PROPERTY NoSilentRollback
