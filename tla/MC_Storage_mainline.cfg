CONSTANTS
    Entries <- MC_MlEntries
    Attr <- MC_MlAttr
    Values <- MC_Values
    Default <- MC_MlDefault
    REPORTED_FAILS = FALSE
    FLUSH_FAILS = FALSE
    Order <- MC_MlOrder
    RtWritten <- MC_NoRt
SPECIFICATION Spec
PROPERTY NoSilentRollback
