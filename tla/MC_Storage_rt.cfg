\* The RT thread writes the auto-saved entry while auto_process runs.
CONSTANTS
    Entries <- MC_AutoEntries
    Attr <- MC_AutoAttr
    Values <- MC_Values
    Default <- MC_AutoDefault
    REPORTED_FAILS = FALSE
    FLUSH_FAILS = FALSE
    Order <- MC_AutoOrder
    RtWritten <- MC_AutoRt
SPECIFICATION Spec
INVARIANT AutoFileTracksMemory
