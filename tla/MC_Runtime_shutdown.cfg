CONSTANTS
    RX_SIZE = 3
    RxCfg <- MC_RxCfg
    InitOrder <- MC_InitOrder
    N_OPEN = 1
    BusIds <- MC_BusIds
    QLEN = 1
    MAX_RESETS = 1
    EFD_MAX = 2
SPECIFICATION Spec

PROPERTY ShutdownJoins
