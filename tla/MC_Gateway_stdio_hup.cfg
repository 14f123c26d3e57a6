\* Stdio: after a hang-up gtwa_fd keeps a closed number that the CAN socket reuses.
SPECIFICATION StdioSpec
CONSTANTS
    MODE = "stdio"
    NFD <- MC_NFD
    ConnOf <- MC_ConnOf
    c1 = c1
    c2 = c2
    MAX_SENDS <- MC_MAX_SENDS
    MAX_RESETS = 1
    T_IDLE = 2
    INTERVAL = 2
    ADD_FAILS = FALSE
    UNCONFIGURED <- MC_NodeIdGiven
    FREE = FREE
    OTHERFD = OTHERFD
INVARIANT GatewayFdOwned
