\* Socket mode, idle timeout, LSS node-id: once unconfigured, a client's EOF
\* is purged and never closed, and the next client is never accepted.
SPECIFICATION SocketSpec
CONSTANTS
    MODE = "socket"
    NFD <- MC_NFD
    ConnOf <- MC_ConnOf
    c1 = c1
    c2 = c2
    MAX_SENDS <- MC_MAX_SENDS
    MAX_RESETS = 1
    T_IDLE = 2
    INTERVAL = 2
    ADD_FAILS = FALSE
    UNCONFIGURED <- MC_LssNodeId
    FREE = FREE
    OTHERFD = OTHERFD
PROPERTY ClientEventuallyAccepted
