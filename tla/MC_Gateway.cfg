\* Socket mode with an idle timeout and a configured node (-i): no leak,
\* and every client is served.
SPECIFICATION SocketSpec
CONSTANTS
    MODE = "socket"
    NFD <- MC_NFD
    ConnOf <- MC_ConnOf
    c1 = c1
    c2 = c2
    MAX_SENDS <- MC_MAX_SENDS
    MAX_RESETS = 1
    T_IDLE = 2
    INTERVAL = 2
    ADD_FAILS = FALSE
    UNCONFIGURED <- MC_NodeIdGiven
    FREE = FREE
    OTHERFD = OTHERFD
INVARIANT TypeOK NoLeakedConnection IdleConnectionClosed
PROPERTY ClientEventuallyAccepted IdleCloseNotEarly
