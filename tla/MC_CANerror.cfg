CONSTANTS
    NOACK_MAX <- MC_NOACK_MAX
    LISTEN_ONLY_SEC <- MC_LISTEN_ONLY_SEC
    TICKS_PER_SEC <- MC_TICKS_PER_SEC
    MAX_TICKS <- MC_MAX_TICKS
    MAX_RESETS <- MC_MAX_RESETS
    MAX_DROPS <- MC_MAX_DROPS
SPECIFICATION Spec
INVARIANT TypeOK
PROPERTY MinimumDwell
