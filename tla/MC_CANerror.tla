---------------------------- MODULE MC_CANerror ----------------------------
(* Model-checking instance of CANerror: a listen-only dwell of 2 s seen at *)
(* half-second resolution, so entry instants fall on both halves of a      *)
(* second, an ACK escalation threshold of 3, and up to two frames dropped  *)
(* by the kernel from each socket, so a socket opened at a reset can drop   *)
(* fewer frames than the one before it and then more.                      *)
EXTENDS CANerror

MC_NOACK_MAX == 3
MC_LISTEN_ONLY_SEC == 2
MC_TICKS_PER_SEC == 2
MC_MAX_TICKS == 9
MC_MAX_RESETS == 2
MC_MAX_DROPS == 2
=============================================================================
