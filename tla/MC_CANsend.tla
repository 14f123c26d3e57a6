----------------------------- MODULE MC_CANsend -----------------------------
(* Model-checking instances of CANsend with two transmit buffers.  In the  *)
(* single-thread build (CO_SINGLE_THREAD) every protocol object and        *)
(* CO_CANmodule_process run on the mainline; in the default build the      *)
(* SYNC/PDO objects send from the RT thread (buffer 1) while SDO, NMT,     *)
(* heartbeat and emergency send from the mainline (buffer 2).              *)
EXTENDS CANsend

MC_NBUF == 2
MC_MAX_TXCOUNT == 3
MC_SingleThreads == {"mainline"}
MC_SingleSendsOn == [t \in MC_SingleThreads |-> 1..MC_NBUF]
MC_MultiThreads == {"mainline", "rt"}
MC_MultiSendsOn == [t \in MC_MultiThreads |-> IF t = "rt" THEN {1} ELSE {2}]
=============================================================================
