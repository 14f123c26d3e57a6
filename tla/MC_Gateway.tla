----------------------------- MODULE MC_Gateway -----------------------------
(* Constants of the Gateway model for TLC.                                 *)
EXTENDS Gateway

\* 0 stdin, 1 listener or stdout, 2 CAN socket, 3 and 4 free.
CONSTANTS c1, c2

MC_NFD == 5
MC_ConnOf == <<c1, c2>>
MC_MAX_SENDS == 2
\* -i <node-id> given: every reset cycle runs with a configured node.
MC_NodeIdGiven == {FALSE}
\* LSS slave enabled, no node-id stored or given: the node starts
\* unconfigured, and an LSS master may configure it for the next reset.
MC_LssNodeId == {TRUE, FALSE}
=============================================================================
