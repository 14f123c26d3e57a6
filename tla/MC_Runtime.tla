---------------------------- MODULE MC_Runtime ----------------------------
(* Runtime with three RX slots: the NMT slot (CO_CANopenInit, id 0, full   *)
(* mask, wakes the mainline), an RPDO slot (CO_CANopenInitPDO, id 1,       *)
(* consumed by the RT thread) and a slot the stack never initialises.      *)
(* The bus carries NMT, the RPDO, its RTR form and a frame nobody wants.   *)
EXTENDS Runtime

MC_RxCfg == [i \in 0..2 |->
               IF i = 0 THEN [ident |-> 0, mask |-> 3, rtr |-> FALSE, cb |-> "wake"]
                        ELSE [ident |-> 1, mask |-> 3, rtr |-> FALSE, cb |-> "rt"]]
MC_InitOrder == <<0, 1>>
MC_BusIds == {0, 1, 2, 5}
====
