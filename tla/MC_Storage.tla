----------------------------- MODULE MC_Storage -----------------------------
(* Model-checking instances of Storage with two memory images, "d" (the    *)
(* defaults) and "v".  The entry sets are those of CO_main_basic.c:        *)
(* od_comm.persist (cmd, restore) and mainline.persist (cmd, auto,         *)
(* restore), and an application entry of CO_STORAGE_APPLICATION kind that *)
(* is saved automatically only (auto, restore).                            *)
EXTENDS Storage

MC_Values == {"d", "v"}
MC_NoRt == {}

MC_AppEntries == {"od_comm", "app"}
MC_AppAttr == [e \in MC_AppEntries |->
                 IF e = "app" THEN {"auto", "restore"} ELSE {"cmd", "restore"}]
MC_AppDefault == [e \in MC_AppEntries |-> "d"]
MC_AppOrder == <<"od_comm", "app">>
\* The application entry holds a PDO-mapped variable that RPDOs write.
MC_AppRt == {"app"}

MC_MlEntries == {"mainline"}
MC_MlAttr == [e \in MC_MlEntries |-> {"cmd", "auto", "restore"}]
MC_MlDefault == [e \in MC_MlEntries |-> "d"]
MC_MlOrder == <<"mainline">>

MC_CommEntries == {"od_comm"}
MC_CommAttr == [e \in MC_CommEntries |-> {"cmd", "restore"}]
MC_CommDefault == [e \in MC_CommEntries |-> "d"]
MC_CommOrder == <<"od_comm">>

MC_AutoEntries == {"app"}
MC_AutoAttr == [e \in MC_AutoEntries |-> {"auto", "restore"}]
MC_AutoDefault == [e \in MC_AutoEntries |-> "d"]
MC_AutoOrder == <<"app">>
MC_AutoRt == {"app"}
=============================================================================
