------------------------------ MODULE CANsend ------------------------------
(***************************************************************************)
(* The transmit path of the single-interface SocketCAN driver              *)
(* (src/unnamed/part_001, CO_driver.c with CO_DRIVER_MULTI_INTERFACE 0):   *)
(* CO_CANsend, the deferred retransmission in CO_CANmodule_process, and    *)
(* CO_CANtxBufferInit.  A send the kernel refuses with EAGAIN/ENOBUFS/     *)
(* EINTR marks its buffer bufferFull and counts it in CANtxCount; every    *)
(* mainline iteration retries the first full buffer, and resets the count  *)
(* when it finds none.                                                     *)
(*                                                                         *)
(* The driver is called from several threads: Threads are the callers,    *)
(* SendsOn[t] the buffers whose protocol objects run on thread t, and      *)
(* MAINLINE the thread that runs CO_CANmodule_process.  CO_LOCK_CAN_SEND   *)
(* is empty, so each access to bufferFull and to the uint16 CANtxCount is  *)
(* a step of its own, and ++ and -- are a load followed by a store.        *)
(***************************************************************************)
EXTENDS Naturals, FiniteSets

CONSTANTS
    Threads,      \* threads that call the driver
    MAINLINE,     \* the thread that calls CO_CANmodule_process
    NBUF,         \* CANmodule->txSize
    SendsOn,      \* [Threads -> SUBSET Buffers]: buffers each thread sends on
    MAX_TXCOUNT   \* bound: new sends wait while CANtxCount is this high

Buffers == 1..NBUF          \* indices of CANmodule->txArray
UINT16 == 65536             \* CANtxCount is uint16_t

ASSUME MAINLINE \in Threads /\ SendsOn \in [Threads -> SUBSET Buffers]

VARIABLES
    bufferFull,        \* txArray[i].bufferFull
    CANtxCount,        \* CANmodule->CANtxCount
    ifTxOverflow,      \* CO_CAN_ERRTX_OVERFLOW in the interface's errorhandler
    moduleTxOverflow,  \* the same bit in CANmodule->CANerrorStatus
    pc,                \* where each thread is in the driver
    buf,               \* the buffer argument of the thread's current call
    reg,               \* the thread's loaded copy of CANtxCount
    unsent             \* ghost: the buffer holds a message that was neither
                       \* written to the socket nor reported lost

vars == <<bufferFull, CANtxCount, ifTxOverflow, moduleTxOverflow, pc, buf, reg, unsent>>

PCs == {"idle", "send", "sendClear", "sendDec", "sendSet", "sendInc",
        "procClear", "procDec", "procZero"}

Init ==
    /\ bufferFull = [b \in Buffers |-> FALSE]
    /\ CANtxCount = 0
    /\ ifTxOverflow = FALSE
    /\ moduleTxOverflow = FALSE
    /\ pc = [t \in Threads |-> "idle"]
    /\ buf = [t \in Threads |-> 1]
    /\ reg = [t \in Threads |-> 0]
    /\ unsent = [b \in Buffers |-> FALSE]

Goto(t, l) == pc' = [pc EXCEPT ![t] = l]

(* A protocol object of thread t has filled buffer b and calls CO_CANsend.  *)
Request(t, b) ==
    /\ pc[t] = "idle"
    /\ b \in SendsOn[t]
    /\ CANtxCount < MAX_TXCOUNT
    /\ unsent' = [unsent EXCEPT ![b] = TRUE]
    /\ buf' = [buf EXCEPT ![t] = b]
    /\ Goto(t, "send")
    /\ UNCHANGED <<bufferFull, CANtxCount, ifTxOverflow, moduleTxOverflow, reg>>

(* CO_CANsend up to the bufferFull test after send(): the overflow report  *)
(* for a buffer still full, the send() call, then one of its three         *)
(* outcomes.  The frame reached the socket:                                *)
SendOk(t) ==
    LET b == buf[t] IN
    /\ pc[t] = "send"
    /\ ifTxOverflow' = (ifTxOverflow \/ bufferFull[b])
    /\ unsent' = [unsent EXCEPT ![b] = FALSE]
    /\ Goto(t, IF bufferFull[b] THEN "sendClear" ELSE "idle")
    /\ UNCHANGED <<bufferFull, CANtxCount, moduleTxOverflow, buf, reg>>

(* Variant of SendBusy that marks the buffer without counting it.          *)
SendBusyNoCount(t) ==
    LET b == buf[t] IN
    /\ pc[t] = "send"
    /\ ifTxOverflow' = (ifTxOverflow \/ bufferFull[b])
    /\ bufferFull' = [bufferFull EXCEPT ![b] = TRUE]
    /\ Goto(t, "idle")
    /\ UNCHANGED <<CANtxCount, moduleTxOverflow, buf, reg, unsent>>

(* EINTR, EAGAIN or ENOBUFS: the buffer is to be retried (CO_ERROR_TX_BUSY). *)
SendBusy(t) ==
    LET b == buf[t] IN
    /\ pc[t] = "send"
    /\ ifTxOverflow' = (ifTxOverflow \/ bufferFull[b])
    /\ Goto(t, IF bufferFull[b] THEN "idle" ELSE "sendSet")
    /\ UNCHANGED <<bufferFull, CANtxCount, moduleTxOverflow, buf, reg, unsent>>

(* Any other errno: CO_ERROR_SYSCALL with the TX_OVERFLOW bit set; the     *)
(* message is not retried.                                                 *)
SendError(t) ==
    LET b == buf[t] IN
    /\ pc[t] = "send"
    /\ ifTxOverflow' = TRUE
    /\ unsent' = [unsent EXCEPT ![b] = FALSE]
    /\ Goto(t, "idle")
    /\ UNCHANGED <<bufferFull, CANtxCount, moduleTxOverflow, buf, reg>>

(* bufferFull = false and the load of CANtxCount--.                        *)
SendClear(t) ==
    /\ pc[t] = "sendClear"
    /\ bufferFull' = [bufferFull EXCEPT ![buf[t]] = FALSE]
    /\ reg' = [reg EXCEPT ![t] = CANtxCount]
    /\ Goto(t, "sendDec")
    /\ UNCHANGED <<CANtxCount, ifTxOverflow, moduleTxOverflow, buf, unsent>>

(* bufferFull = true and the load of CANtxCount++.                         *)
SendSet(t) ==
    /\ pc[t] = "sendSet"
    /\ bufferFull' = [bufferFull EXCEPT ![buf[t]] = TRUE]
    /\ reg' = [reg EXCEPT ![t] = CANtxCount]
    /\ Goto(t, "sendInc")
    /\ UNCHANGED <<CANtxCount, ifTxOverflow, moduleTxOverflow, buf, unsent>>

(* The store of CANtxCount-- or CANtxCount++, modulo 2^16; CO_CANsend      *)
(* returns.                                                                *)
Store(t, from, delta) ==
    /\ pc[t] = from
    /\ CANtxCount' = (reg[t] + delta) % UINT16
    /\ Goto(t, "idle")
    /\ UNCHANGED <<bufferFull, ifTxOverflow, moduleTxOverflow, buf, reg, unsent>>

(* CO_CANmodule_process up to the loop's bufferFull test: the error status *)
(* is copied, and with CANtxCount > 0 the first full buffer is chosen, or  *)
(* none is found.                                                          *)
ProcessScan ==
    LET t    == MAINLINE
        full == {b \in Buffers : bufferFull[b]}
    IN  /\ pc[t] = "idle"
        /\ moduleTxOverflow' = ifTxOverflow
        /\ IF CANtxCount = 0
             THEN UNCHANGED <<pc, buf>>
           ELSE IF full # {}
             THEN /\ buf' = [buf EXCEPT ![t] = CHOOSE b \in full : \A c \in full : b <= c]
                  /\ Goto(t, "procClear")
           ELSE /\ Goto(t, "procZero")
                /\ UNCHANGED buf
        /\ UNCHANGED <<bufferFull, CANtxCount, ifTxOverflow, reg, unsent>>

(* buffer->bufferFull = false and the load of CANtxCount--.                *)
ProcClear ==
    LET t == MAINLINE IN
    /\ pc[t] = "procClear"
    /\ bufferFull' = [bufferFull EXCEPT ![buf[t]] = FALSE]
    /\ reg' = [reg EXCEPT ![t] = CANtxCount]
    /\ Goto(t, "procDec")
    /\ UNCHANGED <<CANtxCount, ifTxOverflow, moduleTxOverflow, buf, unsent>>

(* Variant of ProcDec that drops the buffer without sending it again.      *)
ProcDecNoResend ==
    LET t == MAINLINE IN
    /\ pc[t] = "procDec"
    /\ CANtxCount' = (reg[t] + UINT16 - 1) % UINT16
    /\ Goto(t, "idle")
    /\ UNCHANGED <<bufferFull, ifTxOverflow, moduleTxOverflow, buf, reg, unsent>>

(* The store of CANtxCount--, then CO_CANsend(CANmodule, buffer).          *)
ProcDec ==
    LET t == MAINLINE IN
    /\ pc[t] = "procDec"
    /\ CANtxCount' = (reg[t] + UINT16 - 1) % UINT16
    /\ Goto(t, "send")
    /\ UNCHANGED <<bufferFull, ifTxOverflow, moduleTxOverflow, buf, reg, unsent>>

(* if (!found) CANtxCount = 0.                                             *)
ProcZero ==
    LET t == MAINLINE IN
    /\ pc[t] = "procZero"
    /\ CANtxCount' = 0
    /\ Goto(t, "idle")
    /\ UNCHANGED <<bufferFull, ifTxOverflow, moduleTxOverflow, buf, reg, unsent>>

(* CO_CANtxBufferInit, called on the mainline when a protocol object is    *)
(* (re)configured, e.g. a PDO COB-ID written over SDO: the buffer is       *)
(* emptied without touching CANtxCount, and its message abandoned.         *)
TxBufferInit(b) ==
    /\ pc[MAINLINE] = "idle"
    /\ CANtxCount < MAX_TXCOUNT
    /\ bufferFull' = [bufferFull EXCEPT ![b] = FALSE]
    /\ unsent' = [unsent EXCEPT ![b] = FALSE]
    /\ UNCHANGED <<CANtxCount, ifTxOverflow, moduleTxOverflow, pc, buf, reg>>

(* One step of thread t inside the driver.                                 *)
Step(t) ==
    \/ SendOk(t) \/ SendBusy(t) \/ SendError(t)
    \/ SendClear(t) \/ SendSet(t)
    \/ Store(t, "sendDec", UINT16 - 1) \/ Store(t, "sendInc", 1)
    \/ t = MAINLINE /\ (ProcClear \/ ProcDec \/ ProcZero)

Next ==
    \/ \E t \in Threads, b \in Buffers : Request(t, b)
    \/ \E t \in Threads : Step(t)
    \/ ProcessScan
    \/ \E b \in Buffers : TxBufferInit(b)

(* Every thread that is inside the driver keeps running; the mainline      *)
(* calls CO_CANmodule_process on every iteration of its loop, between the  *)
(* sends of its protocol objects, so it is taken whenever it is enabled    *)
(* infinitely often (strong fairness); and a                               *)
(* socket that refuses a frame keeps draining, so a frame whose send is    *)
(* retried forever eventually gets through.                                *)
Fairness ==
    /\ \A t \in Threads : WF_vars(Step(t))
    /\ \A t \in Threads, b \in Buffers : SF_vars(buf[t] = b /\ SendOk(t))
    /\ SF_vars(ProcessScan)

Spec == Init /\ [][Next]_vars /\ Fairness

-----------------------------------------------------------------------------
TypeOK ==
    /\ bufferFull \in [Buffers -> BOOLEAN]
    /\ CANtxCount \in 0..(UINT16 - 1)
    /\ ifTxOverflow \in BOOLEAN /\ moduleTxOverflow \in BOOLEAN
    /\ pc \in [Threads -> PCs]
    /\ buf \in [Threads -> Buffers]
    /\ reg \in [Threads -> 0..(UINT16 - 1)]
    /\ unsent \in [Buffers -> BOOLEAN]

Quiescent == \A t \in Threads : pc[t] = "idle"

(* CO_CANsend and CO_CANmodule_process keep CANtxCount an upper bound on   *)
(* the number of full buffers whenever no thread is inside the driver: a   *)
(* full buffer is never left uncounted, which is what makes                *)
(* CO_CANmodule_process look for it (it scans only while CANtxCount > 0).  *)
CountCoversFull ==
    Quiescent => Cardinality({b \in Buffers : bufferFull[b]}) <= CANtxCount

(* A frame CO_CANsend could not hand to the kernel is eventually written   *)
(* by the retry in CO_CANmodule_process, or reported lost through the      *)
(* TX_OVERFLOW error bit, or abandoned by CO_CANtxBufferInit, once the     *)
(* protocol objects stop handing the driver new frames.  (While they keep  *)
(* sending, the retry of the lowest full buffer in every iteration may     *)
(* starve the others: the loop in CO_CANmodule_process breaks after the    *)
(* first full buffer.)                                                     *)
DeferredEventuallySent ==
    (<>[][\A t \in Threads, b \in Buffers : ~Request(t, b)]_vars)
        => \A b \in Buffers : unsent[b] ~> ~unsent[b]
=============================================================================
