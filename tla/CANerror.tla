------------------------------ MODULE CANerror ------------------------------
(***************************************************************************)
(* The CAN error monitor of one SocketCAN interface (src/CO_error.c): the  *)
(* CO_CANinterfaceErrorhandler_t record, the bus-state machine driven by   *)
(* the kernel's error frames, the "listen-only" fallback entered on        *)
(* bus-off or on a run of missing ACKs, and its two ways out: a received   *)
(* data frame, or a TX attempt more than CO_CANerror_LISTEN_ONLY seconds   *)
(* after entry.                                                            *)
(*                                                                         *)
(* Time is CLOCK_MONOTONIC counted in ticks of 1/TICKS_PER_SEC second; the *)
(* code keeps and compares only the tv_sec part of the entry timestamp.    *)
(* An error frame is abstracted to its BUSOFF, ACK and CRTL bits and, for  *)
(* a CRTL frame, the first data[1] bit the code's else-if chain tests      *)
(* (the later bits of a multi-bit data[1] are never looked at).            *)
(***************************************************************************)
EXTENDS Naturals

CONSTANTS
    NOACK_MAX,        \* CO_CANerror_NOACK_MAX
    LISTEN_ONLY_SEC,  \* CO_CANerror_LISTEN_ONLY, in seconds
    TICKS_PER_SEC,    \* resolution of the model clock
    MAX_TICKS,        \* bound: the clock stops at this tick
    MAX_RESETS,       \* bound: number of "ip link set down/up" commands
    MAX_DROPS         \* bound: frames the kernel drops from one socket's queue

ASSUME NOACK_MAX \in Nat /\ LISTEN_ONLY_SEC \in Nat
       /\ TICKS_PER_SEC \in Nat \ {0} /\ MAX_TICKS \in Nat /\ MAX_RESETS \in Nat
       /\ MAX_DROPS \in Nat

VARIABLES
    noackCounter,    \* CANerrorhandler->noackCounter
    listenOnly,      \* CANerrorhandler->listenOnly
    timestamp,       \* CANerrorhandler->timestamp.tv_sec
    CANerrorStatus,  \* CANerrorhandler->CANerrorStatus, as a set of flags
    ifResets,        \* system("ip link set <if> down && ... up &") calls
    now,             \* CLOCK_MONOTONIC, in ticks
    loSince,         \* ghost: tick of the last entry into listen-only
    rxDropCount,     \* CANmodule->rxDropCount
    sockDrops,       \* the kernel's drop count of the socket open now
    readDrops        \* ghost: largest SO_RXQ_OVFL count read from that socket

vars == <<noackCounter, listenOnly, timestamp, CANerrorStatus, ifResets,
          now, loSince, rxDropCount, sockDrops, readDrops>>

dropVars == <<rxDropCount, sockDrops, readDrops>>

\* The CO_CAN_ERR_status_t bits this file sets or clears.
StatusFlags == {"BUS_OFF", "RX_PASSIVE", "TX_PASSIVE", "RX_OVERFLOW", "TX_OVERFLOW"}

\* CAN_ERR_CRTL_* bits of data[1] in the order CO_CANerrorCrtl tests them;
\* "ACTIVE" also stands for a CRTL frame with none of the bits set.
CrtlCodes == {"RX_PASSIVE", "TX_PASSIVE", "RX_OVERFLOW", "TX_OVERFLOW",
              "RX_WARNING", "TX_WARNING", "ACTIVE"}

ErrorFrames ==
    {[busoff |-> b, ack |-> a, crtl |-> c] :
        b \in BOOLEAN, a \in BOOLEAN, c \in CrtlCodes \cup {"none"}}

Sec(t) == t \div TICKS_PER_SEC

(* Init: CO_CANerror_init, called for the interface by                     *)
(* CO_CANmodule_addInterface.                                              *)
Init ==
    /\ noackCounter = 0
    /\ listenOnly = FALSE
    /\ timestamp = 0
    /\ CANerrorStatus = {}
    /\ ifResets = 0
    /\ now = 0
    /\ loSince = 0
    /\ rxDropCount = 0
    /\ sockDrops = 0
    /\ readDrops = 0

(* Variant of SetListenOnly that keeps the entry time in ticks instead of  *)
(* whole seconds.                                                          *)
SetListenOnlyTicks ==
    /\ timestamp' = now
    /\ listenOnly' = TRUE
    /\ ifResets' = ifResets + 1
    /\ loSince' = now

(* CO_CANerrorSetListenOnly(handler, true): entry time, flag, and the      *)
(* interface-reset shell command.                                          *)
SetListenOnly ==
    /\ timestamp' = Sec(now)
    /\ listenOnly' = TRUE
    /\ ifResets' = ifResets + 1
    /\ loSince' = now

(* CO_CANerrorClearListenOnly.                                             *)
ClearListenOnly ==
    /\ listenOnly' = FALSE
    /\ timestamp' = 0

(* The status update of CO_CANerrorCrtl for a CRTL frame: BUS_OFF is       *)
(* cleared, then the first matching data[1] bit sets or clears one flag.   *)
CrtlStatus(st, code) ==
    LET s == st \ {"BUS_OFF"}
    IN  CASE code \in {"RX_PASSIVE", "TX_PASSIVE", "RX_OVERFLOW", "TX_OVERFLOW"}
                 -> s \cup {code}
          [] code = "RX_WARNING" -> s \ {"RX_PASSIVE"}
          [] code = "TX_WARNING" -> s \ {"TX_PASSIVE"}
          [] OTHER -> s

(* CO_CANerrorBusoff for a frame with CAN_ERR_BUSOFF: listen-only with an  *)
(* interface reset, and the BUS_OFF status bit added to status st.        *)
Busoff(st) ==
    /\ SetListenOnly
    /\ CANerrorStatus' = st \cup {"BUS_OFF"}

(* CO_CANerrorNoack: nothing while listen-only; an ACK error counts, and   *)
(* the count exceeding NOACK_MAX enters listen-only; any other error frame *)
(* resets the count.                                                       *)
Noack(f) ==
    CASE listenOnly ->
            UNCHANGED <<noackCounter, listenOnly, timestamp, ifResets, loSince>>
      [] f.ack /\ noackCounter + 1 > NOACK_MAX ->
            noackCounter' = noackCounter + 1 /\ SetListenOnly
      [] f.ack ->
            /\ noackCounter' = noackCounter + 1
            /\ UNCHANGED <<listenOnly, timestamp, ifResets, loSince>>
      [] OTHER ->
            /\ noackCounter' = 0
            /\ UNCHANGED <<listenOnly, timestamp, ifResets, loSince>>

(* The drop counts a frame read now can carry: the kernel stamps a frame  *)
(* with the socket's drop count when it queues it, and frames are read in *)
(* queue order.                                                            *)
DropStamps == readDrops..sockDrops

(* The status after CO_CANread of a frame stamped d: the kernel attaches  *)
(* the SO_RXQ_OVFL message only for d > 0, and the driver reports it as   *)
(* RX overflow when it exceeds CANmodule->rxDropCount.                     *)
ReadStatus(d) ==
    IF d > 0 /\ d > rxDropCount THEN CANerrorStatus \cup {"RX_OVERFLOW"}
                               ELSE CANerrorStatus

(* The rest of a successful CO_CANread of a frame stamped d:               *)
(* rxDropCount = dropped, only when the control message is present.        *)
CANread(d) ==
    /\ rxDropCount' = IF d > 0 THEN d ELSE rxDropCount
    /\ readDrops' = d
    /\ UNCHANGED sockDrops

(* CO_CANread whose recvmsg() does not return CAN_MTU (an error became    *)
(* pending after epoll_wait): RX overflow is set and the frame is lost.    *)
CANreadFail ==
    /\ CANerrorStatus' = CANerrorStatus \cup {"RX_OVERFLOW"}
    /\ UNCHANGED <<noackCounter, listenOnly, timestamp, ifResets, now, loSince,
                   dropVars>>

(* CO_CANrxFromEpoll reading a frame while CANnormal is false: CO_CANread  *)
(* runs, and the frame goes to no handler.                                 *)
RxNotNormal(d) ==
    /\ CANread(d)
    /\ CANerrorStatus' = ReadStatus(d)
    /\ UNCHANGED <<noackCounter, listenOnly, timestamp, ifResets, now, loSince>>

(* CO_CANread of an error frame stamped d, then CO_CANerror_rxMsgError:    *)
(* CO_CANerrorBusoff, whose LISTEN_ONLY result ends the handler; else      *)
(* CO_CANerrorCrtl (always ACTIVE), then CO_CANerrorNoack.                 *)
RxMsgError(f, d) ==
    /\ ifResets < MAX_RESETS
    /\ CANread(d)
    /\ IF f.busoff
         THEN Busoff(ReadStatus(d)) /\ UNCHANGED noackCounter
         ELSE /\ CANerrorStatus' = IF f.crtl = "none" THEN ReadStatus(d)
                                                      ELSE CrtlStatus(ReadStatus(d), f.crtl)
              /\ Noack(f)
    /\ UNCHANGED now

(* CO_CANread of a data frame stamped d, then CO_CANerror_rxMsg.           *)
RxMsg(d) ==
    /\ CANread(d)
    /\ CANerrorStatus' = ReadStatus(d)
    /\ IF listenOnly THEN ClearListenOnly ELSE UNCHANGED <<listenOnly, timestamp>>
    /\ noackCounter' = 0
    /\ UNCHANGED <<ifResets, now, loSince>>

(* Variant of the exit test below with `<=` for `<`.                       *)
ListenOnlyExpiredInclusive == timestamp + LISTEN_ONLY_SEC <= Sec(now)

(* The exit test of CO_CANerror_txMsg, on whole seconds only.              *)
ListenOnlyExpired == timestamp + LISTEN_ONLY_SEC < Sec(now)

(* CO_CANerror_txMsg: queried before a send; a probe is allowed, and       *)
(* listen-only cleared, once the entry second is long enough ago.  Only    *)
(* the multi-interface CO_CANCheckSendInterface calls it; in the default   *)
(* single-interface build no step takes this action.                       *)
TxMsg ==
    /\ IF listenOnly /\ ListenOnlyExpired
         THEN ClearListenOnly
         ELSE UNCHANGED <<listenOnly, timestamp>>
    /\ UNCHANGED <<noackCounter, CANerrorStatus, ifResets, now, loSince, dropVars>>

(* Communication reset: CO_CANmodule_disable calls CO_CANerror_disable    *)
(* and closes the socket; CO_CANmodule_init and CO_CANmodule_addInterface  *)
(* open a new socket, whose kernel drop count starts at 0, and call        *)
(* CO_CANerror_init, which zeroes the handler.  CO_CANmodule_init leaves   *)
(* rxDropCount as it was.                                                  *)
ReInit ==
    /\ noackCounter' = 0
    /\ listenOnly' = FALSE
    /\ timestamp' = 0
    /\ CANerrorStatus' = {}
    /\ sockDrops' = 0
    /\ readDrops' = 0
    /\ UNCHANGED <<ifResets, now, loSince, rxDropCount>>

(* The socket's receive queue is full and the kernel drops a frame.        *)
KernelDrop ==
    /\ sockDrops < MAX_DROPS
    /\ sockDrops' = sockDrops + 1
    /\ UNCHANGED <<noackCounter, listenOnly, timestamp, CANerrorStatus,
                   ifResets, now, loSince, rxDropCount, readDrops>>

(* The monotonic clock advances.                                           *)
Tick ==
    /\ now < MAX_TICKS
    /\ now' = now + 1
    /\ UNCHANGED <<noackCounter, listenOnly, timestamp, CANerrorStatus,
                   ifResets, loSince, dropVars>>

Next ==
    \/ \E f \in ErrorFrames, d \in DropStamps : RxMsgError(f, d)
    \/ \E d \in DropStamps : RxMsg(d) \/ RxNotNormal(d)
    \/ CANreadFail
    \/ TxMsg
    \/ ReInit
    \/ KernelDrop
    \/ Tick

Spec == Init /\ [][Next]_vars

-----------------------------------------------------------------------------
TypeOK ==
    /\ noackCounter \in Nat
    /\ listenOnly \in BOOLEAN
    /\ timestamp \in 0..Sec(MAX_TICKS)
    /\ CANerrorStatus \subseteq StatusFlags
    /\ ifResets \in 0..MAX_RESETS
    /\ now \in 0..MAX_TICKS
    /\ loSince \in 0..MAX_TICKS
    /\ rxDropCount \in 0..MAX_DROPS
    /\ readDrops \in 0..sockDrops
    /\ sockDrops \in 0..MAX_DROPS

(* Spec §5 invariant 5, about CO_CANerror_txMsg: a TX attempt never ends   *)
(* listen-only unless more than LISTEN_ONLY_SEC seconds of monotonic time  *)
(* have passed since the interface last entered it (the code compares only *)
(* tv_sec, so the sub-second part of both instants is dropped).            *)
MinimumDwell ==
    [][TxMsg /\ listenOnly /\ ~listenOnly'
         => now - loSince > LISTEN_ONLY_SEC * TICKS_PER_SEC]_vars

(* Spec §4.C poll_event ("capture the kernel drop counter and report       *)
(* increases as RX overflow"), about CO_CANread and the rxDropCount that   *)
(* CO_CANmodule_init keeps across communication resets: once a frame read  *)
(* from the current socket has shown that the socket dropped frames, the  *)
(* interface's error status has RX overflow set.                           *)
DropsReported ==
    readDrops > 0 => "RX_OVERFLOW" \in CANerrorStatus
=============================================================================
