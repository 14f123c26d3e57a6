------------------------------ MODULE Runtime ------------------------------
(***************************************************************************)
(* The two threads of CO_main_basic.c (src/unnamed/part_002) around the    *)
(* SocketCAN receive path of CO_driver.c (part_001) and the epoll event    *)
(* loops of CO_epoll_interface.c (part_000), default multi-thread build,   *)
(* one CAN interface.                                                      *)
(*                                                                         *)
(*  - the mainline runs the communication-reset loop (CANnormal off under  *)
(*    the OD lock, CO_CANmodule_disable, CO_CANmodule_init with its        *)
(*    addInterface, the CO_CANrxBufferInit calls of the stack, the RT      *)
(*    thread's creation on the first pass, CO_CANsetNormalMode) and its    *)
(*    inner loop (CO_epoll_wait on epMain, processMain, processLast), and  *)
(*    at the end joins the RT thread;                                      *)
(*  - the RT thread loops CO_epoll_wait on epRT (its 1 ms timerfd and the  *)
(*    CAN socket), CO_epoll_processRT (CO_CANrxFromEpoll, then SYNC/PDO    *)
(*    under the OD lock) and processLast until CO_endProgram;              *)
(*  - the kernel: each CAN socket has a CAN_RAW filter list and a receive  *)
(*    queue; a closed descriptor number is reused by the next socket();    *)
(*    a socket in a blocked recvmsg() stays alive after close().           *)
(*                                                                         *)
(* can_id values keep their bit layout at a reduced width: SFF_MASK is the *)
(* identifier bits, then RTR, EFF and the rest of 0xFFFFFFFF.              *)
(***************************************************************************)
EXTENDS Naturals, Sequences, FiniteSets, Bitwise, FiniteSetsExt

CONSTANTS
    RX_SIZE,     \* CANmodule->rxSize
    RxCfg,       \* slot -> the CO_CANrxBufferInit arguments the stack passes
    InitOrder,   \* the slots in the order the stack initialises them
    N_OPEN,      \* how many of them CO_CANopenInit does (the rest: ...InitPDO)
    BusIds,      \* can_id values other nodes put on the bus
    QLEN,        \* bound: frames a socket queue holds (the kernel drops more)
    MAX_RESETS,  \* bound: communication resets CO_process requests
    EFD_MAX      \* bound: the eventfd counter saturates here (2^64-2 in Linux)

Slots == 0..RX_SIZE-1

\* <linux/can.h> at model width.
SFF_MASK == 3
RTR_FLAG == 4
EFF_FLAG == 8
ALL_ONES == 15   \* 0xFFFFFFFF

\* CANrx_callback values: none, a mainline object whose callback wakes the
\* mainline (NMT, SDO, HB consumer, EM, ...), or an RT object (SYNC, RPDO).
Callbacks == {"NULL", "wake", "rt"}

Gens == 1..MAX_RESETS + 2          \* socket generations, 0 = no socket
DefaultFilter == {[id |-> 0, mask |-> 0]}   \* a fresh CAN_RAW socket

ASSUME /\ RxCfg \in [Slots -> [ident : 0..SFF_MASK, mask : 0..SFF_MASK,
                              rtr : BOOLEAN, cb : Callbacks \ {"NULL"}]]
       /\ InitOrder \in Seq(Slots) /\ N_OPEN \in 0..Len(InitOrder)
       /\ BusIds \subseteq 0..ALL_ONES

VARIABLES
    \* CO_CANmodule_t
    CANnormal, ifCount, rxArray, rxFilter,
    \* the kernel: descriptor of the CAN socket, sockets, epRT interest list
    canSock, nextGen, socks, epollCan,
    \* the RT thread and epRT
    rtpc, rtNew, rtTimer, rtErr, rtHeld, rtMsg,
    \* the mainline, epMain and CO_main_basic.c globals
    mpc, mSlot, firstRun, reset, resets, endProgram, efd

drvVars == <<CANnormal, ifCount, rxArray, rxFilter>>
osVars  == <<canSock, nextGen, socks, epollCan>>
rtVars  == <<rtpc, rtNew, rtTimer, rtErr, rtHeld, rtMsg>>
mlVars  == <<mpc, mSlot, firstRun, reset, resets, endProgram, efd>>
vars    == <<drvVars, osVars, rtVars, mlVars>>

-----------------------------------------------------------------------------
\* Bitwise AND and XOR on can_id values, tabulated once.
Ids == 0..ALL_ONES
AndTab == [p \in Ids \X Ids |-> p[1] & p[2]]
XorTab == [p \in Ids \X Ids |-> p[1] ^^ p[2]]

(* The kernel's CAN_RAW filter test, and the driver's slot test.           *)
Admits(F, x) == \E f \in F : AndTab[x, f.mask] = AndTab[f.id, f.mask]
SlotMatches(s, x) == AndTab[XorTab[x, s.ident], s.mask] = 0

(* The loop of CO_CANrxMsg: the index of the first slot that matches.      *)
RECURSIVE MatchFrom(_, _, _)
MatchFrom(arr, x, i) ==
    IF i >= RX_SIZE THEN -1
    ELSE IF SlotMatches(arr[i], x) THEN i ELSE MatchFrom(arr, x, i + 1)
CANrxMsg(arr, x) == MatchFrom(arr, x, 0)

(* A frame reaches a protocol object: its first matching slot has a        *)
(* callback.                                                               *)
Delivered(arr, x) == LET i == CANrxMsg(arr, x) IN i >= 0 /\ arr[i].cb # "NULL"

(* Mutant of SetRxFilters: every slot is copied, the zero ones included.   *)
SetRxFiltersAll(flt) == {flt[i] : i \in Slots}

(* setRxFilters: the kernel list is the slots whose id and mask are not    *)
(* both 0; an empty list is disableRx (a NULL filter, nothing admitted).   *)
SetRxFilters(flt) ==
    {flt[i] : i \in {j \in Slots : flt[j].id # 0 \/ flt[j].mask # 0}}

(* wakeupCallback: write(event_fd, 1); a full counter refuses the write.   *)
WakeupCallback(n) == IF n < EFD_MAX THEN n + 1 ELSE n

\* CO_OD_mutex: the mainline takes it only within one step (MainTop), so
\* it is held across steps only by the RT thread's SYNC/PDO processing.
RtHoldsOd == rtpc = "pdo"

Alive(g) == g # 0 /\ (g = canSock \/ g = rtHeld)
Cur == socks[canSock]

SetFilter(g, F) == socks' = [socks EXCEPT ![g].filter = F]

-----------------------------------------------------------------------------
(* main() before the reset loop: epMain and epRT created, the CAN module   *)
(* zeroed by CO_new, reset = CO_RESET_NOT, firstRun = true.                *)
Init ==
    /\ CANnormal = FALSE /\ ifCount = 0
    /\ rxArray = [i \in Slots |-> [ident |-> 0, mask |-> 0, cb |-> "NULL"]]
    /\ rxFilter = <<>>
    /\ canSock = 0 /\ nextGen = 1
    /\ socks = [g \in Gens |-> [filter |-> DefaultFilter, q |-> <<>>, err |-> FALSE]]
    /\ epollCan = FALSE
    /\ rtpc = "none" /\ rtNew = FALSE /\ rtTimer = FALSE /\ rtErr = FALSE
    /\ rtHeld = 0 /\ rtMsg = 0
    /\ mpc = "top" /\ mSlot = 1 /\ firstRun = TRUE /\ reset = "NOT"
    /\ resets = 0 /\ endProgram = FALSE /\ efd = 0

(* Mutant of MainTop: CANnormal is cleared without taking CO_LOCK_OD.     *)
MainTopNoLock ==
    /\ mpc = "top"
    /\ IF reset \notin {"APP", "QUIT"} /\ ~endProgram
         THEN /\ CANnormal' = (CANnormal /\ firstRun)
              /\ mpc' = "disable"
              /\ UNCHANGED endProgram
         ELSE /\ endProgram' = TRUE
              /\ mpc' = "join"
              /\ UNCHANGED CANnormal
    /\ UNCHANGED <<ifCount, rxArray, rxFilter, osVars, rtVars, mSlot, firstRun,
                   reset, resets, efd>>

(* Top of the communication-reset loop: leave it on APP, QUIT or           *)
(* CO_endProgram (then CO_endProgram = 1 and the join); otherwise, after   *)
(* the first pass, CANnormal = false under CO_LOCK_OD, which waits while  *)
(* the RT thread holds it.                                                 *)
MainTop ==
    /\ mpc = "top"
    /\ IF reset \notin {"APP", "QUIT"} /\ ~endProgram
         THEN /\ firstRun \/ ~RtHoldsOd
              /\ CANnormal' = (CANnormal /\ firstRun)
              /\ mpc' = "disable"
              /\ UNCHANGED endProgram
         ELSE /\ endProgram' = TRUE
              /\ mpc' = "join"
              /\ UNCHANGED CANnormal
    /\ UNCHANGED <<ifCount, rxArray, rxFilter, osVars, rtVars, mSlot, firstRun,
                   reset, resets, efd>>

(* CO_CANsetConfigurationMode (empty) and CO_CANmodule_disable: CANnormal  *)
(* off, the socket removed from epRT and closed, the interface array and   *)
(* rxFilter freed.                                                         *)
Disable ==
    /\ mpc = "disable"
    /\ CANnormal' = FALSE
    /\ ifCount' = 0
    /\ rxFilter' = <<>>
    /\ canSock' = 0
    /\ epollCan' = FALSE
    /\ mpc' = "init"
    /\ UNCHANGED <<rxArray, nextGen, socks, rtVars, mSlot, firstRun, reset,
                   resets, endProgram, efd>>

(* CO_CANmodule_addInterface up to the epoll ADD (CANnormal is false):     *)
(* one interface, a new CAN_RAW socket on the lowest free descriptor (the  *)
(* one CO_CANmodule_disable closed), bound with the kernel's default       *)
(* filter, its error filter set, watched by epRT.                          *)
AddInterface ==
    /\ ifCount' = 1
    /\ canSock' = nextGen
    /\ nextGen' = nextGen + 1
    /\ socks' = [socks EXCEPT ![nextGen] = [filter |-> DefaultFilter, q |-> <<>>,
                                            err |-> FALSE]]
    /\ epollCan' = TRUE

(* CO_CANmodule_init: every slot ident 0, mask 0xFFFFFFFF, no callback;    *)
(* rxFilter calloc'ed; CANnormal false; then addInterface.                 *)
ModuleInit ==
    /\ mpc = "init"
    /\ nextGen \in Gens
    /\ rxArray' = [i \in Slots |-> [ident |-> 0, mask |-> ALL_ONES, cb |-> "NULL"]]
    /\ rxFilter' = [i \in Slots |-> [id |-> 0, mask |-> 0]]
    /\ CANnormal' = FALSE
    /\ AddInterface
    /\ mpc' = "addif2"
    /\ UNCHANGED <<rtVars, mSlot, firstRun, reset, resets, endProgram, efd>>

(* The end of addInterface: disableRx installs an empty filter list.       *)
DisableRx ==
    /\ mpc = "addif2"
    /\ SetFilter(canSock, {})
    /\ mpc' = "open"
    /\ mSlot' = 1
    /\ UNCHANGED <<drvVars, canSock, nextGen, epollCan, rtVars, firstRun, reset,
                   resets, endProgram, efd>>

(* CO_CANrxBufferInit(index, ident, mask, rtr, object, callback).          *)
RxBufferInit(i, c) ==
    LET id == (c.ident & SFF_MASK) | (IF c.rtr THEN RTR_FLAG ELSE 0)
        mk == (c.mask & SFF_MASK) | EFF_FLAG | RTR_FLAG
        flt == [rxFilter EXCEPT ![i] = [id |-> id, mask |-> mk]]
    IN  /\ rxArray' = [rxArray EXCEPT ![i] = [ident |-> id, mask |-> mk, cb |-> c.cb]]
        /\ rxFilter' = flt
        /\ IF CANnormal THEN SetFilter(canSock, SetRxFilters(flt))
                        ELSE UNCHANGED socks

(* The stack's next CO_CANrxBufferInit call: CO_CANopenInit's slots, then  *)
(* (after the RT thread exists) CO_CANopenInitPDO's.                       *)
InitSlot ==
    /\ \/ mpc = "open" /\ mSlot <= N_OPEN
       \/ mpc = "pdo" /\ mSlot <= Len(InitOrder)
    /\ RxBufferInit(InitOrder[mSlot], RxCfg[InitOrder[mSlot]])
    /\ mSlot' = mSlot + 1
    /\ UNCHANGED <<CANnormal, ifCount, canSock, nextGen, epollCan, rtVars, mpc,
                   firstRun, reset, resets, endProgram, efd>>

(* After CO_CANopenInit: CO_epoll_initCANopenMain registers the wake-up    *)
(* callbacks; on the first pass the RT thread is created.                  *)
StartRT ==
    /\ mpc = "open" /\ mSlot > N_OPEN
    /\ IF firstRun THEN rtpc' = "wait" ELSE UNCHANGED rtpc
    /\ firstRun' = FALSE
    /\ mpc' = "pdo"
    /\ UNCHANGED <<drvVars, osVars, rtNew, rtTimer, rtErr, rtHeld, rtMsg, mSlot,
                   reset, resets, endProgram, efd>>

(* CO_CANsetNormalMode: CANnormal off, setRxFilters, CANnormal on; then    *)
(* reset = CO_RESET_NOT.                                                   *)
SetNormalMode ==
    /\ mpc = "pdo" /\ mSlot > Len(InitOrder)
    /\ SetFilter(canSock, SetRxFilters(rxFilter))
    /\ CANnormal' = TRUE
    /\ reset' = "NOT"
    /\ mpc' = "loop"
    /\ UNCHANGED <<ifCount, rxArray, rxFilter, canSock, nextGen, epollCan, rtVars,
                   mSlot, firstRun, resets, endProgram, efd>>

(* The inner loop's condition.                                             *)
MainLoop ==
    /\ mpc = "loop"
    /\ mpc' = IF reset = "NOT" /\ ~endProgram THEN "wait" ELSE "top"
    /\ UNCHANGED <<drvVars, osVars, rtVars, mSlot, firstRun, reset, resets,
                   endProgram, efd>>

(* CO_epoll_wait(&epMain): the 100 ms timerfd, or the eventfd, whose read  *)
(* returns the whole counter and zeroes it.                                *)
MainWait ==
    /\ mpc = "wait"
    /\ \/ UNCHANGED efd
       \/ efd > 0 /\ efd' = 0
    /\ mpc' = "main"
    /\ UNCHANGED <<drvVars, osVars, rtVars, mSlot, firstRun, reset, resets, endProgram>>

(* One iteration's processGtw, CO_epoll_processMain (CO_process may ask    *)
(* for a communication reset), processLast and the storage tick.           *)
MainProcess ==
    /\ mpc = "main"
    /\ \E r \in {"NOT"} \cup (IF resets < MAX_RESETS THEN {"COMM"} ELSE {}) :
          /\ reset' = r
          /\ resets' = IF r = "COMM" THEN resets + 1 ELSE resets
    /\ mpc' = "loop"
    /\ UNCHANGED <<drvVars, osVars, rtVars, mSlot, firstRun, endProgram, efd>>

(* After the loop: pthread_join(rt_thread), then the final save, the       *)
(* epoll objects closed and CO_delete.  With rtpc = "none" (a signal       *)
(* before the first pass) rt_thread_id is an uninitialised local: the      *)
(* join either fails, and main exits with EXIT_FAILURE, or faults; the     *)
(* model keeps only that the process ends.                                 *)
MainJoin ==
    /\ mpc = "join"
    /\ rtpc \in {"none", "exit"}
    /\ mpc' = "exit"
    /\ UNCHANGED <<drvVars, osVars, rtVars, mSlot, firstRun, reset, resets,
                   endProgram, efd>>

-----------------------------------------------------------------------------
(* rt_thread's loop condition.                                             *)
RtExit ==
    /\ rtpc = "wait" /\ endProgram
    /\ rtpc' = "exit"
    /\ UNCHANGED <<drvVars, osVars, rtNew, rtTimer, rtErr, rtHeld, rtMsg, mlVars>>

(* CO_epoll_wait(&epRT): the 1 ms timerfd (epoll_new cleared, timerEvent  *)
(* set), or the CAN socket if it is watched and readable or in error.     *)
RtWaitTimer ==
    /\ rtpc = "wait" /\ ~endProgram
    /\ rtNew' = FALSE /\ rtTimer' = TRUE /\ rtErr' = FALSE
    /\ rtpc' = "rx"
    /\ UNCHANGED <<drvVars, osVars, rtHeld, rtMsg, mlVars>>

RtWaitCan ==
    /\ rtpc = "wait" /\ ~endProgram
    /\ epollCan /\ (Cur.q # <<>> \/ Cur.err)
    /\ rtNew' = TRUE /\ rtTimer' = FALSE /\ rtErr' = Cur.err
    /\ rtpc' = "rx"
    /\ UNCHANGED <<drvVars, osVars, rtHeld, rtMsg, mlVars>>

RtWait == RtWaitTimer \/ RtWaitCan

(* CO_epoll_processRT, first part: with epoll_new, CO_CANrxFromEpoll. No   *)
(* interface: not consumed. The event's descriptor is compared with the    *)
(* interface's, which names whatever socket is on that number now. On      *)
(* EPOLLERR/HUP a recv(MSG_DONTWAIT) takes the pending error or a frame;   *)
(* on EPOLLIN, CO_CANread's recvmsg() follows.                             *)
RtPoll ==
    /\ rtpc = "rx"
    /\ IF rtNew /\ ifCount > 0
         THEN IF rtErr
                THEN /\ socks' = [socks EXCEPT ![canSock] =
                                     IF @.err THEN [@ EXCEPT !.err = FALSE]
                                     ELSE [@ EXCEPT !.q = IF @ = <<>> THEN @ ELSE Tail(@)]]
                     /\ rtNew' = FALSE /\ rtpc' = "od" /\ UNCHANGED rtHeld
                ELSE /\ rtHeld' = canSock /\ rtpc' = "read"
                     /\ UNCHANGED <<socks, rtNew>>
         ELSE /\ rtpc' = "od" /\ UNCHANGED <<socks, rtNew, rtHeld>>
    /\ UNCHANGED <<drvVars, canSock, nextGen, epollCan, rtTimer, rtErr, rtMsg, mlVars>>

(* CO_CANread: recvmsg() without MSG_DONTWAIT on a blocking socket returns *)
(* a pending socket error or the next frame, and waits while there is      *)
(* neither. A frame goes on only if CANnormal (CO_CANrxFromEpoll 1696).    *)
RtRead ==
    /\ rtpc = "read"
    /\ socks[rtHeld].q # <<>> \/ socks[rtHeld].err
    /\ IF socks[rtHeld].err
         THEN /\ socks' = [socks EXCEPT ![rtHeld].err = FALSE]
              /\ rtpc' = "od" /\ UNCHANGED rtMsg
         ELSE /\ socks' = [socks EXCEPT ![rtHeld].q = Tail(@)]
              /\ rtMsg' = Head(socks[rtHeld].q)
              /\ rtpc' = IF CANnormal THEN "dispatch" ELSE "od"
    /\ rtHeld' = 0
    /\ rtNew' = FALSE
    /\ UNCHANGED <<drvVars, canSock, nextGen, epollCan, rtTimer, rtErr, mlVars>>

(* The data-frame branch of CO_CANrxFromEpoll: CO_CANrxMsg scans rxArray   *)
(* as it is now and calls the first matching slot's callback; a mainline   *)
(* object's callback calls wakeupCallback.                                 *)
RtDispatch ==
    /\ rtpc = "dispatch"
    /\ LET i == CANrxMsg(rxArray, rtMsg)
           wakes == i >= 0 /\ rxArray[i].cb = "wake"
       IN  /\ efd' = IF wakes THEN WakeupCallback(efd) ELSE efd
    /\ rtpc' = "od"
    /\ UNCHANGED <<drvVars, osVars, rtNew, rtTimer, rtErr, rtHeld, rtMsg, mpc,
                   mSlot, firstRun, reset, resets, endProgram>>

(* CO_epoll_processLast(&epRT): epoll_new cleared; pTimerNext is NULL in   *)
(* the RT thread, so the timer is never re-armed early.                    *)
ProcessLast == rtNew' = FALSE /\ rtTimer' = FALSE /\ rtpc' = "wait"

(* CO_epoll_processRT, second part: on a timer event, CO_LOCK_OD and, if   *)
(* CANnormal (the node-id is configured), SYNC, RPDO and TPDO processing;  *)
(* otherwise the lock is released at once and processLast follows.         *)
RtRealtime ==
    /\ rtpc = "od"
    /\ IF rtTimer /\ CANnormal THEN rtpc' = "pdo" /\ UNCHANGED <<rtNew, rtTimer>>
                               ELSE ProcessLast
    /\ UNCHANGED <<drvVars, osVars, rtErr, rtHeld, rtMsg, mlVars>>

(* CO_process_SYNC, _RPDO and _TPDO on the OD, CO_UNLOCK_OD, processLast. *)
RtPdo ==
    /\ rtpc = "pdo"
    /\ ProcessLast
    /\ UNCHANGED <<drvVars, osVars, rtErr, rtHeld, rtMsg, mlVars>>

-----------------------------------------------------------------------------
(* Environment. Another node sends frame x: every live socket whose filter *)
(* admits it queues it, or drops it when the queue is full.                *)
BusFrame(x) ==
    /\ \E g \in Gens : Alive(g) /\ Admits(socks[g].filter, x) /\ Len(socks[g].q) < QLEN
    /\ socks' = [g \in Gens |->
                   IF Alive(g) /\ Admits(socks[g].filter, x) /\ Len(socks[g].q) < QLEN
                     THEN [socks[g] EXCEPT !.q = Append(@, x)] ELSE socks[g]]
    /\ UNCHANGED <<drvVars, canSock, nextGen, epollCan, rtVars, mlVars>>

(* The interface goes down and up (the error monitor's "ip link" command   *)
(* or an operator): the bound socket gets ENETDOWN as a pending error.     *)
IfError ==
    /\ canSock # 0 /\ ~Cur.err
    /\ socks' = [socks EXCEPT ![canSock].err = TRUE]
    /\ UNCHANGED <<drvVars, canSock, nextGen, epollCan, rtVars, mlVars>>

(* sigHandler: SIGINT or SIGTERM sets CO_endProgram.                       *)
SigHandler ==
    /\ ~endProgram
    /\ endProgram' = TRUE
    /\ UNCHANGED <<drvVars, osVars, rtVars, mpc, mSlot, firstRun, reset, resets,
                   efd>>

(* The process has exited.                                                 *)
Exited == mpc = "exit" /\ rtpc \in {"none", "exit"} /\ UNCHANGED vars

MainStep == MainTop \/ Disable \/ ModuleInit \/ DisableRx \/ InitSlot \/ StartRT
            \/ SetNormalMode \/ MainLoop \/ MainWait \/ MainProcess \/ MainJoin
RtStep == RtExit \/ RtWait \/ RtPoll \/ RtRead \/ RtDispatch \/ RtRealtime \/ RtPdo
Env == (\E x \in BusIds : BusFrame(x)) \/ IfError \/ SigHandler

Next == MainStep \/ RtStep \/ Env \/ Exited

(* Each thread is scheduled while it can run; a blocked recvmsg() is not   *)
(* runnable. The bus and the operator owe nothing.                         *)
Spec == Init /\ [][Next]_vars /\ WF_vars(MainStep) /\ WF_vars(RtStep)

-----------------------------------------------------------------------------
Filter == SUBSET [id : 0..ALL_ONES, mask : 0..ALL_ONES]

TypeOK ==
    /\ CANnormal \in BOOLEAN /\ ifCount \in 0..1
    /\ rxArray \in [Slots -> [ident : 0..ALL_ONES, mask : 0..ALL_ONES, cb : Callbacks]]
    /\ rxFilter \in {<<>>} \cup [Slots -> [id : 0..ALL_ONES, mask : 0..ALL_ONES]]
    /\ canSock \in {0} \cup Gens /\ nextGen \in 1..Cardinality(Gens) + 1
    /\ \A g \in Gens : /\ socks[g].filter \in Filter
                       /\ socks[g].q \in Seq(BusIds) /\ Len(socks[g].q) <= QLEN
                       /\ socks[g].err \in BOOLEAN
    /\ epollCan \in BOOLEAN
    /\ rtpc \in {"none", "wait", "rx", "read", "dispatch", "od", "pdo", "exit"}
    /\ rtNew \in BOOLEAN /\ rtTimer \in BOOLEAN /\ rtErr \in BOOLEAN
    /\ rtHeld \in {0} \cup Gens /\ rtMsg \in {0} \cup BusIds
    /\ mpc \in {"top", "disable", "init", "addif2", "open", "pdo", "loop", "wait",
                "main", "join", "exit"}
    /\ mSlot \in 1..Len(InitOrder) + 1 /\ firstRun \in BOOLEAN
    /\ reset \in {"NOT", "COMM", "APP", "QUIT"} /\ resets \in 0..MAX_RESETS
    /\ endProgram \in BOOLEAN /\ efd \in 0..EFD_MAX

(* Spec §8 invariant 1 and the filter-elision boundary: while CANnormal,   *)
(* the CAN_RAW filter list that setRxFilters installed on the socket       *)
(* admits exactly the frames that CO_CANrxMsg hands to a callback: no      *)
(* configured frame is filtered out, and the slots CO_CANopenInit never    *)
(* set (calloc'ed 0/0 filters) do not open the socket to every frame.      *)
FilterAgreesWithDispatch ==
    CANnormal => \A x \in BusIds : Admits(Cur.filter, x) <=> Delivered(rxArray, x)

(* Spec §5 (the RT thread never blocks on anything the mainline owns; it   *)
(* is joined on shutdown), about rt_thread, CO_CANrxFromEpoll and the     *)
(* join in main(): once CO_endProgram is set, the process exits.           *)
ShutdownJoins == endProgram ~> mpc = "exit"
(* Spec §5 ("the RT step must not act on OD data when CANnormal is        *)
(* false"), about CO_epoll_processRT and the "Wait rt_thread" lock in the  *)
(* reset loop: the RT thread's SYNC/RPDO/TPDO processing never overlaps    *)
(* the mainline's CO_CANmodule_disable, CO_CANmodule_init and the stack's  *)
(* CO_CANrxBufferInit calls of a communication reset.                      *)
OdWorkOutsideReset ==
    RtHoldsOd => mpc \in {"top", "loop", "wait", "main", "join"}
====
