------------------------------ MODULE Gateway ------------------------------
(***************************************************************************)
(* The ASCII gateway server of the mainline event loop                     *)
(* (src/unnamed/part_000, CO_epoll_createGtw / CO_epoll_processGtw):        *)
(* the one-shot listener, the one active connection descriptor gtwa_fd,    *)
(* the idle timer fed with the iteration's timeDifference_us, and in stdio *)
(* mode the freshCommand flag of typed commands.                          *)
(*                                                                         *)
(* The process descriptor table is modelled because gtwa_fd is a plain    *)
(* number: fdObj maps each descriptor number to the object open on it, and *)
(* socket()/accept4() take the lowest free number, as POSIX requires.      *)
(* The CAN socket is re-opened at every communication reset of main.       *)
(*                                                                         *)
(* The mainline iteration (part_002 1135-1152) is CO_epoll_wait, then      *)
(* CO_epoll_processGtw in two steps: the event dispatch, then the idle     *)
(* timer block.  The other phases do not touch gateway state.  Clients,    *)
(* their peers and the kernel act between these steps.                     *)
(***************************************************************************)
EXTENDS Naturals, FiniteSets, Sequences, FiniteSetsExt, Functions

CONSTANTS
    MODE,          \* "socket" (local or TCP listener) or "stdio"
    NFD,           \* size of the descriptor table
    ConnOf,        \* model values naming the connections, in accept order
    MAX_SENDS,     \* bound: data chunks sent by all peers together
    MAX_RESETS,    \* bound: communication resets
    T_IDLE,        \* socketTimeout_us, in time units; 0 = no timeout
    INTERVAL,      \* longest timeDifference_us of one iteration, in time units
    ADD_FAILS,     \* TRUE: epoll_ctl(EPOLL_CTL_ADD, gtwa_fd) may fail
    UNCONFIGURED,  \* values co->nodeIdUnconfigured may take at a (re)start
    FREE,          \* model value: descriptor number not in use
    OTHERFD        \* model value: data.fd of the timer, eventfd or CAN socket

ASSUME MODE \in {"socket", "stdio"} /\ NFD \in Nat /\ NFD >= 3
ASSUME T_IDLE \in Nat /\ INTERVAL \in Nat \ {0} /\ ADD_FAILS \in BOOLEAN
ASSUME UNCONFIGURED \subseteq BOOLEAN /\ UNCONFIGURED # {}

NONE == -1
FDs == 0 .. NFD - 1
MAX_CONN == Len(ConnOf)                 \* bound: clients that ever connect
Conns == Range(ConnOf)
Objects == {"stdin", "out", "listener", "can"} \cup Conns
\* The listener and the CAN socket are created in this order in main, after
\* the standard streams (stdout/stderr share "out").
ListenerFd == 1
CanFd0 == 2
gtwa_fdSocket == IF MODE = "socket" THEN ListenerFd ELSE NONE
Deltas == 0 .. INTERVAL

\* Readiness of the peer end of a connection or of standard input:
\* "data" unread bytes; socket "eof" (orderly close) and "reset" (RST);
\* stdin "hup" (pipe writer gone) and "eofIn" (end-of-file typed on a tty).
PeerStates == {"quiet", "data", "eof", "reset", "hup", "eofIn"}

\* The epoll event mask reported for a peer state.  A stream socket that is
\* shut down reports EPOLLIN together with EPOLLHUP (read returns 0 or the
\* error); a pipe without writers and without data reports EPOLLHUP only.
EventsOf(p) ==
    CASE p = "data"  -> {"IN"}
      [] p = "eof"   -> {"IN", "HUP"}
      [] p = "reset" -> {"IN", "HUP", "ERR"}
      [] p = "hup"   -> {"HUP"}
      [] p = "eofIn" -> {"IN"}
      [] OTHER       -> {}

VARIABLES
    fdObj,          \* the process descriptor table
    watched,        \* descriptors registered in epMain for EPOLLIN (not the listener)
    listenerArmed,  \* the EPOLLONESHOT watch of gtwa_fdSocket is armed
    gtwa_fd,        \* epGtw->gtwa_fd
    socketTimeoutTmr_us,
    freshCommand,   \* epGtw->freshCommand
    backlog,        \* connections waiting in the listen queue
    accepted,       \* connections accepted so far
    peer,           \* peer state of every connection and of stdin
    sends,          \* data chunks sent so far
    resets,         \* communication resets so far
    pc,             \* mainline: "wait", "gtw" (dispatch) or "tmo" (idle timer)
    ev,             \* epMain->ev: [fd, events] of the last wait
    epoll_new,      \* epMain->epoll_new
    dt,             \* epMain->timeDifference_us
    nodeIdUnconfigured, \* co->nodeIdUnconfigured of the current reset cycle
    idle            \* ghost: time since the last accept or read of the
                    \* connection in gtwa_fd, capped at IdleCap

vars == <<fdObj, watched, listenerArmed, gtwa_fd, socketTimeoutTmr_us,
          freshCommand, backlog, accepted, peer, sends, resets, pc, ev,
          epoll_new, dt, nodeIdUnconfigured, idle>>
envVars == <<backlog, accepted, peer, sends, resets>>

LowestFree == Min({n \in FDs : fdObj[n] = FREE})

(* Init: main before the reset loop.  CO_epoll_createGtw sets gtwa_fd to   *)
(* STDIN_FILENO in stdio mode, or creates, binds and listens on the        *)
(* socket and adds it to epMain with EPOLLIN | EPOLLONESHOT.  The pending  *)
(* node-id (-i, storage or LSS) decides nodeIdUnconfigured; the first      *)
(* CO_epoll_initCANopenGtw sets freshCommand only for a configured node:   *)
(* otherwise the field of the stack object epGtw is uninitialised.  The     *)
(* CAN socket is opened by CO_CANinit after the listener.                   *)
Init ==
    /\ fdObj = [n \in FDs |-> CASE n = 0 -> "stdin"
                               [] n = ListenerFd -> IF MODE = "socket" THEN "listener"
                                                                        ELSE "out"
                               [] n = CanFd0 -> "can"
                               [] OTHER -> FREE]
    /\ watched = IF MODE = "stdio" THEN {0} ELSE {}
    /\ listenerArmed = (MODE = "socket")
    /\ gtwa_fd = IF MODE = "stdio" THEN 0 ELSE NONE
    /\ socketTimeoutTmr_us = 0
    /\ nodeIdUnconfigured \in UNCONFIGURED
    /\ freshCommand \in IF nodeIdUnconfigured THEN BOOLEAN ELSE {TRUE}
    /\ backlog = 0
    /\ accepted = 0
    /\ peer = [o \in Conns \cup {"stdin"} |-> "quiet"]
    /\ sends = 0
    /\ resets = 0
    /\ pc = "wait"
    /\ ev = [fd |-> OTHERFD, events |-> {"IN"}]
    /\ epoll_new = FALSE
    /\ dt = 0
    /\ idle = 0

-----------------------------------------------------------------------------
(* Environment: a client connects, a peer sends or goes away.              *)

Connect ==
    /\ MODE = "socket"
    /\ accepted + backlog < MAX_CONN
    /\ backlog' = backlog + 1
    /\ UNCHANGED <<fdObj, watched, listenerArmed, gtwa_fd, socketTimeoutTmr_us,
                   freshCommand, accepted, peer, sends, resets, pc, ev,
                   epoll_new, dt, nodeIdUnconfigured, idle>>

\* A peer whose descriptor is open in the process.
Peers == {o \in Conns \cup {"stdin"} : \E n \in FDs : fdObj[n] = o}

PeerSend(o) ==
    /\ o \in Peers
    /\ peer[o] \in {"quiet", "data"}
    /\ sends < MAX_SENDS
    /\ peer' = [peer EXCEPT ![o] = "data"]
    /\ sends' = sends + 1
    /\ UNCHANGED <<fdObj, watched, listenerArmed, gtwa_fd, socketTimeoutTmr_us,
                   freshCommand, backlog, accepted, resets, pc, ev, epoll_new,
                   dt, nodeIdUnconfigured, idle>>

PeerClose(o) ==
    /\ o \in Peers
    /\ peer[o] = "quiet"
    /\ \E p \in IF o = "stdin" THEN {"hup", "eofIn"} ELSE {"eof", "reset"} :
          peer' = [peer EXCEPT ![o] = p]
    /\ UNCHANGED <<fdObj, watched, listenerArmed, gtwa_fd, socketTimeoutTmr_us,
                   freshCommand, backlog, accepted, sends, resets, pc, ev,
                   epoll_new, dt, nodeIdUnconfigured, idle>>

-----------------------------------------------------------------------------
(* The mainline iteration.                                                 *)

TimerEvent == [fd |-> OTHERFD, events |-> {"IN"}]
ListenerEvent == [fd |-> ListenerFd, events |-> {"IN"}]

\* What one epoll_wait(epMain, maxevents 1) may return: the timer, the
\* eventfd or (single-thread build) a CAN frame; the armed listener with a
\* waiting client; a registered gateway descriptor whose peer is readable.
ReadyEvents ==
    {TimerEvent}
    \cup (IF MODE = "socket" /\ listenerArmed /\ backlog > 0 THEN {ListenerEvent} ELSE {})
    \cup {[fd |-> n, events |-> EventsOf(peer[fdObj[n]])] :
            n \in {m \in watched : EventsOf(peer[fdObj[m]]) # {}}}

\* The ghost clock of the connection's idle time advances by d.
IdleCap == T_IDLE + 2 * INTERVAL + 1
IdleAfter(d) == IF idle + d < IdleCap THEN idle + d ELSE IdleCap

(* CO_epoll_wait: one ready descriptor, Δt since the last return, and the  *)
(* classification: the timer and the eventfd are drained and clear         *)
(* epoll_new; a CAN event is consumed by the driver before the gateway runs *)
(* (processRT in the single-thread build, epRT otherwise).  A reported      *)
(* EPOLLONESHOT watch is disarmed by the kernel.                            *)
Wait(e, d) ==
    /\ pc = "wait"
    /\ e \in ReadyEvents
    /\ ev' = e
    /\ epoll_new' = (e.fd # OTHERFD)
    /\ dt' = d
    /\ listenerArmed' = IF e = ListenerEvent THEN FALSE ELSE listenerArmed
    /\ idle' = IF MODE = "socket" /\ gtwa_fd # NONE THEN IdleAfter(d) ELSE 0
    /\ pc' = "gtw"
    /\ UNCHANGED <<fdObj, watched, gtwa_fd, socketTimeoutTmr_us, freshCommand>>
    /\ UNCHANGED <<envVars, nodeIdUnconfigured>>

\* The gateway handles the event: it is for gtwa_fdSocket or gtwa_fd.
Matches == epoll_new /\ (ev.fd = gtwa_fdSocket \/ ev.fd = gtwa_fd)

(* processGtw, event not for the gateway.                                  *)
NoEvent ==
    /\ pc = "gtw"
    /\ ~Matches
    /\ pc' = "tmo"
    /\ UNCHANGED <<fdObj, watched, listenerArmed, gtwa_fd, socketTimeoutTmr_us,
                   freshCommand, ev, epoll_new, dt, idle>>
    /\ UNCHANGED <<envVars, nodeIdUnconfigured>>

\* The effect of socketAcceptEnableForEpoll: EPOLL_CTL_MOD re-arms the
\* one-shot watch of the listener.
Rearm == listenerArmed' = TRUE

(* Variant of Accept that leaves the listener armed after a successful     *)
(* accept, as if it were registered without EPOLLONESHOT.                  *)
AcceptRearm ==
    /\ pc = "gtw" /\ Matches /\ "IN" \in ev.events /\ ev.fd = gtwa_fdSocket
    /\ \E n \in FDs : fdObj[n] = FREE
    /\ LET n == LowestFree IN
         /\ fdObj' = [fdObj EXCEPT ![n] = ConnOf[accepted + 1]]
         /\ gtwa_fd' = n
         /\ watched' = watched \cup {n}
    /\ backlog' = backlog - 1 /\ accepted' = accepted + 1
    /\ socketTimeoutTmr_us' = 0 /\ idle' = 0 /\ Rearm
    /\ epoll_new' = FALSE /\ pc' = "tmo"
    /\ UNCHANGED <<freshCommand, peer, sends, resets, ev, dt, nodeIdUnconfigured>>

(* processGtw, EPOLLIN on the listener: accept4 takes the lowest free      *)
(* number; on success gtwa_fd is added to epMain and the idle timer        *)
(* zeroed; if accept4 (EMFILE) or epoll_ctl fails, the listener is         *)
(* re-armed.  A failed accept4 stores -1 in gtwa_fd; a failed epoll_ctl    *)
(* leaves the accepted descriptor in gtwa_fd, open and unwatched.          *)
Accept ==
    /\ pc = "gtw" /\ Matches /\ "IN" \in ev.events /\ ev.fd = gtwa_fdSocket
    /\ IF \A n \in FDs : fdObj[n] # FREE
         THEN /\ gtwa_fd' = NONE
              /\ Rearm
              /\ UNCHANGED <<fdObj, watched, backlog, accepted, socketTimeoutTmr_us>>
         ELSE \E addOk \in IF ADD_FAILS THEN BOOLEAN ELSE {TRUE} :
              LET n == LowestFree IN
              /\ fdObj' = [fdObj EXCEPT ![n] = ConnOf[accepted + 1]]
              /\ gtwa_fd' = n
              /\ watched' = IF addOk THEN watched \cup {n} ELSE watched
              /\ backlog' = backlog - 1
              /\ accepted' = accepted + 1
              /\ socketTimeoutTmr_us' = 0
              /\ IF addOk THEN UNCHANGED listenerArmed ELSE Rearm
    /\ epoll_new' = FALSE
    /\ idle' = 0
    /\ pc' = "tmo"
    /\ UNCHANGED <<freshCommand, peer, sends, resets, ev, dt, nodeIdUnconfigured>>

(* Socket mode, read() returned 0: the peer closed.  gtwa_fd is removed    *)
(* from epMain, closed and set to -1, and the listener re-armed.           *)
CloseConn ==
    /\ watched' = watched \ {gtwa_fd}
    /\ fdObj' = [fdObj EXCEPT ![gtwa_fd] = FREE]
    /\ gtwa_fd' = NONE
    /\ Rearm

(* Stdio mode, s >= 0: freshCommand = (buf[s-1] == '\n'), after the       *)
(* "[0] " prefix test, which only shapes the output.  With s == 0          *)
(* (end-of-file typed on a tty) buf[s-1] is buf[-1], whatever the stack    *)
(* holds, so either value results.                                         *)
StdioChunk(closed) == freshCommand' = closed

(* processGtw, EPOLLIN on gtwa_fd: read up to the parser's free space, or *)
(* up to the whole buffer for an unconfigured node.  With space == 0       *)
(* nothing is consumed; a read error (ECONNRESET) is logged; an            *)
(* unconfigured node purges what it read, so EOF (read returns 0) neither  *)
(* closes the connection nor re-arms the listener and stays readable;     *)
(* stdio bytes are framed; socket EOF closes the connection; other bytes   *)
(* go to the parser.  The idle timer is zeroed in every case.               *)
Read(full) ==
    /\ pc = "gtw" /\ Matches /\ "IN" \in ev.events
    /\ ev.fd # gtwa_fdSocket /\ ev.fd = gtwa_fd
    /\ full => ~nodeIdUnconfigured
    /\ LET o == fdObj[gtwa_fd]
           p == peer[o]
       IN  CASE full ->
                  UNCHANGED <<peer, fdObj, watched, gtwa_fd, listenerArmed, freshCommand>>
             [] p = "reset" ->
                  /\ peer' = [peer EXCEPT ![o] = "eof"]
                  /\ UNCHANGED <<fdObj, watched, gtwa_fd, listenerArmed, freshCommand>>
             [] nodeIdUnconfigured ->
                  /\ peer' = [peer EXCEPT ![o] = IF p = "eof" THEN "eof" ELSE "quiet"]
                  /\ UNCHANGED <<fdObj, watched, gtwa_fd, listenerArmed, freshCommand>>
             [] MODE = "stdio" ->
                  /\ peer' = [peer EXCEPT ![o] = "quiet"]
                  /\ \E closed \in BOOLEAN : StdioChunk(closed)
                  /\ UNCHANGED <<fdObj, watched, gtwa_fd, listenerArmed>>
             [] p = "eof" ->
                  /\ CloseConn
                  /\ UNCHANGED <<peer, freshCommand>>
             [] OTHER ->
                  /\ peer' = [peer EXCEPT ![o] = "quiet"]
                  /\ UNCHANGED <<fdObj, watched, gtwa_fd, listenerArmed, freshCommand>>
    /\ socketTimeoutTmr_us' = 0
    /\ epoll_new' = FALSE
    /\ idle' = 0
    /\ pc' = "tmo"
    /\ UNCHANGED <<backlog, accepted, sends, resets, ev, dt, nodeIdUnconfigured>>

(* processGtw, EPOLLERR or EPOLLHUP without EPOLLIN on gtwa_fd: the        *)
(* descriptor is closed (which drops its epoll registration, the process   *)
(* holding the only reference), and nothing else: gtwa_fd keeps the        *)
(* number, the listener stays disarmed and epoll_new stays set.            *)
Hup ==
    /\ pc = "gtw" /\ Matches
    /\ "IN" \notin ev.events /\ ev.events \cap {"ERR", "HUP"} # {}
    /\ fdObj' = [fdObj EXCEPT ![gtwa_fd] = FREE]
    /\ watched' = watched \ {gtwa_fd}
    /\ pc' = "tmo"
    /\ UNCHANGED <<listenerArmed, gtwa_fd, socketTimeoutTmr_us, freshCommand,
                   ev, epoll_new, dt, idle>>
    /\ UNCHANGED <<envVars, nodeIdUnconfigured>>

(* The idle-timer block of processGtw runs in socket mode with a timeout   *)
(* configured and a connection number in gtwa_fd (> 0, not >= 0).          *)
TimerActive == T_IDLE > 0 /\ gtwa_fdSocket > 0 /\ gtwa_fd > 0

(* Variant of TimeoutClose that closes the connection without re-arming    *)
(* the listener.                                                           *)
TimeoutCloseNoRearm ==
    /\ pc = "tmo" /\ TimerActive /\ socketTimeoutTmr_us > T_IDLE
    /\ watched' = watched \ {gtwa_fd}
    /\ fdObj' = [fdObj EXCEPT ![gtwa_fd] = FREE]
    /\ gtwa_fd' = NONE
    /\ pc' = "wait"
    /\ UNCHANGED <<listenerArmed, socketTimeoutTmr_us, freshCommand, ev,
                   epoll_new, dt, idle>>
    /\ UNCHANGED <<envVars, nodeIdUnconfigured>>

(* Variant of TimeoutClose that closes once the timer reaches the timeout *)
(* (>= for >).                                                             *)
TimeoutCloseEarly ==
    /\ pc = "tmo" /\ TimerActive /\ socketTimeoutTmr_us >= T_IDLE
    /\ watched' = watched \ {gtwa_fd}
    /\ fdObj' = [fdObj EXCEPT ![gtwa_fd] = FREE]
    /\ gtwa_fd' = NONE
    /\ Rearm
    /\ pc' = "wait"
    /\ UNCHANGED <<socketTimeoutTmr_us, freshCommand, ev, epoll_new, dt, idle>>
    /\ UNCHANGED <<envVars, nodeIdUnconfigured>>

(* Idle timer expired: EPOLL_CTL_DEL, close and -1 for gtwa_fd, and the    *)
(* listener re-armed.  close() acts on whatever the number refers to.      *)
TimeoutClose ==
    /\ pc = "tmo" /\ TimerActive /\ socketTimeoutTmr_us > T_IDLE
    /\ watched' = watched \ {gtwa_fd}
    /\ fdObj' = [fdObj EXCEPT ![gtwa_fd] = FREE]
    /\ gtwa_fd' = NONE
    /\ Rearm
    /\ pc' = "wait"
    /\ UNCHANGED <<socketTimeoutTmr_us, freshCommand, ev, epoll_new, dt, idle>>
    /\ UNCHANGED <<envVars, nodeIdUnconfigured>>

(* Variant of TimeoutCount without its guard: Δt is added also when the    *)
(* timer has already expired.                                              *)
TimeoutCountUnguarded ==
    /\ pc = "tmo" /\ TimerActive
    /\ socketTimeoutTmr_us' = socketTimeoutTmr_us + dt
    /\ pc' = "wait"
    /\ UNCHANGED <<fdObj, watched, listenerArmed, gtwa_fd, freshCommand, ev,
                   epoll_new, dt, idle>>
    /\ UNCHANGED <<envVars, nodeIdUnconfigured>>

(* Variant of TimeoutCount that assigns Δt instead of adding it.          *)
TimeoutCountAssign ==
    /\ pc = "tmo" /\ TimerActive /\ socketTimeoutTmr_us <= T_IDLE
    /\ socketTimeoutTmr_us' = dt
    /\ pc' = "wait"
    /\ UNCHANGED <<fdObj, watched, listenerArmed, gtwa_fd, freshCommand, ev,
                   epoll_new, dt, idle>>
    /\ UNCHANGED <<envVars, nodeIdUnconfigured>>

(* Idle timer not expired: socketTimeoutTmr_us += timeDifference_us.       *)
TimeoutCount ==
    /\ pc = "tmo" /\ TimerActive /\ socketTimeoutTmr_us <= T_IDLE
    /\ socketTimeoutTmr_us' = socketTimeoutTmr_us + dt
    /\ pc' = "wait"
    /\ UNCHANGED <<fdObj, watched, listenerArmed, gtwa_fd, freshCommand, ev,
                   epoll_new, dt, idle>>
    /\ UNCHANGED <<envVars, nodeIdUnconfigured>>

(* No idle timer this iteration.                                           *)
TimeoutOff ==
    /\ pc = "tmo" /\ ~TimerActive
    /\ pc' = "wait"
    /\ UNCHANGED <<fdObj, watched, listenerArmed, gtwa_fd, socketTimeoutTmr_us,
                   freshCommand, ev, epoll_new, dt, idle>>
    /\ UNCHANGED <<envVars, nodeIdUnconfigured>>

(* A communication reset of main between two iterations: the CAN socket   *)
(* is closed by CO_CANmodule_disable and opened again by CO_CANinit (the   *)
(* lowest free number), CO_CANopenInit takes the pending node-id, which   *)
(* LSS may have set or cleared, and CO_epoll_initCANopenGtw sets           *)
(* freshCommand unless the node is unconfigured.                           *)
CommReset ==
    /\ pc = "wait"
    /\ resets < MAX_RESETS
    /\ LET closed == [n \in FDs |-> IF fdObj[n] = "can" THEN FREE ELSE fdObj[n]]
           m == Min({n \in FDs : closed[n] = FREE})
       IN  fdObj' = [closed EXCEPT ![m] = "can"]
    /\ nodeIdUnconfigured' \in UNCONFIGURED
    /\ freshCommand' = IF nodeIdUnconfigured' THEN freshCommand ELSE TRUE
    /\ resets' = resets + 1
    /\ UNCHANGED <<watched, listenerArmed, gtwa_fd, socketTimeoutTmr_us, backlog,
                   accepted, peer, sends, pc, ev, epoll_new, dt, idle>>

(* Socket mode (-c local-<path> or -c tcp-<port>).                        *)
SocketGtwStep ==
    \/ NoEvent \/ Accept \/ Read(TRUE) \/ Read(FALSE)
    \/ TimeoutClose \/ TimeoutCount \/ TimeoutOff

SocketNext ==
    \/ \E e \in ReadyEvents, d \in Deltas : Wait(e, d)
    \/ SocketGtwStep
    \/ Connect
    \/ \E c \in Conns : PeerSend(c) \/ PeerClose(c)
    \/ CommReset

(* Stdio mode (-c stdio): no listener and no idle timer.                    *)
StdioGtwStep ==
    \/ NoEvent \/ Read(TRUE) \/ Read(FALSE) \/ Hup \/ TimeoutOff

StdioNext ==
    \/ \E e \in ReadyEvents, d \in Deltas : Wait(e, d)
    \/ StdioGtwStep
    \/ PeerSend("stdin") \/ PeerClose("stdin")
    \/ CommReset

\* Time passes: the periodic timer returns with a non-zero Δt.
TimerWait == \E d \in 1 .. INTERVAL : Wait(TimerEvent, d)
\* A ready gateway descriptor (listener or connection) is returned.
GtwWait == \E e \in ReadyEvents \ {TimerEvent}, d \in Deltas : Wait(e, d)

(* The mainline runs its iteration to the end (weak fairness); the timer   *)
(* keeps expiring and epoll returns a descriptor that stays ready in turn  *)
(* with the others (strong fairness: it is enabled only at pc = "wait");  *)
(* the parser input buffer is drained by CO_process on every iteration, so *)
(* a read eventually finds space.                                          *)
Fairness ==
    /\ WF_vars(SocketGtwStep)
    /\ SF_vars(TimerWait)
    /\ SF_vars(GtwWait)
    /\ SF_vars(Read(FALSE))

SocketSpec == Init /\ [][SocketNext]_vars /\ Fairness

StdioSpec == Init /\ [][StdioNext]_vars

-----------------------------------------------------------------------------
TypeOK ==
    /\ fdObj \in [FDs -> Objects \cup {FREE}]
    /\ watched \subseteq FDs
    /\ listenerArmed \in BOOLEAN
    /\ gtwa_fd \in FDs \cup {NONE}
    /\ socketTimeoutTmr_us \in 0 .. T_IDLE + INTERVAL
    /\ freshCommand \in BOOLEAN
    /\ backlog \in 0 .. MAX_CONN /\ accepted \in 0 .. MAX_CONN
    /\ peer \in [Conns \cup {"stdin"} -> PeerStates]
    /\ sends \in 0 .. MAX_SENDS /\ resets \in 0 .. MAX_RESETS
    /\ pc \in {"wait", "gtw", "tmo"}
    /\ ev \in [fd : FDs \cup {OTHERFD}, events : SUBSET {"IN", "HUP", "ERR"}]
    /\ epoll_new \in BOOLEAN
    /\ dt \in Deltas
    /\ nodeIdUnconfigured \in BOOLEAN
    /\ idle \in 0 .. IdleCap

(* One client at a time (EPOLLONESHOT listener, processGtw accept path):   *)
(* every connection descriptor open in the process is the gateway's        *)
(* gtwa_fd, so none is leaked, unread and never closed.                    *)
NoLeakedConnection == \A n \in FDs : fdObj[n] \in Conns => n = gtwa_fd

(* Spec scenario S6, about the accept, EOF and idle-timeout paths of       *)
(* processGtw: if the peers eventually stop sending, every client that     *)
(* connects is eventually accepted (the connection before it ends by EOF   *)
(* or by the idle timeout, and the listener is re-armed).                  *)
ClientEventuallyAccepted ==
    (<>[][\A c \in Conns : ~PeerSend(c)]_vars)
        => \A k \in 0 .. MAX_CONN - 1 : (accepted = k /\ backlog > 0) ~> accepted > k

(* About the idle timer of processGtw, which zeroes socketTimeoutTmr_us on *)
(* accept or read and then, in the same iteration, adds that iteration's   *)
(* timeDifference_us, time that passed before the activity: the timeout    *)
(* never closes a connection that has been idle for T_IDLE - INTERVAL or  *)
(* less (it may close it up to one iteration early, never more).          *)
IdleCloseNotEarly ==
    [][pc = "tmo" /\ gtwa_fd # NONE /\ gtwa_fd' = NONE
         => idle > T_IDLE - INTERVAL]_vars

(* ... and it never lets a connection stay idle for more than T_IDLE plus  *)
(* two iterations: every iteration runs the timer block while gtwa_fd is  *)
(* a connection, and the Δt it adds is the real time of the iteration.     *)
IdleConnectionClosed ==
    T_IDLE > 0 /\ gtwa_fd # NONE /\ fdObj[gtwa_fd] \in Conns
        => idle <= T_IDLE + 2 * INTERVAL

(* About the descriptor number kept in epGtw->gtwa_fd, used by processGtw *)
(* and by gtwa_write_response for every parser output: it is -1, or it     *)
(* refers to the gateway's own stream (the accepted connection or standard *)
(* input) or to nothing; never to a descriptor another part of the program *)
(* opened.                                                                 *)
GatewayFdOwned == gtwa_fd # NONE => fdObj[gtwa_fd] \in Conns \cup {"stdin", FREE}
=============================================================================
