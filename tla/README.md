# TLA+ models of the CANopenLinux runtime

These modules model the Linux integration layer of CANopenNode, under `src/`.
That layer covers the SocketCAN driver, the epoll event loop, the CAN error
monitor, file-backed storage, the ASCII gateway server and the two-thread
`main`. The CANopen protocol stack itself (`CO_process`, SDO, PDO, NMT, LSS)
is not part of `src/`. Here it is the environment that calls the driver and
writes object-dictionary memory.

## The system

The source files map onto the parts like this:

- **`src/CO_error.c`, lines 1-400**: the CAN error monitor.
- **`src/CO_error.c`, from line 401**: `CO_driver_target.h` (types and lock macros).
- **`src/unnamed/part_000`**: `CO_epoll_interface.c`, the event loop and gateway.
- **`src/unnamed/part_001`**: `CO_epoll_interface.h` (lines 1-389) and `CO_driver.c` (from line 390).
- **`src/unnamed/part_002`**: `CO_error.h` (lines 1-241) and `CO_main_basic.c` (from line 242).
- **`src/unnamed/part_003`**: message strings.
- **`src/CO_storageLinux.c`**: storage.

### Parts and how they interact

| Part | State | Operations | Talks to |
|---|---|---|---|
| A. Clock | `CLOCK_MONOTONIC` | `clock_gettime_us` | event loop, error monitor |
| B. CAN error monitor | per interface: `noackCounter`, `listenOnly`, `timestamp`, `CANerrorStatus` | `rxMsgError` (Busoff, Crtl, Noack), `rxMsg`, `txMsg`, `init`, `disable` | driver RX (error frames, data frames), multi-interface TX gate, interface-reset shell command |
| C. CAN driver | interfaces, RX filters, `rxArray`, `txArray[i].bufferFull`, `CANtxCount`, `CANnormal` | `CO_CANmodule_init/addInterface/disable`, `rxBufferInit`, `txBufferInit`, `setNormalMode`, `CO_CANsend`, `CO_CANmodule_process`, `CO_CANrxFromEpoll` | error monitor, event loop (epoll fd), protocol stack (callbacks, sends) |
| D. Event loop | `epoll_new`, `timerEvent`, `timeDifference_us`, `timerNext_us`, eventfd, timerfd | `CO_epoll_create/wait/processLast/processMain/processRT`, `wakeupCallback` | driver, gateway, protocol stack |
| E. Storage | per entry: memory, `crc`, `fp`; the files `<path>`, `.tmp`, `.old` | `CO_storageLinux_init`, `storeLinux`, `restoreLinux`, `CO_storageLinux_auto_process` | OD lock, `main` (interval, shutdown), SDO (0x1010/0x1011) |
| F. Gateway | `gtwa_fdSocket`, `gtwa_fd`, `socketTimeoutTmr_us`, `freshCommand` | `CO_epoll_createGtw/processGtw/closeGtw` | event loop (one-shot listener), ASCII parser |
| G. Orchestrator | `reset`, `CO_endProgram`, `firstRun`, storage timers | `main` reset loop, `rt_thread`, `sigHandler` | all of the above |

The two threads work as follows:

- **The RT thread** (`rt_thread`, `part_002` 1261-1296) runs
  `CO_CANrxFromEpoll` and, on each timer event, runs SYNC, RPDO and TPDO
  under the OD lock.
- **The mainline** runs:
  - the gateway;
  - `CO_process`, which covers SDO, NMT, heartbeat, emergency and LSS, and calls `CO_CANmodule_process`;
  - the storage auto-save;
  - the communication-reset loop.
- **Shared state.** Both threads call `CO_CANsend`, and `CO_LOCK_CAN_SEND` is
  empty. So `bufferFull` and `CANtxCount` are shared between the threads
  without a lock.

## Modules

| Module | Models | Source |
|---|---|---|
| `CANerror` | the error monitor of one interface | `CO_error.c` 46-400 |
| `CANsend` | the single-interface TX path, with one process per calling thread | `part_001` 653-721, 1072-1104, 1363-1494 |
| `Storage` | storage with crashes, the files and the auto-save handle | `CO_storageLinux.c`, `part_002` 562-572, 660-680, 1163-1206 |
| `Gateway` | the gateway server on the mainline loop, with the process descriptor table | `part_000` 222-270, 601-612, 657-1022, `part_002` 949-1024 |
| `Runtime` | the two threads across communication resets: receive path, filters, epoll, eventfd, join | `part_000` 222-534, `part_001` 515-1001, 1516-1734, `part_002` 921-1296 |
| `MC_*` | constants for TLC | |

### CANerror

The variables are the four handler fields, plus these:

- **`ifResets`**: the interface-reset `system()` calls.
- **`now`**: the clock, in ticks of 1/`TICKS_PER_SEC` s.
- **`loSince`**: a ghost recording the last entry into listen-only.
- **`rxDropCount`**: `CANmodule->rxDropCount`, which `CO_CANread` updates.
- **`sockDrops`**: the kernel's drop count for the socket open now.
- **`readDrops`**: a ghost, the largest drop count read from that socket.

The module includes the part of the driver's `CO_CANread` that writes the
same handler's status: the `SO_RXQ_OVFL` drop count and the failed
`recvmsg()`. The kernel stamps each queued frame with the socket's drop count
at that moment, attaching it only when it is non-zero, and frames are read in
queue order. A frame read now therefore carries a count in `DropStamps`.

Abstractions:

- **Error frames.** A frame is reduced to its BUSOFF, ACK and CRTL bits. For a
  CRTL frame, only the first `data[1]` bit in the order of the code's
  else-if chain is kept. The other bits are never read.
- **Time.** The handler stores `tv_sec` only (`Sec(now)`).

Actions:

- **`RxMsgError(f, d)`**: `CANread(d)` and `ReadStatus(d)`, then `Busoff`,
  `CrtlStatus` and `Noack` composed the way `CO_CANerror_rxMsgError` does
  them. A bus-off ends the handler early.
- **`RxMsg(d)`**: `CO_CANread` of a data frame, then `CO_CANerror_rxMsg`.
- **`RxNotNormal(d)`**: a frame read while `CANnormal` is false. `CO_CANread`
  runs, and no handler does.
- **`CANreadFail`**: `recvmsg()` does not return `CAN_MTU`.
- **`TxMsg`**: the probe test. Only the multi-interface send path
  (`CO_CANCheckSendInterface`) calls `CO_CANerror_txMsg`. In the default
  single-interface build, `CO_CANsend` never consults the monitor: listen-only
  suppresses no frame there, and only `RxMsg` or `ReInit` ends it.
- **`ReInit`**: `disable` and then `init` at a communication reset. The
  new socket's drop count starts at 0, and `rxDropCount` is kept.
- **`KernelDrop`**: the socket's receive queue is full, and the kernel drops
  a frame (at most `MAX_DROPS` per socket).
- **`Tick`**: the clock advances.

### CANsend

The variables are these:

- **Driver state**: `bufferFull[1..NBUF]`, `CANtxCount` (uint16, kept modulo
  2^16), and the TX_OVERFLOW bit in the interface status and in the module
  status.
- **Per thread**: a program counter `pc`, the buffer argument `buf`, and the
  loaded copy `reg` of `CANtxCount`.

Each shared access is its own step:

- `CO_CANsend` is `SendOk`, `SendBusy` or `SendError` (the `send()` outcome),
  then `SendClear` or `SendSet`, then `Store`.
- `CO_CANmodule_process` is `ProcessScan`, then `ProcClear`, `ProcDec` (which
  continues into `CO_CANsend`) or `ProcZero`.

Two more actions complete the module:

- **`Request(t, b)`** is a protocol object calling `CO_CANsend`. It is
  modelled from the spec, because the callers are not under `src/`.
- **`TxBufferInit(b)`** is a reconfiguration on the mainline.

The ghost `unsent[b]` marks a frame that was handed to the driver and is neither
written nor reported lost.

### Storage

Each entry has three files. A file is `Absent`, `Short` (fewer bytes than a
complete file), `Dash` (`"-\n"`), or an image `[data, crc]`. The CRC is
abstracted as the identity on the small set `Values`, so an image is valid iff
`crc = data`. `entry->crc` starts as `"zero"`, the CRC of no value in `Values`.

`fpAt` is the name of the file the auto-save handle refers to:

- a `rename` moves the handle along with its file;
- a file renamed over the handle's file leaves the handle on an unlinked
  inode (`"orphan"`).

Actions:

- **`Boot`**: `CO_storageLinux_init` for all entries, including the `"w"`
  truncation.
- **`StoreWrite`, `StoreRename` and `StoreCommit`**: `storeLinux`, split at
  its two renames.
- **`RestoreStart` and `RestoreDash`**: `restoreLinux`.
- **`AutoProcess(closeFiles)`, `AutoEntry`, `AutoWrite` and `AutoDone`**:
  `CO_storageLinux_auto_process`, one step per entry in `storageEntries[]`
  order (the constant `Order`). `closeFiles` is the shutdown call, after
  which the process exits. `AutoEntry` computes the CRC of the memory without
  the OD lock (`crcReg`). `AutoWrite` writes the memory under the lock and then
  writes the CRC computed earlier. `AutoDone` stores the error mask in
  `autoError` when the loop ends.
- **`RtWrite(e, v)`**: the RT thread (an RPDO in `CO_epoll_processRT`) writes
  an entry of the constant `RtWritten` under the OD lock. It may therefore
  fall between `AutoEntry` and `AutoWrite`, but never inside the locked
  `fwrite`. It never falls inside `storeLinux` or `restoreLinux`, which run
  inside the SDO server's `CO_LOCK_OD` (the comment at
  `CO_storageLinux.c` 80-82), nor after the shutdown call has begun, since
  the RT thread is joined first.
- **`Write`**: an OD write, such as `LSScfgStoreCallback`.
- **`Crash`**: memory and handles are lost, the files remain.

Each write is atomic, because `len + 2` bytes fit the stdio buffer and reach
the kernel in one `write()` at `fclose` or `fflush`. Power loss, meaning
unsynced page cache, is not modelled; only the process crash is.

The ghost `committed[e]` records what the code reported: the image that the
last save reported as successful made persistent, or `"defaults"` after a
restore.

### Gateway

`gtwa_fd` is a plain descriptor number, so the model keeps the process
descriptor table: `fdObj[n]` is the object open on number `n`, and
`socket()` and `accept4()` take the lowest free number (`LowestFree`). Number
0 is standard input, 1 the listener (socket mode) or stdout, 2 the CAN socket.
A communication reset (`CommReset`) closes and re-opens the CAN socket, so it
may land on a number the gateway freed.

- **Peers.** A connection's peer end is `quiet`, `data`, `eof` or `reset`;
  standard input can also be `hup` (pipe writer gone) or `eofIn`. `EventsOf`
  gives the epoll mask Linux reports: a shut-down stream socket reports
  `EPOLLIN` with `EPOLLHUP`, so the HUP-only branch of `processGtw` arises
  only for a pipe on standard input.
- **Mainline iteration.** `Wait(e, d)` is `CO_epoll_wait` returning event `e`
  after `d` time units; then the event dispatch of `processGtw` (`NoEvent`,
  `Accept`, `Read`, `Hup`), then its idle-timer block (`TimeoutClose`,
  `TimeoutCount`, `TimeoutOff`).
- **Idle ghost.** `idle` is the real time since the connection's last
  accept or read; `Wait` adds the elapsed time `d` to it. The code zeroes
  `socketTimeoutTmr_us` on activity and then adds the whole iteration's `dt`,
  which includes time that passed before the activity. So the timer runs
  ahead of `idle` by up to one `INTERVAL`.
- **Node-id.** `nodeIdUnconfigured` is `co->nodeIdUnconfigured`. It is
  chosen from the constant `UNCONFIGURED` at start and again at every
  `CommReset`, because LSS may set or clear the pending node-id in
  between. While it is set, `Read` reads into the whole buffer and purges
  what it read (part_000 947-953), EOF included. So an EOF neither closes
  the connection nor re-arms the listener, the descriptor stays readable,
  and the idle timer is still zeroed. `CO_epoll_initCANopenGtw` returns
  before setting `freshCommand`, which is then uninitialised.
- **Listener.** It is `EPOLLONESHOT`: `Accept` leaves it disarmed, and only
  the EOF and timeout paths re-arm it.
- **Stdio framing.** Only the `freshCommand` flag is modelled: it records
  whether a `read()` chunk ended a line. The `"[0] "` prefix it controls is
  output layout and is left out.

### Runtime

The module composes four parts of the program, each with its own variables:

- **Driver** (`CO_CANmodule_t`): `CANnormal`, `ifCount`, `rxArray` (per slot
  `ident`, `mask`, callback) and `rxFilter` (`<<>>` once freed).
- **Kernel.** `canSock` is the generation of the socket open on the CAN
  descriptor. Each generation has its `CAN_RAW` filter, its receive queue (at
  most `QLEN` frames) and a pending error. A fresh socket admits everything
  (`DefaultFilter`). A socket that the RT thread is blocked on stays alive
  after `close()` (`Alive`). `epollCan` is whether the descriptor is
  registered; `efd` is the eventfd counter, saturating at `EFD_MAX`.
- **RT thread** (`rt_thread`): program counter `rtpc` and the locals of
  `CO_epoll_wait` and `CO_CANrxFromEpoll`. `rtHeld` is the generation the
  thread took its event from.
- **Mainline** (`main`): program counter `mpc`, the slot being configured,
  `firstRun`, `reset`, `endProgram`.

`can_id` keeps its bit layout at reduced width: `SFF_MASK = 3`, `RTR_FLAG = 4`,
`EFF_FLAG = 8`, and 15 stands for `0xFFFFFFFF`. The kernel's filter test
(`Admits`) and the driver's (`SlotMatches`) use the real bitwise operations.
`CANrxMsg` is the first-match loop of `CO_CANrxMsg`, written as a recursive
operator.

The mainline actions follow the reset loop in order: `MainTop`
(`CANnormal` off), `Disable`, `ModuleInit` (with `addInterface` and its
`DisableRx`), `InitSlot` (the stack's `CO_CANrxBufferInit` calls, with the
`setRxFilters` that each makes while `CANnormal`), `StartRT` on the first
pass, `SetNormalMode`, then the inner loop `MainLoop`, `MainWait`,
`MainProcess`, and at the end `MainJoin`. The RT thread runs `RtWait`,
`RtPoll`, `RtRead` (the blocking `recvmsg`), `RtDispatch`, `RtRealtime` and
`RtPdo`. `RtWait` is split into `RtWaitTimer` (the timerfd) and `RtWaitCan`
(an event on the CAN socket). `RtRealtime` takes `CO_OD_mutex` for the
SYNC/PDO processing only on a timer event while `CANnormal` is set; `RtPdo`
does that processing and releases the lock; both end in `ProcessLast`
(`CO_epoll_processLast`). The lock is modelled by `RtHoldsOd`
(`rtpc = "pdo"`): the mainline takes it only inside one step, so only the
RT thread holds it across steps. `MainTop`, which clears `CANnormal` under
the lock, waits while the RT thread holds it.
The environment is `BusFrame(x)` (a frame that the current socket's filter
admits is queued), `IfError` and `SigHandler`.

## Runs

| Run | Cfg | Expect | Shows |
|---|---|---|---|
| `error_monitor` | `MC_CANerror.cfg` | pass | `MinimumDwell`: a TX probe never ends listen-only 2 s or less after the last entry, although only whole seconds are compared. |
| `rx_drops` | `MC_CANerror_drops.cfg` | violation | `DropsReported` (spec §4.C: report increases of the kernel drop count as RX overflow). The trace is a drop, a read that reports it, a communication reset that clears the status bit, a drop on the new socket, and a read that does not report it: the new count of 1 does not exceed the kept `rxDropCount` of 1. |
| `tx_single_thread` | `MC_CANsend_single.cfg` | pass | `CountCoversFull` and `DeferredEventuallySent` hold when every sender is the mainline (`CO_SINGLE_THREAD`). |
| `tx_rt_thread` | `MC_CANsend_rt.cfg` | violation | With the RT thread sending buffer 1, a lost `CANtxCount` update leaves buffer 1 full with the count at 0, and it is never retried. |
| `storage` | `MC_Storage.cfg` | pass | `NoSilentRollback` for `od_comm.persist` (cmd, restore) and an auto-only entry, with crashes anywhere and every I/O failure the code reports. |
| `storage_mainline` | `MC_Storage_mainline.cfg` | violation | The same property fails for `mainline.persist` (cmd, auto, restore), because after an explicit save the auto-save writes `.old`. |
| `storage_rt` | `MC_Storage_rt.cfg` | violation | `AutoFileTracksMemory`: the CRC is computed outside `CO_LOCK_OD`. An RPDO write between the CRC and the locked `fwrite` leaves the file with the new data and the old CRC. `entry->crc` then matches the old value, so when the memory returns to that value the file is never rewritten, and the next start loads defaults. |
| `gateway` | `MC_Gateway.cfg` | pass | Socket mode with an idle timeout: the run checks these properties:<br>• `NoLeakedConnection`: every open connection is `gtwa_fd`.<br>• `ClientEventuallyAccepted`: a waiting client is eventually accepted once the peers stop sending.<br>• `IdleCloseNotEarly`: a timeout never closes a connection that has been idle for `T_IDLE - INTERVAL` or less.<br>• `IdleConnectionClosed`: no connection stays open idle past `T_IDLE + 2*INTERVAL`.<br>The node-id is given with `-i`, so the node is configured in every cycle (`UNCONFIGURED = {FALSE}`). |
| `gateway_stdio_hup` | `MC_Gateway_stdio_hup.cfg` | violation | `GatewayFdOwned`: after a hang-up on standard input, `gtwa_fd` still holds 0, which the CAN socket takes at the next communication reset. |
| `gateway_unconfigured` | `MC_Gateway_unconfigured.cfg` | violation | `ClientEventuallyAccepted`, with the LSS slave and no node-id (`UNCONFIGURED = {TRUE, FALSE}`). The node starts unconfigured, the first client closes, and every later iteration reads its EOF, purges it and zeroes the idle timer. The connection is never closed and the second client is never accepted. |
| `runtime` | `MC_Runtime.cfg` | pass | `FilterAgreesWithDispatch` (while `CANnormal`, the kernel filter admits exactly the frames a callback takes) and `OdWorkOutsideReset` (the RT thread holds the OD lock for SYNC/PDO work only while the mainline is outside the reset sequence, so never on a disabled or half-configured driver, spec §5), with the RT thread running across a communication reset. |
| `runtime_shutdown` | `MC_Runtime_shutdown.cfg` | violation | `ShutdownJoins`: an epoll event taken before a reset makes the RT thread block in `recvmsg` on the new, empty, blocking socket on the same descriptor; on a quiet bus `pthread_join` never returns. |

The findings are listed in `PROJECT.json`, each with the source line it is
about.

Two more configurations are kept without a run of their own:

- **`MC_Storage_flush.cfg`** has `FLUSH_FAILS = TRUE`. Under it, TLC reports
  `NoSilentRollback` violated: `CO_storageLinux_auto_process` ignores the
  result of `fflush` (`CO_storageLinux.c` 367), so an auto-save that fails
  at the flush is recorded as done and never retried.
- **`TypeOK` of `CANsend` and `Runtime`** is defined but in no run. No
  plausible change to the code breaks it. `CANtxCount` is stored modulo
  2^16, and `CANinterfaceCount` is zeroed both by `CO_CANmodule_disable`
  and by `CO_CANmodule_init`.

### Bounds and why they are enough

- **CANerror.** The model uses these bounds:
  - `NOACK_MAX = 3` and a 2 s dwell;
  - 2 ticks per second, so entries land on both halves of a second;
  - 9 ticks, which is long enough for an entry, a full dwell and a probe;
  - 2 interface resets;
  - up to 2 kernel drops per socket, so a socket opened at a communication
    reset (unbounded in number) can stay at or below the old socket's count
    and also pass it.

  The `<=` off-by-one in the exit test is caught within these bounds.
- **CANsend.** The model uses two buffers, which is the least for one buffer
  to be stranded while another is scanned. `CANtxCount` stays below 3 for new
  sends. Two threads cover the RT and mainline split.
- **Storage.** The model uses two images, `d` (the defaults) and `v`. Every
  start-up file state is possible: absent, `"-\n"`, or a valid image. Two
  entries with different attributes run side by side. In `storage`, the RT
  thread writes the auto-only entry (`RtWritten = {"app"}`). This is a pass
  run because that entry has no explicit save. `storage_rt` has one
  auto-saved entry, written by the RT thread.
- **Gateway.** Five descriptors, two clients, two data chunks, one
  communication reset (enough for an unconfigured node to become configured), an idle timeout of 2 units with iterations of up to 2.
  That is the least for a second client to queue behind the first, for a
  timeout to expire both exactly and past its limit, and for a freed number
  to be reused by the CAN socket.
- **Runtime.** Three RX slots, of which the stack initialises two (slot 0
  with the wake-up callback, slot 1 with an RT callback, slot 2 left unused);
  bus ids `{0, 1, 2, 5}` cover a frame for each slot, an RTR frame and one no
  slot takes; one queued frame per socket; one communication reset, so that
  socket generations 1 and 2 both exist; an eventfd bound of 2, so the
  counter saturates.

### Fairness

- **CANsend.** Fairness is part of `Spec`:
  - weak fairness for the steps of a thread inside the driver;
  - strong fairness for `ProcessScan`, because the mainline calls
    `CO_CANmodule_process` on every loop iteration;
  - strong fairness for a successful `send()` of a given buffer, because a
    socket that refuses a frame drains.

  `DeferredEventuallySent` is conditional on the protocol objects eventually
  not sending. While they keep sending, the one-buffer-per-iteration retry
  can starve higher buffers; that hazard is listed in `PROJECT.json`.
- **Gateway.** Weak fairness for the mainline's gateway steps; strong
  fairness for the timer expiring and for a ready gateway descriptor being
  returned by `epoll_wait` (both are enabled only while the loop waits); strong
  fairness for a read that finds parser space, because `CO_process` drains the
  parser on every iteration. Clients and peers have none.
- **Runtime.** Weak fairness for each thread: both run in a loop and block
  only in `epoll_wait` and `recvmsg`, which the model enables only when the
  kernel would return. The bus and the operator (`SigHandler`) have no
  fairness, so a quiet bus is a legal behaviour, which is what
  `runtime_shutdown` exhibits.
- **CANerror and Storage.** These check safety only.
- **Liveness in `Runtime`.** A property that every queued frame is
  eventually read holds only under a premise excluding an endless run of
  socket errors (each is taken before the frame), and with that premise TLC
  needs 6 to 13 minutes on the model, against under a minute for its
  safety properties. `Runtime` therefore checks safety only; the liveness of the RT thread at shutdown is
  the subject of the `runtime_shutdown` run.

## Not modelled, and why

- **Timer re-arm and time in the event loop.** `Runtime` treats a timer
  expiry as an event that can happen whenever the RT thread waits;
  `timerNext_us` and the periodic re-arm are not modelled.
- **Initialisation failures.** A failing `CO_CANinit` or `CO_CANmodule_init`
  is not modelled; the `pthread_join` on an uninitialised thread id that
  follows a failure on the first pass is a listed hazard. The same join
  follows a SIGINT or SIGTERM that arrives between `signal()` and the first
  loop test; `Runtime` reaches that state (`SigHandler` before `MainTop`) and
  models the undefined join only as the process ending. On a later pass,
  each failure exit sets `CO_endProgram` and leaves the loop with the driver
  disabled. The RT thread then sees `endProgram` at its next timer event
  and is joined: this ends the same way as `SigHandler` during a reset. What
  the exits add is a read of undefined values. An early return of
  `CO_CANmodule_addInterface` leaves a counted interface whose `fd` was never
  set, which is a listed hazard.
- **Error frames in `Runtime`.** `CANerror` models their handling; `Runtime`
  models only the pending socket error that `EPOLLERR` reports.
- **The multi-interface driver**, which is not in the default build.
- **Scenario S3 of the spec** says that after a crash between the two
  renames, `<path>` still holds the previous generation. `storeLinux`
  (`CO_storageLinux.c` 123-124) renames `<path>` to `.old` first, so such a
  crash leaves no `<path>`. `CO_storageLinux_init` then reports the entry as
  corrupt and uses the defaults. `NoSilentRollback` in the `storage` run
  accepts that outcome, because the failure is reported. The difference
  from S3 is in the spec's wording and is not a run.
- **Scenario S4 of the spec** counts `NOACK_MAX` ACK errors before
  listen-only; `CO_CANerrorNoack` needs `NOACK_MAX + 1`, as the spec's
  section 4.B ("exceeds") says. A unit test reaches this directly, so it is
  recorded as a hazard with the difference, not as a run.
- **Logging, message texts and command-line parsing**, which are pure I/O.
- **The emergency object.** `CO_errorReport`/`CO_errorReset` are CANopenNode
  code outside this repository. The mainline's debounce of the auto-save
  error mask (`storageErrorPrev`, updated even while the node id is
  unconfigured) is a listed hazard without a property.
- **Kernel drops in `Runtime`.** The kernel never drops a frame in
  `Runtime`. The `SO_RXQ_OVFL` drop count and `rxDropCount` are modelled in
  `CANerror` instead, where the `rx_drops` run checks them.
- **Memory barriers** (`CO_FLAG_*`): TLC checks sequentially consistent
  interleavings only.
- **CRC-16**, which is a pure function abstracted as injective.
