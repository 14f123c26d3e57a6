------------------------------ MODULE Storage ------------------------------
(***************************************************************************)
(* File-backed storage of object-dictionary memory (src/CO_storageLinux.c) *)
(* as driven by the mainline of CO_main_basic.c: CO_storageLinux_init at   *)
(* start-up, storeLinux on a write to 0x1010, restoreLinux on a write to   *)
(* 0x1011, CO_storageLinux_auto_process on the auto-save interval and once *)
(* more, with closeFiles, at shutdown.  The process may crash between any  *)
(* two steps; the files survive it, the memory and the open handles do     *)
(* not.                                                                    *)
(*                                                                         *)
(* Each entry has three names, <path>, <path>.tmp and <path>.old.  A file  *)
(* holds an image [data, crc] (len bytes and a CRC-16), the two bytes      *)
(* "-\n", or fewer bytes than either ("short").  The CRC is abstracted to  *)
(* the identity on the small set Values (no collisions), so an image is    *)
(* valid iff crc = data; entry->crc starts as 0, the CRC of no value.      *)
(* The auto-save handle entry->fp is recorded as the name of the file it   *)
(* refers to: rename() moves it along with the file, and a file renamed    *)
(* over it leaves it on an unlinked inode ("orphan").  Writes complete     *)
(* within one step: an entry's len + 2 bytes fit the stdio buffer, so they *)
(* reach the kernel in one write() at fclose or fflush.                    *)
(***************************************************************************)
EXTENDS Naturals, FiniteSets, Sequences

CONSTANTS
    Entries,          \* storageEntries[]
    Attr,             \* [Entries -> SUBSET {"cmd", "auto", "restore"}]: entry->attr
    Values,           \* memory images an entry can hold
    Default,          \* [Entries -> Values]: the image before any restore
    REPORTED_FAILS,   \* I/O failures whose ODR_HW reaches the SDO client
    FLUSH_FAILS,      \* fflush() of an auto-save may fail
    Order,            \* the entries in the order of storageEntries[]
    RtWritten         \* entries whose memory the RT thread writes under the
                      \* OD lock (RPDO-mapped application variables)

Names == {"live", "tmp", "old"}
NoCrc == "zero"                                \* entry->crc before any restore
Absent == [kind |-> "absent"]
Short == [kind |-> "short"]
Dash == [kind |-> "dash"]
Image(v) == [kind |-> "image", data |-> v, crc |-> v]
Images == [kind : {"image"}, data : Values, crc : Values]
Contents == {Absent, Short, Dash} \cup Images

ASSUME Default \in [Entries -> Values] /\ Attr \in [Entries -> SUBSET {"cmd", "auto", "restore"}]
ASSUME RtWritten \subseteq Entries /\ {Order[i] : i \in DOMAIN Order} = Entries

VARIABLES
    file,        \* file[e][n]: content of <path>, <path>.tmp, <path>.old
    fpAt,        \* entry->fp: "none", a name, or "orphan"
    mem,         \* *entry->addr
    crc,         \* entry->crc
    initError,   \* storageInitError, as the set of entries with their bit set
    autoError,   \* storageErrorPrev: the last mask from auto_process
    pc,          \* "boot", "run", or the step an explicit store or restore is at
    opEntry,     \* the entry of that store or restore
    aIdx,        \* auto_process: the loop index i (1-based)
    crcReg,      \* auto_process: the local crc of the current entry
    closing,     \* auto_process: its closeFiles argument
    mask,        \* auto_process: the local storageError
    committed    \* ghost: what the last save the code reported successful
                 \* made persistent: an image, "defaults", or "none"

autoVars == <<aIdx, crcReg, closing, mask>>
vars == <<file, fpAt, mem, crc, initError, autoError, pc, opEntry, committed,
          autoVars>>

Valid(c) == c \in Images /\ c.crc = c.data
Complete(c) == Valid(c) \/ c = Dash

\* The file states a first start can find: nothing, "-\n" or a valid image.
InitialFiles == {Absent, Dash} \cup {Image(v) : v \in Values}

\* The locals of auto_process outside a call.
AutoIdle == aIdx = 1 /\ crcReg = NoCrc /\ closing = FALSE /\ mask = {}
AutoReset == aIdx' = 1 /\ crcReg' = NoCrc /\ closing' = FALSE /\ mask' = {}

Init ==
    /\ file \in [Entries -> {f \in [Names -> Contents] :
                                 f.live \in InitialFiles /\ f.tmp = Absent /\ f.old = Absent}]
    /\ fpAt = [e \in Entries |-> "none"]
    /\ mem = Default
    /\ crc = [e \in Entries |-> NoCrc]
    /\ initError = {}
    /\ autoError = {}
    /\ pc = "boot"
    /\ opEntry = CHOOSE e \in Entries : TRUE
    /\ committed = [e \in Entries |-> CASE Valid(file[e].live) -> file[e].live.data
                                        [] file[e].live = Dash -> "defaults"
                                        [] OTHER -> "none"]
    /\ AutoIdle


(* rename(from, to) within entry e's files, when <from> exists; the open   *)
(* handle follows its file.                                                *)
Renamed(f, from, to) == [f EXCEPT ![to] = f[from], ![from] = Absent]
FpAfterRename(fp, from, to) == CASE fp = from -> to
                                 [] fp = to   -> "orphan"
                                 [] OTHER     -> fp

(* The image CO_storageLinux_init loads into memory, if any.               *)
Loads(c) == Valid(c)

(* CO_storageLinux_init, for every entry: read <path>; restore a valid     *)
(* image ("r+"), accept "-\n" ("w"), else flag the entry DATA_CORRUPT      *)
(* ("w"); an auto entry then keeps <path> open with that mode, "w"         *)
(* truncating it.  DATA_CORRUPT is tolerated by main().                    *)
Boot ==
    /\ pc = "boot"
    /\ LET live(e) == file[e].live
           truncate(e) == "auto" \in Attr[e] /\ ~Loads(live(e))
       IN  /\ mem' = [e \in Entries |-> IF Loads(live(e)) THEN live(e).data ELSE mem[e]]
           /\ crc' = [e \in Entries |-> IF Loads(live(e)) THEN live(e).data ELSE NoCrc]
           /\ initError' = {e \in Entries : ~Complete(live(e))}
           /\ file' = [e \in Entries |-> IF truncate(e) THEN [file[e] EXCEPT !.live = Short]
                                                          ELSE file[e]]
           /\ fpAt' = [e \in Entries |-> IF "auto" \in Attr[e] THEN "live" ELSE "none"]
    /\ pc' = "run"
    /\ UNCHANGED <<autoError, opEntry, committed, autoVars>>

(* The object dictionary changes the memory of an entry (SDO write, LSS    *)
(* store of mlStorage).                                                    *)
Write(e, v) ==
    /\ pc = "run"
    /\ mem' = [mem EXCEPT ![e] = v]
    /\ UNCHANGED <<file, fpAt, crc, initError, autoError, pc, opEntry, committed, autoVars>>

(* storeLinux, first part: write data and CRC to <path>.tmp ("w"), read    *)
(* it back and verify.  On success go on to the renames; a failed fopen or *)
(* short write returns ODR_HW and leaves a short .tmp.                     *)
StoreWrite(e) ==
    /\ pc = "run"
    /\ "cmd" \in Attr[e]
    /\ \/ /\ file' = [file EXCEPT ![e].tmp = Image(mem[e])]
          /\ pc' = "storeRename"
       \/ /\ REPORTED_FAILS
          /\ file' = [file EXCEPT ![e].tmp = Short]
          /\ UNCHANGED pc
    /\ opEntry' = e
    /\ UNCHANGED <<fpAt, mem, crc, initError, autoError, committed, autoVars>>

(* storeLinux: rename(<path>, <path>.old), best effort.                     *)
StoreRename ==
    LET e == opEntry IN
    /\ pc = "storeRename"
    /\ IF file[e].live # Absent
         THEN /\ file' = [file EXCEPT ![e] = Renamed(file[e], "live", "old")]
              /\ fpAt' = [fpAt EXCEPT ![e] = FpAfterRename(fpAt[e], "live", "old")]
         ELSE UNCHANGED <<file, fpAt>>
    /\ pc' = "storeCommit"
    /\ UNCHANGED <<mem, crc, initError, autoError, opEntry, committed, autoVars>>

(* storeLinux: rename(<path>.tmp, <path>), the commit; ODR_OK.  Its        *)
(* failure returns ODR_HW with <path> already gone.                        *)
StoreCommit ==
    LET e == opEntry IN
    /\ pc = "storeCommit"
    /\ \/ /\ file' = [file EXCEPT ![e] = Renamed(file[e], "tmp", "live")]
          /\ fpAt' = [fpAt EXCEPT ![e] = FpAfterRename(fpAt[e], "tmp", "live")]
          /\ committed' = [committed EXCEPT ![e] = file[e].tmp.data]
       \/ /\ REPORTED_FAILS
          /\ UNCHANGED <<file, fpAt, committed>>
    /\ pc' = "run"
    /\ UNCHANGED <<mem, crc, initError, autoError, opEntry, autoVars>>

(* Variant of RestoreStart that leaves the auto-save handle open.          *)
RestoreStartKeepFp(e) ==
    /\ pc = "run"
    /\ "restore" \in Attr[e]
    /\ LET f == IF file[e].live # Absent THEN Renamed(file[e], "live", "old") ELSE file[e]
           fp == IF file[e].live # Absent THEN FpAfterRename(fpAt[e], "live", "old") ELSE fpAt[e]
       IN  \/ /\ file' = [file EXCEPT ![e] = [f EXCEPT !.live = Short]]
              /\ pc' = "restoreDash"
              /\ fpAt' = [fpAt EXCEPT ![e] = fp]
           \/ /\ REPORTED_FAILS
              /\ file' = [file EXCEPT ![e] = f]
              /\ fpAt' = [fpAt EXCEPT ![e] = fp]
              /\ UNCHANGED pc
    /\ opEntry' = e
    /\ UNCHANGED <<mem, crc, initError, autoError, committed, autoVars>>

(* restoreLinux, first part: an auto entry's handle is closed, <path> is   *)
(* renamed to <path>.old (best effort) and created empty by fopen("w");    *)
(* a failed fopen returns ODR_HW.                                          *)
RestoreStart(e) ==
    /\ pc = "run"
    /\ "restore" \in Attr[e]
    /\ LET f == IF file[e].live # Absent THEN Renamed(file[e], "live", "old") ELSE file[e]
       IN  \/ /\ file' = [file EXCEPT ![e] = [f EXCEPT !.live = Short]]
              /\ pc' = "restoreDash"
           \/ /\ REPORTED_FAILS
              /\ file' = [file EXCEPT ![e] = f]
              /\ UNCHANGED pc
    /\ fpAt' = [fpAt EXCEPT ![e] = "none"]
    /\ opEntry' = e
    /\ UNCHANGED <<mem, crc, initError, autoError, committed, autoVars>>

(* restoreLinux: fputs("-\n") and fclose; ODR_OK.                           *)
RestoreDash ==
    LET e == opEntry IN
    /\ pc = "restoreDash"
    /\ file' = [file EXCEPT ![e].live = Dash]
    /\ committed' = [committed EXCEPT ![e] = "defaults"]
    /\ pc' = "run"
    /\ UNCHANGED <<fpAt, mem, crc, initError, autoError, opEntry, autoVars>>

(* main() calls CO_storageLinux_auto_process(closeFiles): the loop over   *)
(* storageEntries[] starts.  With closeFiles (at shutdown) the RT thread   *)
(* has been joined already.                                                *)
AutoProcess(closeFiles) ==
    /\ pc = "run"
    /\ pc' = "auto"
    /\ closing' = closeFiles
    /\ UNCHANGED <<file, fpAt, mem, crc, initError, autoError, opEntry, committed,
                   aIdx, crcReg, mask>>

\* fclose(entry->fp); entry->fp = NULL, when closeFiles.
Closed(e) == IF closing THEN [fpAt EXCEPT ![e] = "none"] ELSE fpAt

(* One iteration for entry i: an entry that is not auto or has no handle   *)
(* is skipped ("continue", not closed); otherwise the CRC of the memory is *)
(* computed without the OD lock, and the entry is rewritten if it differs  *)
(* from entry->crc, or else only closed when closeFiles.                   *)
AutoEntry ==
    LET e == Order[aIdx] IN
    /\ pc = "auto"
    /\ aIdx <= Len(Order)
    /\ IF "auto" \notin Attr[e] \/ fpAt[e] = "none"
         THEN aIdx' = aIdx + 1 /\ UNCHANGED <<fpAt, pc, crcReg>>
       ELSE IF mem[e] = crc[e]
         THEN aIdx' = aIdx + 1 /\ fpAt' = Closed(e) /\ UNCHANGED <<pc, crcReg>>
       ELSE pc' = "autoWrite" /\ crcReg' = mem[e] /\ UNCHANGED <<aIdx, fpAt>>
    /\ UNCHANGED <<file, mem, crc, initError, autoError, opEntry, committed,
                   closing, mask>>

(* The outcome of one entry's rewind, fwrite, fwrite, fflush.              *)
AutoOutcomes == {"ok"} \cup (IF FLUSH_FAILS THEN {"flushFailed"} ELSE {})
                      \cup (IF REPORTED_FAILS THEN {"writeShort"} ELSE {})

(* The rewrite: rewind; fwrite of the memory under CO_LOCK_OD (so no RT    *)
(* write falls inside it); fwrite of the CRC computed before; fflush,      *)
(* whose result is ignored.  If both fwrite counts are complete,           *)
(* entry->crc = crc, else the entry's bit is set in storageError and       *)
(* entry->crc kept, so the next call retries.  The handle writes through   *)
(* whatever name its file now has, or to an unlinked inode.                *)
AutoWrite ==
    LET e == Order[aIdx] IN
    /\ pc = "autoWrite"
    /\ \E out \in AutoOutcomes :
        LET onDisk == out # "flushFailed" /\ fpAt[e] \in Names
        IN  /\ file' = IF ~onDisk THEN file
                       ELSE [file EXCEPT ![e][fpAt[e]] =
                               IF out = "ok" THEN [kind |-> "image", data |-> mem[e], crc |-> crcReg]
                                             ELSE Short]
            /\ crc' = IF out # "writeShort" THEN [crc EXCEPT ![e] = crcReg] ELSE crc
            /\ committed' = IF out # "writeShort" THEN [committed EXCEPT ![e] = mem[e]]
                                                  ELSE committed
            /\ mask' = IF out = "writeShort" THEN mask \cup {e} ELSE mask
    /\ fpAt' = Closed(e) /\ aIdx' = aIdx + 1 /\ pc' = "auto"
    /\ UNCHANGED <<mem, initError, autoError, opEntry, crcReg, closing>>

(* The loop has ended: main() keeps the mask as storageErrorPrev; after    *)
(* the closeFiles call the process exits, and the next start boots again. *)
AutoDone ==
    /\ pc = "auto"
    /\ aIdx > Len(Order)
    /\ autoError' = mask
    /\ pc' = IF closing THEN "boot" ELSE "run"
    /\ mem' = IF closing THEN Default ELSE mem
    /\ crc' = IF closing THEN [e \in Entries |-> NoCrc] ELSE crc
    /\ AutoReset
    /\ UNCHANGED <<file, fpAt, initError, opEntry, committed>>

(* The RT thread writes an entry's memory, e.g. an RPDO mapped to it,      *)
(* inside CO_LOCK_OD in CO_epoll_processRT; it runs while the mainline     *)
(* does, and is joined before the closeFiles call.  storeLinux and       *)
(* restoreLinux run inside the SDO server's CO_LOCK_OD (the comment at     *)
(* CO_storageLinux.c 80-82), so no RT write falls between their steps.     *)
RtWrite(e, v) ==
    /\ e \in RtWritten
    /\ pc \in {"run", "auto", "autoWrite"} /\ ~closing
    /\ mem' = [mem EXCEPT ![e] = v]
    /\ UNCHANGED <<file, fpAt, crc, initError, autoError, pc, opEntry, committed,
                   autoVars>>

(* The process dies: memory, entry->crc and the open handles are lost;     *)
(* what reached the files stays.                                           *)
Crash ==
    /\ pc # "boot"
    /\ fpAt' = [e \in Entries |-> "none"]
    /\ mem' = Default
    /\ crc' = [e \in Entries |-> NoCrc]
    /\ autoError' = {}
    /\ pc' = "boot"
    /\ AutoReset
    /\ UNCHANGED <<file, initError, opEntry, committed>>

Next ==
    \/ Boot
    \/ \E e \in Entries, v \in Values : Write(e, v)
    \/ \E e \in Entries : StoreWrite(e) \/ RestoreStart(e)
    \/ StoreRename \/ StoreCommit \/ RestoreDash
    \/ \E closeFiles \in BOOLEAN : AutoProcess(closeFiles)
    \/ AutoEntry \/ AutoWrite \/ AutoDone
    \/ \E e \in Entries, v \in Values : RtWrite(e, v)
    \/ Crash

Spec == Init /\ [][Next]_vars

-----------------------------------------------------------------------------
TypeOK ==
    /\ file \in [Entries -> [Names -> Contents]]
    /\ fpAt \in [Entries -> Names \cup {"none", "orphan"}]
    /\ mem \in [Entries -> Values]
    /\ crc \in [Entries -> Values \cup {NoCrc}]
    /\ initError \subseteq Entries /\ autoError \subseteq Entries
    /\ pc \in {"boot", "run", "storeRename", "storeCommit", "restoreDash", "auto", "autoWrite"}
    /\ aIdx \in 1 .. Len(Order) + 1 /\ crcReg \in Values \cup {NoCrc}
    /\ closing \in BOOLEAN /\ mask \subseteq Entries
    /\ opEntry \in Entries
    /\ committed \in [Entries -> Values \cup {"defaults", "none"}]

\* The image a start-up should load for e after the saves reported so far.
Expected(e) == IF committed[e] \in Values THEN committed[e] ELSE Default[e]

(* Spec §8 storage round trip, about CO_storageLinux_init against the      *)
(* saves before it: every start-up either loads the image the last save    *)
(* reported as successful made persistent (the defaults after a restore    *)
(* to defaults) or reports the entry in storageInitError; it never loads   *)
(* an older or a different image silently.                                 *)
NoSilentRollback ==
    [][Boot => \A e \in Entries : mem'[e] = Expected(e) \/ e \in initError']_vars

(* About the unlocked CRC of CO_storageLinux_auto_process against writes   *)
(* of the entry's memory: whenever the handle of an auto entry is on       *)
(* <path>, that file holds a valid image of the current memory, or the     *)
(* memory's CRC differs from entry->crc, so that the next call rewrites    *)
(* it.  A file that a crash would find corrupt is never left so for good.  *)
AutoFileTracksMemory ==
    \A e \in Entries :
        "auto" \in Attr[e] /\ fpAt[e] = "live" /\ pc # "autoWrite"
            => \/ Valid(file[e].live) /\ file[e].live.data = mem[e]
               \/ mem[e] # crc[e]
=============================================================================
