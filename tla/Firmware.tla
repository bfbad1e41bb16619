------------------------------ MODULE Firmware ------------------------------
(***************************************************************************)
(* src/memloader/firmware.c with the callbacks of memloader_core.c: the    *)
(* sysfs-driven firmware load of the memory loader.                        *)
(*                                                                         *)
(* Processes write the sysfs attributes of the "fw" kobject:               *)
(*   - "state" = 1 (the Loaders): fw_load_device_firmware under            *)
(*     serial_lock, request_firmware, then the write loop calling          *)
(*     memloader_write until every byte is copied or the state leaves      *)
(*     FW_LOADING, then memloader_end and the final switch;                *)
(*   - "state" = 0 (the Cancellers): ctx->state = FW_EMPTY, with no lock;  *)
(*   - "blocksize" (the Tuners): ctx->blocksize, with no lock.             *)
(* memloader_remove runs fw_cleanup: FW_DELETED, then kobject_del, which   *)
(* waits for the stores under way.                                         *)
(*                                                                         *)
(* The firmware image is Img; the load region is `dest`, with Slack cells  *)
(* after the image so that a copy past its end is seen.  A byte read past  *)
(* the end of the firmware buffer is Junk.                                 *)
(***************************************************************************)
EXTENDS Integers, Sequences

CONSTANTS
    Procs, Loaders, Cancellers, Tuners,
    NoProc,
    Img,          \* fw->data: a sequence of bytes (1..)
    Slack,        \* cells of the load region after the image
    BlockSizes,   \* values written to the blocksize attribute
    DEF_BLOCKSIZE,
    ReqCanFail,   \* request_firmware may fail
    IoCanFail     \* ioremap in memloader_load may fail (-EBUSY)

Junk == -1
Cells == 0..(Len(Img) + Slack - 1)
FwStates == {"EMPTY", "LOADING", "LOADED", "FAILED", "DELETED"}
Results == {"none", "ok", "einval", "eio", "err"}

VARIABLES
    state,      \* ctx->state
    mutex,      \* serial_lock
    pc,         \* where each process is
    cur,        \* ctx->current_count
    total,      \* ctx->total_count
    icur,       \* info->current_count (memloader's own count)
    retneg,     \* the loader's ret < 0
    blocksize,  \* ctx->blocksize
    dest,       \* the load region
    result,     \* what the last store to "state" = 1 returned
    cancelled,  \* history: a cancel returned while this process was loading
    removed     \* fw_cleanup has run: no new sysfs store starts

vars == <<state, mutex, pc, cur, total, icur, retneg, blocksize, dest,
          result, cancelled, removed>>

PCs == {"idle", "l_lock", "l_begin", "l_request", "l_loop", "l_end",
        "l_switch", "l_loaded"}

\* From FW_LOADING on, until the load returns.
LoadingPcs == {"l_request", "l_loop", "l_end", "l_switch", "l_loaded"}

\* The byte at offset i of the firmware buffer, or what lies beyond it.
Src(i) == IF i < Len(Img) THEN Img[i + 1] ELSE Junk

\* fw_initialize: defaults, FW_EMPTY; the region is not yet written.
Init ==
    /\ state = "EMPTY"
    /\ mutex = NoProc
    /\ pc = [p \in Procs |-> "idle"]
    /\ cur = 0 /\ total = 0 /\ icur = 0
    /\ retneg = FALSE
    /\ blocksize = DEF_BLOCKSIZE
    /\ dest = [c \in Cells |-> 0]
    /\ result = [p \in Procs |-> "none"]
    /\ cancelled = [p \in Procs |-> FALSE]
    /\ removed = FALSE

Unlock(p, r) ==
    /\ mutex' = NoProc
    /\ pc' = [pc EXCEPT ![p] = "idle"]
    /\ result' = [result EXCEPT ![p] = r]

(***************************************************************************)
(* fw_load_device_firmware(ctx, 1).                                        *)
(***************************************************************************)
LoadCall(p) ==
    /\ pc[p] = "idle" /\ p \in Loaders /\ ~removed
    /\ pc' = [pc EXCEPT ![p] = "l_lock"]
    /\ cancelled' = [cancelled EXCEPT ![p] = FALSE]
    /\ UNCHANGED <<state, mutex, cur, total, icur, retneg, blocksize, dest,
                   result, removed>>

\* mutex_lock, and the switch on the state: loading, loaded or deleted
\* firmware is refused with -EINVAL.
LoadLock(p) ==
    /\ pc[p] = "l_lock" /\ mutex = NoProc
    /\ IF state \in {"LOADING", "LOADED", "DELETED"}
       THEN /\ result' = [result EXCEPT ![p] = "einval"]
            /\ pc' = [pc EXCEPT ![p] = "idle"]
            /\ UNCHANGED mutex
       ELSE /\ mutex' = p
            /\ pc' = [pc EXCEPT ![p] = "l_begin"]
            /\ UNCHANGED result
    /\ UNCHANGED <<state, cur, total, icur, retneg, blocksize, dest,
                   cancelled, removed>>

\* ctx->state = FW_LOADING, the counts cleared.
LoadBegin(p) ==
    /\ pc[p] = "l_begin"
    /\ state' = "LOADING"
    /\ cur' = 0 /\ total' = 0
    /\ pc' = [pc EXCEPT ![p] = "l_request"]
    /\ UNCHANGED <<mutex, icur, retneg, blocksize, dest, result, cancelled,
                   removed>>

\* Mutant: the request_firmware failure path keeps serial_lock.
LoadRequestNoUnlock(p) ==
    /\ pc[p] = "l_request"
    /\ \/ /\ total' = Len(Img)
          /\ icur' = 0
          /\ retneg' = FALSE
          /\ pc' = [pc EXCEPT ![p] = "l_loop"]
          /\ UNCHANGED <<state, mutex, result>>
       \/ /\ ReqCanFail
          /\ state' = "FAILED"
          /\ pc' = [pc EXCEPT ![p] = "idle"]
          /\ result' = [result EXCEPT ![p] = "err"]
          /\ UNCHANGED <<mutex, total, icur, retneg>>
    /\ UNCHANGED <<cur, blocksize, dest, cancelled, removed>>

\* request_firmware sleeps; on failure FW_FAILED and its error returned.
\* On success total_count = fw->size and memloader_start clears
\* info->current_count and returns 0.
LoadRequest(p) ==
    /\ pc[p] = "l_request"
    /\ \/ /\ total' = Len(Img)
          /\ icur' = 0
          /\ retneg' = FALSE
          /\ pc' = [pc EXCEPT ![p] = "l_loop"]
          /\ UNCHANGED <<state, mutex, result>>
       \/ /\ ReqCanFail
          /\ state' = "FAILED"
          /\ Unlock(p, "err")
          /\ UNCHANGED <<total, icur, retneg>>
    /\ UNCHANGED <<cur, blocksize, dest, cancelled, removed>>

\* Mutant: the block is not clamped to the bytes that remain.
BlockCountNoClamp(bs, remaint) == IF bs # 0 THEN bs ELSE remaint

\* memloader_write: the size of the next block.
BlockCount(bs, remaint) ==
    LET count == IF bs # 0 THEN bs ELSE remaint
    IN  IF count > remaint THEN remaint ELSE count

\* Mutant: the block is copied to load_base_address without the offset.
CopiedNoOffset(count) ==
    [c \in Cells |-> IF c < count THEN Src(cur + c) ELSE dest[c]]

\* memloader_load copies count bytes from data + cur to the region at cur.
Copied(count) ==
    [c \in Cells |-> IF c >= cur /\ c < cur + count THEN Src(c) ELSE dest[c]]

\* One pass of the write loop, entered while current_count < total_count
\* and the state is FW_LOADING: ret = memloader_write(ctx).  A count <= 0
\* (-EINVAL) or a failed ioremap (-EBUSY) breaks out of the loop; otherwise
\* both counts advance.  (ctx->read is NULL for the memloader; the nap of
\* usleep_range changes nothing.)
LoadWrite(p) ==
    /\ pc[p] = "l_loop"
    /\ cur < total /\ state = "LOADING"
    /\ LET count == BlockCount(blocksize, total - cur) IN
       \/ /\ count <= 0
          /\ retneg' = TRUE
          /\ pc' = [pc EXCEPT ![p] = "l_end"]
          /\ UNCHANGED <<cur, icur, dest>>
       \/ /\ count > 0 /\ IoCanFail
          /\ retneg' = TRUE
          /\ pc' = [pc EXCEPT ![p] = "l_end"]
          /\ UNCHANGED <<cur, icur, dest>>
       \/ /\ count > 0
          /\ dest' = Copied(count)
          /\ icur' = icur + count
          /\ cur' = cur + count
          /\ retneg' = FALSE
          /\ UNCHANGED pc
    /\ UNCHANGED <<state, mutex, total, blocksize, result, cancelled, removed>>

\* The loop condition fails: every byte written, or the load cancelled.
LoadLoopDone(p) ==
    /\ pc[p] = "l_loop"
    /\ ~(cur < total /\ state = "LOADING")
    /\ pc' = [pc EXCEPT ![p] = "l_end"]
    /\ UNCHANGED <<state, mutex, cur, total, icur, retneg, blocksize, dest,
                   result, cancelled, removed>>

\* memloader_end fails (-EIO) when its own count differs from ctx's.
MemloaderEnd == icur # cur

\* if (ret < 0) FW_FAILED; then ret = ctx->end(...): memloader_end returns
\* -EIO when its count differs from ctx's, and 0 otherwise; FW_FAILED if
\* it failed.  release_firmware.
LoadEnd(p) ==
    /\ pc[p] = "l_end"
    /\ LET endneg == MemloaderEnd IN
       /\ state' = IF retneg \/ endneg THEN "FAILED" ELSE state
       /\ retneg' = endneg
    /\ pc' = [pc EXCEPT ![p] = "l_switch"]
    /\ UNCHANGED <<mutex, cur, total, icur, blocksize, dest, result,
                   cancelled, removed>>

\* The final switch reads the state: FW_LOADING goes on to FW_LOADED;
\* cancelled or deleted returns -EIO; FW_FAILED returns ret.  (FW_LOADED
\* "should never occur" and is reset to FW_EMPTY.)
LoadSwitch(p) ==
    /\ pc[p] = "l_switch"
    /\ CASE state = "LOADING" ->
              /\ pc' = [pc EXCEPT ![p] = "l_loaded"]
              /\ UNCHANGED <<state, mutex, result>>
         [] state \in {"EMPTY", "DELETED"} ->
              /\ Unlock(p, "eio") /\ UNCHANGED state
         [] state = "FAILED" ->
              /\ Unlock(p, IF retneg THEN "err" ELSE "ok") /\ UNCHANGED state
         [] state = "LOADED" ->
              /\ state' = "EMPTY"
              /\ Unlock(p, IF retneg THEN "err" ELSE "ok")
    /\ UNCHANGED <<cur, total, icur, retneg, blocksize, dest, cancelled,
                   removed>>

\* ctx->state = FW_LOADED, ret = 0, mutex_unlock.
LoadLoaded(p) ==
    /\ pc[p] = "l_loaded"
    /\ state' = "LOADED"
    /\ Unlock(p, "ok")
    /\ UNCHANGED <<cur, total, icur, retneg, blocksize, dest, cancelled,
                   removed>>

(***************************************************************************)
(* The other sysfs stores and fw_cleanup.                                  *)
(***************************************************************************)
\* "state" = 0: ctx->state = FW_EMPTY with no lock; a load under way stops
\* at its next loop check.
Cancel(p) ==
    /\ pc[p] = "idle" /\ p \in Cancellers /\ ~removed
    /\ state' = "EMPTY"
    /\ cancelled' = [q \in Procs |-> cancelled[q] \/ pc[q] \in LoadingPcs]
    /\ UNCHANGED <<mutex, pc, cur, total, icur, retneg, blocksize, dest,
                   result, removed>>

\* "blocksize": ctx->blocksize = simple_strtol(buf), no lock.
SetBlocksize(p) ==
    /\ pc[p] = "idle" /\ p \in Tuners /\ ~removed
    /\ \E bs \in BlockSizes : blocksize' = bs
    /\ UNCHANGED <<state, mutex, pc, cur, total, icur, retneg, dest, result,
                   cancelled, removed>>

\* memloader_remove -> fw_cleanup: FW_DELETED cancels a load under way;
\* kobject_del removes the attributes (and waits for stores under way).
Cleanup ==
    /\ ~removed
    /\ state' = "DELETED"
    /\ removed' = TRUE
    /\ UNCHANGED <<mutex, pc, cur, total, icur, retneg, blocksize, dest,
                   result, cancelled>>

InLoad(p) ==
    \/ LoadBegin(p) \/ LoadRequest(p) \/ LoadWrite(p) \/ LoadLoopDone(p)
    \/ LoadEnd(p) \/ LoadSwitch(p) \/ LoadLoaded(p)

Next ==
    \/ \E p \in Procs :
          LoadCall(p) \/ LoadLock(p) \/ InLoad(p) \/ Cancel(p)
          \/ SetBlocksize(p)
    \/ Cleanup

\* A loader runs on (WF); serial_lock is a mutex that a waiter repeatedly
\* finding free gets (SF).  Nobody has to write an attribute or remove the
\* device.
Spec ==
    /\ Init /\ [][Next]_vars
    /\ \A p \in Procs : WF_vars(InLoad(p)) /\ SF_vars(LoadLock(p))

(***************************************************************************)
(* Properties.                                                             *)
(***************************************************************************)
FwTypeOK ==
    /\ state \in FwStates
    /\ mutex \in Procs \cup {NoProc}
    /\ pc \in [Procs -> PCs]
    /\ cur \in 0..Len(Img) /\ total \in 0..Len(Img) /\ icur \in 0..Len(Img)
    /\ retneg \in BOOLEAN /\ blocksize \in BlockSizes \cup {DEF_BLOCKSIZE}
    /\ dest \in [Cells -> {0, Junk} \cup {Img[i] : i \in 1..Len(Img)}]
    /\ result \in [Procs -> Results]
    /\ cancelled \in [Procs -> BOOLEAN] /\ removed \in BOOLEAN

\* FW_LOADED means the device holds the image: every byte of it at its
\* offset, and nothing written after it.  It rests on the block clamp of
\* memloader_write, the offsets of memloader_load, the loop check of the
\* state and the final switch, with cancels and blocksize changes at any
\* time.
LoadedImageCorrect ==
    state = "LOADED" =>
        \A c \in Cells : dest[c] = IF c < Len(Img) THEN Img[c + 1] ELSE 0

\* Every write of "state" = 1 returns: serial_lock is released on every
\* path and the write loop ends.
LoadReturns == \A p \in Loaders : pc[p] # "idle" ~> pc[p] = "idle"

\* A write of "state" = 1 that returns success leaves the firmware loaded.
ReturnsOkOnlyWhenLoaded ==
    [][\A p \in Loaders :
         (pc[p] # "idle" /\ pc'[p] = "idle" /\ result'[p] = "ok")
             => state' = "LOADED"]_vars

\* A load during which a cancel ("state" = 0) returned does not report
\* success: the comment at the final switch says a cancel from another
\* thread must be honoured.
CancelHonoured == \A p \in Loaders : result[p] = "ok" => ~cancelled[p]

====
