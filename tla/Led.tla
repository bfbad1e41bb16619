-------------------------------- MODULE Led --------------------------------
(***************************************************************************)
(* src/led/led_dev.c and src/led/led_support.c: the LED platform driver.   *)
(*                                                                         *)
(* Actors:                                                                 *)
(*   - the driver core's probe/remove context, running led_dev_activate    *)
(*     (parse the device tree, create the workqueue, dev_leds_init) and    *)
(*     led_dev_deactivate;                                                 *)
(*   - LED core contexts (sysfs writes, triggers) calling the LED's        *)
(*     brightness_set on a registered LED;                                 *)
(*   - the single-threaded "kworker_led" workqueue running                 *)
(*     dev_led_set_work;                                                   *)
(*   - the platform code calling led_dev_enable / led_dev_disable.         *)
(*                                                                         *)
(* With "use-workqueue", brightness_set is dev_leds_brightness_set: it     *)
(* kzallocs a dev_work into the one shared pointer priv->works, fills it   *)
(* through that pointer and queues it.  Register writes go through         *)
(* dev_read_modify_write, a GA_READ_WRITE_ALWAYS ga_reg_write8, which is   *)
(* locked and so one atomic step (GenericAccess checks that).              *)
(* led_classdev_register/unregister are the kernel's: unregister first     *)
(* sets the LED off through brightness_set, and returns early for a cdev   *)
(* that was never registered (its dev is NULL in the zeroed priv).         *)
(***************************************************************************)
EXTENDS Integers, Sequences, Bitwise

CONSTANTS
    Boards,      \* device trees the driver may be probed on: [dt, wq]
    Offsets,     \* register offsets the LEDs use
    Ctxs,        \* LED core contexts that call brightness_set
    Values,      \* brightness values the LED core sets
    WorkIds,     \* dev_work allocations kzalloc can hand out
    MaxCalls,    \* bound on LED core calls of brightness_set
    CoreActive,  \* driver phases in which LED core contexts call in, or are
                 \* still inside a call (remove waits for them otherwise)
    Fallible     \* whether allocations, mappings and registration may fail

LED_OFF == 0
LED_FULL == 255
NULL == 0
NoReq == -1
Probe == "probe"         \* the probe/remove context as a caller
Callers == Ctxs \cup {Probe}

\* A device-tree property: Absent, BadLen when its length is not that of
\* one be32 cell, else the cell's value.
Absent == -1
BadLen == -2
Valid(p) == p >= 0

\* The bit-index property, or reg-index when bit-index is absent.
BitProp(c) == IF c.bit = Absent THEN c.regidx ELSE c.bit

\* The per-child checks of led_dev_activate that jump to err: led-name
\* missing, reg-offset or the bit index missing or not one cell, an
\* initial-brightness or active_low present but not one cell.
ChildParses(c) ==
    /\ c.name
    /\ Valid(c.off)
    /\ Valid(BitProp(c))
    /\ c.init # BadLen
    /\ c.al # BadLen

\* The dev_led the parse fills in.  reg_mask and the enb_* fields are u8,
\* active_low an int:1 bit-field (only the low bit is kept).  With
\* enable-ctrl 1, each missing enable property clears enb_ctrl but the
\* others are still read.
ParseChild(c) ==
    LET enb0 == IF Valid(c.enb) THEN c.enb % 256 ELSE 0
        on == enb0 = 1
    IN  [offset |-> c.off % 256,
         mask |-> (2 ^ BitProp(c)) % 256,
         enb_ctrl |-> IF on /\ ~(Valid(c.enbOff) /\ Valid(c.enbBit) /\ Valid(c.enbVal))
                      THEN 0 ELSE enb0,
         enb_offset |-> IF on /\ Valid(c.enbOff) THEN c.enbOff % 256 ELSE 0,
         enb_mask |-> IF on /\ Valid(c.enbBit) THEN (2 ^ c.enbBit) % 256 ELSE 0,
         enb_value |-> IF on /\ Valid(c.enbVal) THEN c.enbVal % 256 ELSE 0,
         brightness |-> IF Valid(c.init) THEN c.init ELSE LED_OFF,
         active_low |-> IF Valid(c.al) THEN c.al % 2 = 1 ELSE FALSE,
         disabled |-> FALSE]

\* dev_read_modify_write(addr, mask, upd): the byte with the mask bits
\* replaced by those of upd.
RMW(old, mask, upd) == (old - (old & mask)) + (upd & mask)

VARIABLES
    board,     \* the device tree probed: its children and use-workqueue
    drv,       \* where the device is in probe, its life and remove
    activating,\* the deactivate running is led_dev_activate's err path
    pi,        \* the LED dev_leds_init (or its unwind, or cleanup) is at
    privSet,   \* platform_get_drvdata(pdev) is non-NULL
    leds,      \* priv->leds[0 .. num_leds-1]
    cls,       \* per LED: "none", "reg" (registered), "unreg"
    wq,        \* priv->workqueue: "none", "live", "destroyed", or "oops"
               \* when its kworker crashed
    wqueue,    \* the works queued on it, oldest first
    works,     \* every dev_work: "free", "alloc" (filled or not) or "queued"
    privWorks, \* priv->works
    regs,      \* the device's byte registers
    cpc,       \* per caller: where it is in brightness_set
    carg,      \* per caller: the LED and value of its call
    mine,      \* per caller: the dev_work its kzalloc returned
    calls,     \* LED core calls made so far
    req,       \* history: per LED, the value of the latest brightness_set
    stale,     \* history: a later request of the LED was dropped or skipped
    unregTwice \* history: led_classdev_unregister ran on an unregistered cdev

vars == <<board, drv, activating, pi, privSet, leds, cls, wq, wqueue, works, privWorks,
          regs, cpc, carg, mine, calls, req, stale, unregTwice>>

N == Len(board.dt)
LedIds == 1..N
FreeWork == [st |-> "free", led |-> 0, val |-> 0]

\* The register bit an LED lights by: mask set unless the value and
\* active_low agree, as _dev_leds_brightness_set decides.
SetsBit(l, v) == (v # LED_OFF) # leds[l].active_low

\* _dev_leds_brightness_set(cdev of LED l, v): nothing while disabled.
Apply(l, v) ==
    IF leds[l].disabled
    THEN /\ stale' = [stale EXCEPT ![l] = TRUE]
         /\ UNCHANGED regs
    ELSE /\ regs' = [regs EXCEPT ![leds[l].offset] =
                        RMW(@, leds[l].mask, IF SetsBit(l, v) THEN leds[l].mask ELSE 0)]
         /\ UNCHANGED stale

\* _dev_leds_brightness_get(cdev of LED l).
BrightnessGet(l) ==
    LET reg == IF leds[l].disabled THEN 0 ELSE regs[leds[l].offset] & leds[l].mask
    IN  IF (reg # 0) = leds[l].active_low THEN LED_OFF ELSE LED_FULL

Init ==
    /\ board \in Boards
    /\ drv = "absent"
    /\ activating = FALSE
    /\ pi = 0
    /\ privSet = FALSE
    /\ leds = << >>
    /\ cls = [k \in 1..Len(board.dt) |-> "none"]
    /\ wq = "none"
    /\ wqueue = << >>
    /\ works = [w \in WorkIds |-> FreeWork]
    /\ privWorks = NULL
    /\ regs = [o \in Offsets |-> 0]
    /\ cpc = [c \in Callers |-> "idle"]
    /\ carg = [c \in Callers |-> [led |-> 0, val |-> 0]]
    /\ mine = [c \in Callers |-> NULL]
    /\ calls = 0
    /\ req = [k \in 1..Len(board.dt) |-> NoReq]
    /\ stale = [k \in 1..Len(board.dt) |-> FALSE]
    /\ unregTwice = FALSE

-----------------------------------------------------------------------------
(* Callers of the LED's brightness_set.                                    *)

\* The LED core (or the driver itself) calls brightness_set(cdev of l, v).
StartCall(c, l, v) ==
    /\ cpc' = [cpc EXCEPT ![c] = "set"]
    /\ carg' = [carg EXCEPT ![c] = [led |-> l, val |-> v]]
    /\ req' = [req EXCEPT ![l] = v]
    /\ stale' = [stale EXCEPT ![l] = FALSE]

\* dev_leds_brightness_set up to the kzalloc into priv->works, or, without
\* use-workqueue, _dev_leds_brightness_set itself.  priv is read from
\* drvdata; kzalloc(GFP_ATOMIC) may fail.  WorkIds bounds the dev_works
\* alive at once: with all of them taken, a caller waits.
BrightnessSet(c) ==
    LET l == carg[c].led IN
    /\ cpc[c] = "set"
    /\ \/ /\ ~board.wq
          /\ Apply(l, carg[c].val)
          /\ cpc' = [cpc EXCEPT ![c] = "idle"]
          /\ UNCHANGED <<works, privWorks, mine>>
       \/ /\ board.wq
          /\ ~privSet
          /\ cpc' = [cpc EXCEPT ![c] = "oops"]
          /\ UNCHANGED <<works, privWorks, mine, regs, stale>>
       \/ /\ board.wq
          /\ privSet
          /\ Fallible
          /\ privWorks' = NULL
          /\ stale' = [stale EXCEPT ![l] = TRUE]
          /\ cpc' = [cpc EXCEPT ![c] = "idle"]
          /\ UNCHANGED <<works, mine, regs>>
       \/ \E w \in WorkIds :
          /\ board.wq
          /\ privSet
          /\ works[w].st = "free"
          /\ works' = [works EXCEPT ![w] = [st |-> "alloc", led |-> 0, val |-> 0]]
          /\ privWorks' = w
          /\ mine' = [mine EXCEPT ![c] = w]
          /\ cpc' = [cpc EXCEPT ![c] = "fill"]
          /\ UNCHANGED <<regs, stale>>
    /\ UNCHANGED <<board, drv, activating, pi, privSet, leds, cls, wq, wqueue,
                   carg, calls, req, unregTwice>>

\* INIT_WORK(&priv->works->work, ...), priv->works->cdev = cdev,
\* priv->works->value = led_value.  Each goes through the shared pointer;
\* the build may reload it or keep the one it stored (a data race).
Fill(c) ==
    /\ cpc[c] = "fill"
    /\ \E t \in {mine[c], privWorks} :
          IF t = NULL
          THEN cpc' = [cpc EXCEPT ![c] = "oops"] /\ UNCHANGED works
          ELSE /\ works' = [works EXCEPT ![t] = [@ EXCEPT !.led = carg[c].led,
                                                            !.val = carg[c].val]]
               /\ cpc' = [cpc EXCEPT ![c] = "queue"]
    /\ UNCHANGED <<board, drv, activating, pi, privSet, leds, cls, wq, wqueue,
                   privWorks, regs, carg, mine, calls, req, stale, unregTwice>>

\* queue_work(priv->workqueue, &priv->works->work): false, and nothing
\* done, when that work is already pending.
Queue(c) ==
    /\ cpc[c] = "queue"
    /\ \E t \in {mine[c], privWorks} :
          CASE t = NULL ->
                 cpc' = [cpc EXCEPT ![c] = "oops"] /\ UNCHANGED <<works, wqueue>>
            [] works[t].st = "alloc" ->
                 /\ works' = [works EXCEPT ![t].st = "queued"]
                 /\ wqueue' = Append(wqueue, t)
                 /\ cpc' = [cpc EXCEPT ![c] = "idle"]
            [] OTHER -> cpc' = [cpc EXCEPT ![c] = "idle"] /\ UNCHANGED <<works, wqueue>>
    /\ UNCHANGED <<board, drv, activating, pi, privSet, leds, cls, wq,
                   privWorks, regs, carg, mine, calls, req, stale, unregTwice>>

\* A workqueue that runs the newest pending work first.
RunWorkNewestFirst ==
    /\ wq = "live"
    /\ wqueue # << >>
    /\ LET w == wqueue[Len(wqueue)] IN
       IF works[w].led = 0
       THEN wq' = "oops" /\ UNCHANGED <<works, wqueue, regs, stale>>
       ELSE /\ Apply(works[w].led, works[w].val)
            /\ works' = [works EXCEPT ![w] = FreeWork]
            /\ wqueue' = SubSeq(wqueue, 1, Len(wqueue) - 1)
            /\ UNCHANGED wq
    /\ UNCHANGED <<board, drv, activating, pi, privSet, leds, cls, privWorks,
                   cpc, carg, mine, calls, req, unregTwice>>

\* A dev_led_set_work without its kfree.
RunWorkNoFree ==
    /\ wq = "live"
    /\ wqueue # << >>
    /\ LET w == Head(wqueue) IN
       IF works[w].led = 0
       THEN wq' = "oops" /\ UNCHANGED <<works, wqueue, regs, stale>>
       ELSE /\ Apply(works[w].led, works[w].val)
            /\ UNCHANGED works
            /\ wqueue' = Tail(wqueue)
            /\ UNCHANGED wq
    /\ UNCHANGED <<board, drv, activating, pi, privSet, leds, cls, privWorks,
                   cpc, carg, mine, calls, req, unregTwice>>

\* dev_led_set_work on the single kworker_led thread: the oldest pending
\* work is applied, then kfree'd.  A work queued before it was filled has
\* the NULL cdev of kzalloc, and the kworker dereferences it.
RunWork ==
    /\ wq = "live"
    /\ wqueue # << >>
    /\ LET w == Head(wqueue) IN
       IF works[w].led = 0
       THEN wq' = "oops" /\ UNCHANGED <<works, wqueue, regs, stale>>
       ELSE /\ Apply(works[w].led, works[w].val)
            /\ works' = [works EXCEPT ![w] = FreeWork]
            /\ wqueue' = Tail(wqueue)
            /\ UNCHANGED wq
    /\ UNCHANGED <<board, drv, activating, pi, privSet, leds, cls, privWorks,
                   cpc, carg, mine, calls, req, unregTwice>>

\* The LED core calls brightness_set on a registered LED (a sysfs write or
\* a trigger), in the driver phases where it does so.
CoreSet(c) ==
    /\ cpc[c] = "idle"
    /\ drv \in CoreActive
    /\ calls < MaxCalls
    /\ \E l \in LedIds, v \in Values :
          /\ cls[l] = "reg"
          /\ StartCall(c, l, v)
    /\ calls' = calls + 1
    /\ UNCHANGED <<board, drv, activating, pi, privSet, leds, cls, wq, wqueue,
                   works, privWorks, regs, mine, unregTwice>>

-----------------------------------------------------------------------------
(* The probe/remove context: led_dev_activate, dev_leds_init,              *)
(* led_dev_deactivate.                                                     *)

Unchanged_calls == UNCHANGED <<cpc, carg, req, stale>>
Frozen == UNCHANGED <<board, wqueue, works, privWorks, mine, calls>>

\* led_dev_activate up to dev_leds_init: count the children (none: return
\* 0), check the 'alu,dev' parent, devm_kzalloc priv, of_iomap, read
\* use-workqueue, parse every child, create the workqueue.  Every failure
\* goes to err, whose led_dev_deactivate frees what was set up; nothing is
\* registered yet, so its cleanup only meets never-registered LEDs.
Activate ==
    LET ok == \A k \in LedIds : ChildParses(board.dt[k]) IN
    /\ drv = "absent"
    /\ \/ /\ N = 0
          /\ drv' = "active"
          /\ UNCHANGED <<activating, pi, privSet, leds, wq>>
       \/ /\ N > 0
          /\ \/ ~board.parent
             \/ Fallible
             \/ ~ok
          /\ drv' = "failed"
          /\ UNCHANGED <<activating, pi, privSet, leds, wq>>
       \/ /\ N > 0
          /\ board.parent
          /\ ok
          /\ drv' = "register"
          /\ activating' = TRUE
          /\ pi' = 1
          /\ privSet' = TRUE
          /\ leds' = [k \in LedIds |-> ParseChild(board.dt[k])]
          /\ wq' = "live"
    /\ UNCHANGED <<cls, regs, unregTwice>> /\ Unchanged_calls /\ Frozen

\* One round of the dev_leds_init loop: led_classdev_register, then
\* cdev.brightness_set(cdev, initial brightness).  A failed register goes
\* to fail, which unregisters the LEDs before it.
Register ==
    /\ drv = "register"
    /\ pi <= N
    /\ \/ /\ Fallible
          /\ drv' = "unwind"
          /\ pi' = pi - 1
          /\ Unchanged_calls
          /\ UNCHANGED cls
       \/ /\ cls' = [cls EXCEPT ![pi] = "reg"]
          /\ StartCall(Probe, pi, leds[pi].brightness)
          /\ drv' = "enb"
          /\ UNCHANGED pi
    /\ UNCHANGED <<activating, privSet, leds, wq, regs, unregTwice>> /\ Frozen

\* dev_leds_enb_reg_set, once the initial brightness_set has returned.
InitEnb ==
    LET d == leds[pi] IN
    /\ drv = "enb"
    /\ cpc[Probe] = "idle"
    /\ IF ~d.disabled /\ d.enb_ctrl # 0
       THEN regs' = [regs EXCEPT ![d.enb_offset] = RMW(@, d.enb_mask, d.enb_value)]
       ELSE UNCHANGED regs
    /\ pi' = pi + 1
    /\ drv' = "register"
    /\ UNCHANGED <<activating, privSet, leds, cls, wq, unregTwice>>
    /\ Unchanged_calls /\ Frozen

\* dev_leds_init returns 0 after the last LED; so does led_dev_activate.
Activated ==
    /\ drv = "register"
    /\ pi > N
    /\ drv' = "active"
    /\ activating' = FALSE
    /\ UNCHANGED <<pi, privSet, leds, cls, wq, regs, unregTwice>>
    /\ Unchanged_calls /\ Frozen

\* Where an unregister loop goes next: fail counts down, cleanup up.
NextLed == IF drv \in {"unwind", "unwind_wait"} THEN pi - 1 ELSE pi + 1

\* led_classdev_unregister(&leds[pi].cdev) up to its brightness_set(OFF):
\* on a registered LED it sets the LED off; a never-registered one returns
\* at once; an unregistered one is unregistered again.
UnregBegin ==
    /\ \/ drv = "unwind" /\ pi >= 1
       \/ drv = "cleanup" /\ pi <= N
    /\ \/ /\ cls[pi] = "reg"
          /\ StartCall(Probe, pi, LED_OFF)
          /\ drv' = IF drv = "unwind" THEN "unwind_wait" ELSE "cleanup_wait"
          /\ UNCHANGED <<pi, unregTwice>>
       \/ /\ cls[pi] # "reg"
          /\ unregTwice' = (unregTwice \/ cls[pi] = "unreg")
          /\ pi' = NextLed
          /\ Unchanged_calls
          /\ UNCHANGED drv
    /\ UNCHANGED <<activating, privSet, leds, cls, wq, regs>> /\ Frozen

\* The rest of led_classdev_unregister, once the brightness_set returned.
UnregEnd ==
    /\ drv \in {"unwind_wait", "cleanup_wait"}
    /\ cpc[Probe] = "idle"
    /\ cls' = [cls EXCEPT ![pi] = "unreg"]
    /\ pi' = NextLed
    /\ drv' = IF drv = "unwind_wait" THEN "unwind" ELSE "cleanup"
    /\ UNCHANGED <<activating, privSet, leds, wq, regs, unregTwice>>
    /\ Unchanged_calls /\ Frozen

\* dev_leds_init returns the error; led_dev_activate goes to err.
UnwindDone ==
    /\ drv = "unwind"
    /\ pi = 0
    /\ drv' = "deact"
    /\ UNCHANGED <<activating, pi, privSet, leds, cls, wq, regs, unregTwice>>
    /\ Unchanged_calls /\ Frozen

\* led_dev_remove calls led_dev_deactivate, with LED core calls still in
\* flight only where CoreActive lets them run on.
Remove ==
    /\ drv = "active"
    /\ "deact" \in CoreActive \/ \A c \in Ctxs : cpc[c] = "idle"
    /\ drv' = "deact"
    /\ UNCHANGED <<activating, pi, privSet, leds, cls, wq, regs, unregTwice>>
    /\ Unchanged_calls /\ Frozen

\* What led_dev_deactivate ends in: probe failed, or the device is gone.
Final == IF activating THEN "failed" ELSE "removed"

\* led_dev_deactivate: -ENODEV without drvdata; else destroy_workqueue,
\* which first runs every pending work.
DestroyWorkqueue ==
    /\ drv = "deact"
    /\ \/ ~privSet /\ drv' = Final /\ UNCHANGED wq
       \/ /\ privSet
          /\ wqueue = << >>
          /\ wq' = "destroyed"
          /\ drv' = "drvdata"
    /\ UNCHANGED <<activating, pi, privSet, leds, cls, regs, unregTwice>>
    /\ Unchanged_calls /\ Frozen

\* platform_set_drvdata(pdev, NULL), then dev_leds_cleanup.
ClearDrvdata ==
    /\ drv = "drvdata"
    /\ privSet' = FALSE
    /\ drv' = "cleanup"
    /\ pi' = 1
    /\ UNCHANGED <<activating, leds, cls, wq, regs, unregTwice>>
    /\ Unchanged_calls /\ Frozen

\* After dev_leds_cleanup: iounmap and devm_kfree(priv); return 0.
CleanupDone ==
    /\ drv = "cleanup"
    /\ pi > N
    /\ drv' = Final
    /\ UNCHANGED <<activating, pi, privSet, leds, cls, wq, regs, unregTwice>>
    /\ Unchanged_calls /\ Frozen

\* led_dev_enable / led_dev_disable from the platform code: every LED of
\* the device, when it has drvdata.
SetDisabled(b) ==
    /\ privSet
    /\ \E k \in DOMAIN leds : leds[k].disabled # b
    /\ leds' = [k \in DOMAIN leds |-> [leds[k] EXCEPT !.disabled = b]]
    /\ UNCHANGED <<drv, activating, pi, privSet, cls, wq, regs, unregTwice>>
    /\ Unchanged_calls /\ Frozen

-----------------------------------------------------------------------------
Next ==
    \/ Activate \/ Register \/ InitEnb \/ Activated
    \/ UnregBegin \/ UnregEnd \/ UnwindDone
    \/ Remove \/ DestroyWorkqueue \/ ClearDrvdata \/ CleanupDone
    \/ RunWork
    \/ \E b \in BOOLEAN : SetDisabled(b)
    \/ \E c \in Callers : BrightnessSet(c) \/ Fill(c) \/ Queue(c)
    \/ \E c \in Ctxs : CoreSet(c)

\* The probe/remove context, the callers inside brightness_set and the
\* kworker run when they can; the LED core, the platform code and the
\* driver core's unbind act when they choose.
Fairness ==
    /\ WF_vars(Activate) /\ WF_vars(Register) /\ WF_vars(InitEnb)
    /\ WF_vars(Activated) /\ WF_vars(UnregBegin) /\ WF_vars(UnregEnd)
    /\ WF_vars(UnwindDone) /\ WF_vars(DestroyWorkqueue)
    /\ WF_vars(ClearDrvdata) /\ WF_vars(CleanupDone) /\ WF_vars(RunWork)
    /\ \A c \in Callers : WF_vars(BrightnessSet(c) \/ Fill(c) \/ Queue(c))

Spec == Init /\ [][Next]_vars /\ Fairness

-----------------------------------------------------------------------------
\* No brightness_set in progress and no work pending on kworker_led.
Quiescent == wqueue = << >> /\ \A c \in Callers : cpc[c] = "idle"

(* The LED a caller last set shows it: once the device is up and nothing  *)
(* is in flight, _dev_leds_brightness_get of every registered, enabled    *)
(* LED reads back the level of the latest brightness_set on it, through    *)
(* the work queued by dev_leds_brightness_set or the direct write, the     *)
(* active_low inversion and the read-modify-write of a register the LEDs   *)
(* share, unless that request was dropped (kzalloc) or skipped (disabled). *)
LedsShowLastRequest ==
    (drv = "active" /\ Quiescent) =>
        \A l \in LedIds :
            (cls[l] = "reg" /\ ~leds[l].disabled /\ ~stale[l])
                => BrightnessGet(l) = IF req[l] = LED_OFF THEN LED_OFF ELSE LED_FULL

(* dev_leds_brightness_set and dev_led_set_work never touch freed memory: *)
(* every work on kworker_led's queue is allocated, and a caller between    *)
(* its kzalloc and its queue_work finds both its own dev_work and the one  *)
(* priv->works points at still allocated.                                  *)
WorksLiveWhileUsed ==
    /\ \A i \in 1..Len(wqueue) : works[wqueue[i]].st = "queued"
    /\ \A c \in Callers : cpc[c] \in {"fill", "queue"} =>
          /\ works[mine[c]].st # "free"
          /\ privWorks # NULL /\ works[privWorks].st # "free"

(* Every dev_work queue_work puts on kworker_led is eventually run and     *)
(* kfree'd by dev_led_set_work, also when the device is removed            *)
(* (destroy_workqueue drains it).                                          *)
QueuedWorkFreed ==
    \A w \in WorkIds : works[w].st = "queued" ~> works[w].st = "free"

(* led_dev_deactivate clears drvdata before dev_leds_cleanup, whose        *)
(* led_classdev_unregister sets each LED off through brightness_set; with  *)
(* use-workqueue that is dev_leds_brightness_set, which dereferences       *)
(* platform_get_drvdata(pdev).  No caller may find it NULL, nor a NULL    *)
(* priv->works, and the kworker no work with a NULL cdev.                  *)
NoNullDereference == (\A c \in Callers : cpc[c] # "oops") /\ wq # "oops"

(* Each LED is unregistered at most once: dev_leds_init's fail path and    *)
(* then led_dev_deactivate's dev_leds_cleanup must not both unregister it. *)
UnregisterOnce == ~unregTwice
=============================================================================
