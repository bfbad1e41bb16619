------------------------------ MODULE Watchdog ------------------------------
(***************************************************************************)
(* src/watchdog/watchdog.c: the kick timer of the device watchdog.         *)
(*                                                                         *)
(* Three kinds of actor share the driver's static `priv`:                  *)
(*   - the Users, each a process in dev_watchdog_write (one command byte); *)
(*   - the timer softirq running dev_watchdog_timeout, which kicks (or     *)
(*     queues the work) and re-arms itself through dev_watchdog_start;     *)
(*   - the single-threaded workqueue running dev_watchdog_work.            *)
(* Nothing serialises them: there is no lock in the driver.                *)
(*                                                                         *)
(* timer_running and wd_state are bit-fields of one storage unit, so a     *)
(* store to either is a load of the unit, an insert and a store of the     *)
(* whole unit.  `word` is that unit; an actor between its load and its     *)
(* store holds the value it will store (ul, tl).  The register accesses of *)
(* generic_access are spinlocked and so atomic steps.                      *)
(***************************************************************************)
EXTENDS Integers

CONSTANTS
    Users,          \* processes writing commands to /dev/watchdog
    Cmds,           \* Cmds[u]: the command bytes user u may write
    UseWorkqueue,   \* the "use-workqueue" device-tree property is present
    HasEnable,      \* reg-enable-offset and reg-enable-value are present
    Gici            \* the enable register really latches (a GICI attached)

States == {"unknown", "disabled", "enabled"}
Words == [tr : {0, 1}, ws : States]

VARIABLES
    word,      \* the bit-field unit: timer_running and wd_state
    armed,     \* priv.timer is pending
    tpc,       \* where the timer softirq is in dev_watchdog_timeout
    tl,        \* the unit the timer handler will store
    queued,    \* priv.work is queued on the workqueue
    kicked,    \* the watchdog was kicked within the current hardware window
    hw_en,     \* the enable bits of the enable register
    upc,       \* where each user is in dev_watchdog_write
    ul,        \* the unit each user will store
    started,   \* history: the last completed start/stop command was 'S'
    fd,        \* each user's file: "closed", or open with private_data set
               \* ("open") or cleared by a read ("eof")
    rpc,       \* where the driver core is in dev_watchdog_remove
    rl         \* the unit dev_watchdog_remove's stop will store

remv == <<fd, rpc, rl>>
vars == <<word, armed, tpc, tl, queued, kicked, hw_en, upc, ul, started, remv>>

UPCs == {"idle", "s_store", "s_mod", "q_store", "q_del", "e_store"}

\* The value dev_watchdog_read_enable / dev_watchdog_enable read back.
StateOf(en) == IF en THEN "enabled" ELSE "disabled"

\* dev_watchdog_init zeroes priv and sets up the timer; probe reads the
\* initial enable state.  The register may be set or not by then.
Init ==
    /\ hw_en \in BOOLEAN
    /\ word = [tr |-> 0, ws |-> IF HasEnable THEN StateOf(hw_en) ELSE "unknown"]
    /\ armed = FALSE
    /\ tpc = "idle"
    /\ tl = word
    /\ queued = FALSE
    /\ kicked = FALSE
    /\ upc = [u \in Users |-> "idle"]
    /\ ul = [u \in Users |-> word]
    /\ started = FALSE
    /\ fd = [u \in Users |-> "closed"]
    /\ rpc = "probed"
    /\ rl = word

\* dev_watchdog_kick: one spinlocked register write.
Kick == kicked' = TRUE

(***************************************************************************)
(* dev_watchdog_write, per command.                                        *)
(***************************************************************************)
\* 'K': dev_watchdog_kick().
CmdKick(u) ==
    /\ upc[u] = "idle"
    /\ "K" \in Cmds[u]
    /\ Kick
    /\ UNCHANGED <<remv, word, armed, tpc, tl, queued, hw_en, upc, ul, started>>

\* Mutant: timer_running declared as a signed 1-bit field, where the
\* stored 1 reads back as -1.
CmdStartSigned1(u) ==
    /\ upc[u] = "idle"
    /\ "S" \in Cmds[u]
    /\ ul' = [ul EXCEPT ![u] = [word EXCEPT !.tr = -1]]
    /\ upc' = [upc EXCEPT ![u] = "s_store"]
    /\ UNCHANGED <<remv, word, armed, tpc, tl, queued, kicked, hw_en, started>>

\* 'S': dev_watchdog_start(); timer_running = 1 loads the unit ...
CmdStart(u) ==
    /\ upc[u] = "idle"
    /\ "S" \in Cmds[u]
    /\ ul' = [ul EXCEPT ![u] = [word EXCEPT !.tr = 1]]
    /\ upc' = [upc EXCEPT ![u] = "s_store"]
    /\ UNCHANGED <<remv, word, armed, tpc, tl, queued, kicked, hw_en, started>>

\* ... and stores it; then mod_timer arms the timer.
StartStore(u) ==
    /\ upc[u] = "s_store"
    /\ word' = ul[u]
    /\ upc' = [upc EXCEPT ![u] = "s_mod"]
    /\ UNCHANGED <<remv, armed, tpc, tl, queued, kicked, hw_en, ul, started>>

StartModTimer(u) ==
    /\ upc[u] = "s_mod"
    /\ armed' = TRUE
    /\ upc' = [upc EXCEPT ![u] = "idle"]
    /\ started' = TRUE
    /\ UNCHANGED <<remv, word, tpc, tl, queued, kicked, hw_en, ul>>

\* 'Q': dev_watchdog_stop(); timer_running = 0 loads the unit ...
CmdStop(u) ==
    /\ upc[u] = "idle"
    /\ "Q" \in Cmds[u]
    /\ ul' = [ul EXCEPT ![u] = [word EXCEPT !.tr = 0]]
    /\ upc' = [upc EXCEPT ![u] = "q_store"]
    /\ UNCHANGED <<remv, word, armed, tpc, tl, queued, kicked, hw_en, started>>

StopStore(u) ==
    /\ upc[u] = "q_store"
    /\ word' = ul[u]
    /\ upc' = [upc EXCEPT ![u] = "q_del"]
    /\ UNCHANGED <<remv, armed, tpc, tl, queued, kicked, hw_en, ul, started>>

\* del_timer_sync: waits until the handler is not running, then removes
\* the timer if it is pending.  The work already queued is not flushed.
StopDel(u) ==
    /\ upc[u] = "q_del"
    /\ tpc = "idle"
    /\ armed' = FALSE
    /\ upc' = [upc EXCEPT ![u] = "idle"]
    /\ started' = FALSE
    /\ UNCHANGED <<remv, word, tpc, tl, queued, kicked, hw_en, ul>>

\* 'E' / 'D': dev_watchdog_enable(1 / 0).  With both enable properties:
\* the read-modify-write of the register, the read-back, and the load of
\* the unit for wd_state = ...  Without them, nothing but a debug print.
CmdEnable(u) ==
    /\ upc[u] = "idle"
    /\ \E c \in Cmds[u] \cap {"E", "D"} :
          IF HasEnable
          THEN LET en == IF Gici THEN c = "E" ELSE hw_en IN
               /\ hw_en' = en
               /\ ul' = [ul EXCEPT ![u] = [word EXCEPT !.ws = StateOf(en)]]
               /\ upc' = [upc EXCEPT ![u] = "e_store"]
          ELSE UNCHANGED <<remv, hw_en, ul, upc>>
    /\ UNCHANGED <<remv, word, armed, tpc, tl, queued, kicked, started>>

EnableStore(u) ==
    /\ upc[u] = "e_store"
    /\ word' = ul[u]
    /\ upc' = [upc EXCEPT ![u] = "idle"]
    /\ UNCHANGED <<remv, armed, tpc, tl, queued, kicked, hw_en, ul, started>>

(***************************************************************************)
(* The timer softirq: dev_watchdog_timeout.                                *)
(***************************************************************************)
\* Mutant: the expiry kicks neither directly nor through the work.
TimerFireNoKick ==
    /\ armed
    /\ tpc = "idle"
    /\ armed' = FALSE
    /\ IF word.tr = 0
       THEN UNCHANGED <<remv, tpc, tl>>
       ELSE /\ tl' = [word EXCEPT !.tr = 1]
            /\ tpc' = "t_store"
    /\ UNCHANGED <<remv, word, queued, kicked, hw_en, upc, ul, started>>

\* The timer expires and the handler runs (never twice at once).  If
\* timer_running is 0 it returns; otherwise it queues the work or kicks,
\* and dev_watchdog_start loads the unit for timer_running = 1.
TimerFire ==
    /\ armed
    /\ tpc = "idle"
    /\ armed' = FALSE
    /\ IF word.tr = 0
       THEN UNCHANGED <<remv, tpc, tl, queued, kicked>>
       ELSE /\ IF UseWorkqueue
               THEN queued' = TRUE /\ UNCHANGED kicked
               ELSE Kick /\ UNCHANGED queued
            /\ tl' = [word EXCEPT !.tr = 1]
            /\ tpc' = "t_store"
    /\ UNCHANGED <<remv, word, hw_en, upc, ul, started>>

\* dev_watchdog_start: the store of the unit ...
TimerStore ==
    /\ tpc = "t_store"
    /\ word' = tl
    /\ tpc' = "t_mod"
    /\ UNCHANGED <<remv, armed, tl, queued, kicked, hw_en, upc, ul, started>>

\* ... and mod_timer; the handler returns.
TimerModTimer ==
    /\ tpc = "t_mod"
    /\ armed' = TRUE
    /\ tpc' = "idle"
    /\ UNCHANGED <<remv, word, tl, queued, kicked, hw_en, upc, ul, started>>

\* The kworker runs dev_watchdog_work.
Work ==
    /\ queued
    /\ queued' = FALSE
    /\ Kick
    /\ UNCHANGED <<remv, word, armed, tpc, tl, hw_en, upc, ul, started>>

\* The hardware's kick interval passes: a new window begins.
Expire ==
    /\ kicked
    /\ kicked' = FALSE
    /\ UNCHANGED <<remv, word, armed, tpc, tl, queued, hw_en, upc, ul, started>>

(***************************************************************************)
(* The file and the driver core.                                           *)
(***************************************************************************)
\* dev_watchdog_open sets private_data.  The misc device is registered
\* until remove deregisters it; an open racing remove is outside the model
\* (see RemoveBegin).
Open(u) ==
    /\ fd[u] = "closed"
    /\ rpc = "probed"
    /\ fd' = [fd EXCEPT ![u] = "open"]
    /\ UNCHANGED <<word, armed, tpc, tl, queued, kicked, hw_en, upc, ul,
                   started, rpc, rl>>

\* dev_watchdog_read: the first read after open clears private_data and
\* returns the state; later reads return EOF and change nothing.
Read(u) ==
    /\ fd[u] = "open"
    /\ fd' = [fd EXCEPT ![u] = "eof"]
    /\ UNCHANGED <<word, armed, tpc, tl, queued, kicked, hw_en, upc, ul,
                   started, rpc, rl>>

\* dev_watchdog_release, once no write of this file is under way.
Release(u) ==
    /\ fd[u] # "closed"
    /\ upc[u] = "idle"
    /\ fd' = [fd EXCEPT ![u] = "closed"]
    /\ UNCHANGED <<word, armed, tpc, tl, queued, kicked, hw_en, upc, ul,
                   started, rpc, rl>>

\* dev_watchdog_remove, called by the driver core once the last file is
\* closed and no open races it (the unbind after the daemon has exited).
\* Its dev_watchdog_stop loads the unit for timer_running = 0 ...
RemoveBegin ==
    /\ rpc = "probed"
    /\ \A u \in Users : fd[u] = "closed"
    /\ rl' = [word EXCEPT !.tr = 0]
    /\ rpc' = "r_store"
    /\ UNCHANGED <<word, armed, tpc, tl, queued, kicked, hw_en, upc, ul,
                   started, fd>>

\* ... stores it ...
RemoveStore ==
    /\ rpc = "r_store"
    /\ word' = rl
    /\ rpc' = "r_del"
    /\ UNCHANGED <<armed, tpc, tl, queued, kicked, hw_en, upc, ul, started,
                   fd, rl>>

\* Mutant: the stop of remove uses del_timer, not del_timer_sync.
RemoveDelNoSync ==
    /\ rpc = "r_del"
    /\ armed' = FALSE
    /\ started' = FALSE
    /\ rpc' = "r_destroy"
    /\ UNCHANGED <<word, tpc, tl, queued, kicked, hw_en, upc, ul, fd, rl>>

\* ... and del_timer_sync waits for a running handler, then deletes the
\* timer.
RemoveDel ==
    /\ rpc = "r_del"
    /\ tpc = "idle"
    /\ armed' = FALSE
    /\ started' = FALSE
    /\ rpc' = "r_destroy"
    /\ UNCHANGED <<word, tpc, tl, queued, kicked, hw_en, upc, ul, fd, rl>>

\* destroy_workqueue drains the queued work (the kworker runs it first);
\* then misc_deregister and iounmap, after which a register access would
\* be through the NULL reg_base.
RemoveDestroy ==
    /\ rpc = "r_destroy"
    /\ UseWorkqueue => ~queued
    /\ rpc' = "removed"
    /\ UNCHANGED <<word, armed, tpc, tl, queued, kicked, hw_en, upc, ul,
                   started, fd, rl>>

Remove == RemoveBegin \/ RemoveStore \/ RemoveDel \/ RemoveDestroy

Call(u) ==
    /\ fd[u] # "closed"
    /\ CmdKick(u) \/ CmdStart(u) \/ CmdStop(u) \/ CmdEnable(u)
InCmd(u) == StartStore(u) \/ StartModTimer(u) \/ StopStore(u) \/ StopDel(u)
            \/ EnableStore(u)
Timer == TimerFire \/ TimerStore \/ TimerModTimer

Next ==
    \/ \E u \in Users : Call(u) \/ InCmd(u) \/ Open(u) \/ Read(u) \/ Release(u)
    \/ Timer \/ Work \/ Expire \/ Remove

\* A command under way completes, the timer fires when it expires, and the
\* kworker runs queued work, and a remove under way completes: each is
\* weakly fair.  Users need not open, write or close, the driver need not
\* be removed, and the hardware window need not pass.
Spec ==
    /\ Init /\ [][Next]_vars
    /\ \A u \in Users : WF_vars(InCmd(u))
    /\ WF_vars(Timer) /\ WF_vars(Work)
    /\ WF_vars(RemoveStore \/ RemoveDel \/ RemoveDestroy)

(***************************************************************************)
(* Properties.                                                             *)
(***************************************************************************)
TypeOK ==
    /\ word \in Words /\ tl \in Words /\ ul \in [Users -> Words]
    /\ armed \in BOOLEAN /\ queued \in BOOLEAN /\ kicked \in BOOLEAN
    /\ hw_en \in BOOLEAN /\ started \in BOOLEAN
    /\ tpc \in {"idle", "t_store", "t_mod"}
    /\ upc \in [Users -> UPCs]
    /\ fd \in [Users -> {"closed", "open", "eof"}] /\ rl \in Words
    /\ rpc \in {"probed", "r_store", "r_del", "r_destroy", "removed"}

\* No command, and not the stop of dev_watchdog_remove, is under way.
Quiet == (\A u \in Users : upc[u] = "idle") /\ rpc \notin {"r_store", "r_del"}

\* After 'S' has returned, and until a 'Q' returns, the kick timer stays
\* alive: it is pending or its handler is running (and will re-arm it).
\* It needs the handler to re-arm through dev_watchdog_start and the stop
\* of one command not to undo the start of another.
TimerAliveWhileStarted ==
    (Quiet /\ started) => (armed \/ tpc # "idle")

\* While the kick timer is started, the watchdog is kicked in every
\* hardware window: through dev_watchdog_kick or the queued work.
KickedWhileStarted == (started /\ ~kicked) ~> (kicked \/ ~started)

\* Once dev_watchdog_remove has returned, nothing of the driver runs: no
\* timer is pending, no handler is running and no work is queued, so
\* nothing will access the unmapped registers.  It needs remove's stop to
\* outlast a handler that re-arms the timer, and destroy_workqueue to
\* drain the work that handler queued.
QuietAfterRemove ==
    rpc = "removed" => (~armed /\ tpc = "idle" /\ ~queued)

\* dev_watchdog_read prints "t=%d s=%c" from timer_running and wd_state.
\* When no command and no handler is running, t=1 exactly when the kick
\* timer is pending, and, with the enable properties, s is the state of
\* the enable register.
ReadReportsState ==
    (Quiet /\ tpc = "idle")
        => /\ word.tr = 1 <=> armed
           /\ HasEnable => word.ws = StateOf(hw_en)

====
