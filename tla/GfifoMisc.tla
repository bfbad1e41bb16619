----------------------------- MODULE GfifoMisc -----------------------------
(***************************************************************************)
(* src/gfifo_misc/gfifo_misc.c: the gfifo device with .poll and .fasync,   *)
(* composed with its user-space clients in src/test_suite:                 *)
(*   - gfifo_signal.c: a process that sets FASYNC and reads the FIFO in    *)
(*     its SIGIO handler (the SigioProcs);                                 *)
(*   - gfifo_poll.c / gfifo_poll_n.c epoll_body: a process that clears the *)
(*     FIFO, adds it to an epoll set with the event mask Events, waits     *)
(*     once with a timeout and removes it again (the Pollers).             *)
(* read, write, ioctl and llseek are those of Gfifo; after the copy,       *)
(* gfifo_misc's read and write also call kill_fasync(SIGIO).               *)
(***************************************************************************)
EXTENDS Gfifo

CONSTANTS
    SigioProcs,   \* processes running gfifo_signal's main and handler
    Pollers,      \* processes running epoll_body
    Events,       \* ev_gfifo.events: a subset of {"in", "out"}
    HandlerSize   \* MAX_LEN - 1, the size the handler reads

VARIABLES
    async,        \* files on dev->async_queue (their owner is the process)
    sigio,        \* a SIGIO is pending for the process
    handler,      \* the process is inside input_handler
    epc,          \* where a poller is in epoll_body
    rdl           \* the poller's epitem is on the epoll ready list

misc == <<async, sigio, handler, epc, rdl>>
allvars == <<vars, misc>>

EPCs == {"none", "start", "cleared", "added", "sleep", "woken", "ready",
         "timeout", "done"}

MiscInit ==
    /\ Init
    /\ async = {}
    /\ sigio = [p \in Procs |-> FALSE]
    /\ handler = [p \in Procs |-> FALSE]
    /\ epc = [p \in Procs |-> IF p \in Pollers THEN "start" ELSE "none"]
    /\ rdl = [p \in Procs |-> FALSE]

\* gfifo_poll: the mask under the mutex.
PollMask == (IF cur_len # 0 THEN {"in"} ELSE {})
            \cup (IF cur_len # GFIFO_SIZE THEN {"out"} ELSE {})

\* kill_fasync(&dev->async_queue, SIGIO, band) when the queue is not empty:
\* SIGIO to the owner of every file on it.
KillFasync == sigio' = [q \in Procs |-> sigio[q] \/ q \in async]

\* The wake_up_interruptible of q also runs ep_poll_callback for every
\* epitem on q (the key is 0, so no event filter): the item goes on the
\* ready list.  (Waking the poller's task is WakeUp's part.)
PollCallback(q) == rdl' = [x \in Procs |-> rdl[x] \/ x \in q]

(***************************************************************************)
(* Device steps.  The copies of read and write add kill_fasync (gfifo_misc *)
(* .c 94-97, 145-148); every other step of Gfifo leaves the new state.     *)
(***************************************************************************)
MiscReadCopy(p) ==
    /\ ReadCopy(p)
    /\ KillFasync
    /\ PollCallback(w_wait)
    /\ UNCHANGED <<async, handler, epc>>

MiscWriteCopy(p) ==
    /\ WriteCopy(p)
    /\ KillFasync
    /\ PollCallback(r_wait)
    /\ UNCHANGED <<async, handler, epc>>

\* The steps a process takes inside a call, the same in gfifo.c.
InCall(p) ==
    \/ ReadLock(p) \/ ReadEagain(p) \/ ReadSleep(p) \/ ReadFault(p)
    \/ ReadSchedule(p) \/ ReadRelock(p)
    \/ WriteLock(p) \/ WriteEagain(p) \/ WriteSleep(p) \/ WriteFault(p)
    \/ WriteSchedule(p) \/ WriteRelock(p)
    \/ ClearLock(p)

\* Calls of the plain processes (a writer such as echo > /dev/gfifo).
PlainCall(p) ==
    /\ p \notin SigioProcs \cup Pollers
    /\ ReadCall(p) \/ WriteCall(p) \/ ClearCall(p) \/ Llseek(p)

(***************************************************************************)
(* gfifo_signal.c.                                                         *)
(***************************************************************************)
\* main: signal(SIGIO, input_handler); F_SETOWN; F_SETFL |= FASYNC, which
\* calls gfifo_fasync -> fasync_helper and puts the file on async_queue.
Setup(p) ==
    /\ p \in SigioProcs
    /\ p \notin async
    /\ async' = async \cup {p}
    /\ UNCHANGED <<vars, sigio, handler, epc, rdl>>

\* A pending SIGIO interrupts the main loop's sleep(30): input_handler runs,
\* with SIGIO blocked, and calls read(fd, buf, MAX_LEN - 1) on the blocking
\* descriptor.
HandlerEnter(p) ==
    /\ p \in SigioProcs
    /\ pc[p] = "idle"
    /\ ~handler[p]
    /\ sigio[p]
    /\ handler' = [handler EXCEPT ![p] = TRUE]
    /\ sigio' = [sigio EXCEPT ![p] = FALSE]
    /\ count' = [count EXCEPT ![p] = HandlerSize]
    /\ pc' = [pc EXCEPT ![p] = "r_lock"]
    /\ UNCHANGED <<mutex, mem, cur_len, r_wait, w_wait, task_state, sig,
                   f_pos, next_byte, nsig, async, epc, rdl>>

\* read returned: buf[len] = '\0', printf, and the handler returns to the
\* main loop (SIGIO unblocked again).
HandlerExit(p) ==
    /\ handler[p]
    /\ pc[p] = "idle"
    /\ handler' = [handler EXCEPT ![p] = FALSE]
    /\ UNCHANGED <<vars, async, sigio, epc, rdl>>

(***************************************************************************)
(* epoll_body of gfifo_poll.c / gfifo_poll_n.c, over gfifo_poll.          *)
(***************************************************************************)
\* ioctl(fd, FIFO_CLEAR, ...) before the descriptor is added.
EpollClear(p) ==
    /\ epc[p] = "start"
    /\ ClearCall(p)
    /\ epc' = [epc EXCEPT ![p] = "cleared"]
    /\ UNCHANGED <<async, sigio, handler, rdl>>

\* Mutant: the item is not polled when it is added.
EpollAddNoPoll(p) ==
    /\ epc[p] = "cleared"
    /\ pc[p] = "idle"
    /\ mutex = NoProc
    /\ r_wait' = r_wait \cup {p}
    /\ w_wait' = w_wait \cup {p}
    /\ rdl' = [rdl EXCEPT ![p] = FALSE]
    /\ epc' = [epc EXCEPT ![p] = "added"]
    /\ UNCHANGED <<mutex, mem, cur_len, task_state, sig, pc, count, f_pos,
                   next_byte, nsig, async, sigio, handler>>

\* epoll_ctl(EPOLL_CTL_ADD): gfifo_poll under the mutex puts an entry on
\* r_wait and w_wait (poll_wait); the item is ready if mask & events.
EpollAdd(p) ==
    /\ epc[p] = "cleared"
    /\ pc[p] = "idle"
    /\ mutex = NoProc
    /\ r_wait' = r_wait \cup {p}
    /\ w_wait' = w_wait \cup {p}
    /\ rdl' = [rdl EXCEPT ![p] = PollMask \cap Events # {}]
    /\ epc' = [epc EXCEPT ![p] = "added"]
    /\ UNCHANGED <<mutex, mem, cur_len, task_state, sig, pc, count, f_pos,
                   next_byte, nsig, async, sigio, handler>>

\* epoll_wait, one pass: an item on the ready list is polled again (the
\* mutex again) and reported if mask & events; otherwise the task sets
\* TASK_INTERRUPTIBLE, with the ready list checked under ep->lock.
EpollWait(p) ==
    /\ epc[p] \in {"added", "woken"}
    /\ \/ /\ rdl[p]
          /\ mutex = NoProc
          /\ PollMask \cap Events # {}
          /\ epc' = [epc EXCEPT ![p] = "ready"]
          /\ UNCHANGED task_state
       \/ /\ rdl[p]
          /\ mutex = NoProc
          /\ PollMask \cap Events = {}
          /\ task_state' = [task_state EXCEPT ![p] = "interruptible"]
          /\ epc' = [epc EXCEPT ![p] = "sleep"]
       \/ /\ ~rdl[p]
          /\ task_state' = [task_state EXCEPT ![p] = "interruptible"]
          /\ epc' = [epc EXCEPT ![p] = "sleep"]
    /\ rdl' = [rdl EXCEPT ![p] = FALSE]
    /\ UNCHANGED <<mutex, mem, cur_len, r_wait, w_wait, sig, pc, count,
                   f_pos, next_byte, nsig, async, sigio, handler>>

\* woken by ep_poll_callback: back to the check.
EpollWake(p) ==
    /\ epc[p] = "sleep"
    /\ task_state[p] = "running"
    /\ epc' = [epc EXCEPT ![p] = "woken"]
    /\ UNCHANGED <<vars, async, sigio, handler, rdl>>

\* the 15 s timeout expires first: epoll_wait returns 0, "NO data input".
EpollTimeout(p) ==
    /\ epc[p] = "sleep"
    /\ task_state[p] = "interruptible"
    /\ task_state' = [task_state EXCEPT ![p] = "running"]
    /\ epc' = [epc EXCEPT ![p] = "timeout"]
    /\ UNCHANGED <<mutex, mem, cur_len, r_wait, w_wait, sig, pc, count,
                   f_pos, next_byte, nsig, async, sigio, handler, rdl>>

\* epoll_ctl(EPOLL_CTL_DEL) removes the wait entries.
EpollDel(p) ==
    /\ epc[p] \in {"ready", "timeout"}
    /\ r_wait' = r_wait \ {p}
    /\ w_wait' = w_wait \ {p}
    /\ epc' = [epc EXCEPT ![p] = "done"]
    /\ rdl' = [rdl EXCEPT ![p] = FALSE]
    /\ UNCHANGED <<mutex, mem, cur_len, task_state, sig, pc, count, f_pos,
                   next_byte, nsig, async, sigio, handler>>

Clients(p) ==
    \/ Setup(p) \/ HandlerEnter(p) \/ HandlerExit(p)
    \/ EpollClear(p) \/ EpollAdd(p) \/ EpollWait(p) \/ EpollWake(p)
    \/ EpollTimeout(p) \/ EpollDel(p)

MiscNext ==
    \E p \in Procs :
        \/ (PlainCall(p) \/ InCall(p) \/ Signal(p)) /\ UNCHANGED misc
        \/ MiscReadCopy(p) \/ MiscWriteCopy(p)
        \/ Clients(p)

\* The process's own steps are weakly fair (the kernel delivers a pending,
\* unblocked signal; the epoll timer fires); mutex_lock is strongly fair as
\* in Gfifo.  The calls of the plain processes are not.
MiscRuns(p) ==
    \/ /\ \/ ReadEagain(p) \/ ReadSleep(p) \/ ReadFault(p) \/ ReadSchedule(p)
          \/ WriteEagain(p) \/ WriteSleep(p) \/ WriteFault(p) \/ WriteSchedule(p)
       /\ UNCHANGED misc
    \/ MiscReadCopy(p) \/ MiscWriteCopy(p)
    \/ Clients(p)

MiscSpec ==
    /\ MiscInit /\ [][MiscNext]_allvars
    /\ \A p \in Procs : WF_allvars(MiscRuns(p))
                      /\ SF_allvars(Locks(p) /\ UNCHANGED misc)

(***************************************************************************)
(* Properties.                                                             *)
(***************************************************************************)
\* epoll_body prints "NO data input in FIFO within 15 seconds" only when
\* the FIFO is empty: an epoll_wait that times out never leaves queued
\* bytes unreported.  It rests on ep_insert polling the FIFO once, on every
\* wake_up of r_wait/w_wait putting the item on the ready list, and on
\* the event mask the client passes.
EpollSeesData ==
    [][\A p \in Pollers : EpollTimeout(p) => cur_len = 0]_allvars

\* input_handler returns to gfifo_signal's main loop: the read it makes on
\* each SIGIO finds bytes to read and does not block.
HandlerReturns == \A p \in SigioProcs : handler[p] ~> ~handler[p]

====
