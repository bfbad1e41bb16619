------------------------------- MODULE Gfifo -------------------------------
(***************************************************************************)
(* The blocking FIFO of src/gfifo/gfifo.c (the same read/write/ioctl code  *)
(* is in gfifo_misc.c and gfifo_platform_driver.c).  User processes call   *)
(* read, write, ioctl(MEM_CLEAR) and llseek on their own open file; the    *)
(* calls share dev->mem, dev->cur_len, the mutex and the wait queues       *)
(* r_wait / w_wait.  A call is split at every point where another process  *)
(* can run: waiting for the mutex, and sleeping in schedule() after        *)
(* mutex_unlock.  A region that holds the mutex is one step.               *)
(***************************************************************************)
EXTENDS Integers, Sequences

CONSTANTS
    Procs,        \* user processes, each with its own struct file
    NonBlock,     \* the processes whose file has O_NONBLOCK in f_flags
    Calls,        \* Calls[p]: the file operations process p invokes
    Sizes,        \* the size arguments of read/write
    Offsets,      \* the offset arguments of llseek
    GFIFO_SIZE,   \* capacity of dev->mem (0x1000 in the source)
    MaxByte,      \* bytes written are the tokens 1..MaxByte, cyclically
    MaxSignals,   \* bound on the signals sent to processes in a call
    UserFault,    \* TRUE: copy_to_user/copy_from_user may fail (-EFAULT)
    MemcpyOrders, \* copy orders the build's memcpy may use on overlap
    NoProc        \* the mutex has no owner

VARIABLES
    mutex,        \* owner of dev->mutex
    mem,          \* dev->mem[0..GFIFO_SIZE-1]
    cur_len,      \* dev->cur_len
    r_wait,       \* tasks on dev->r_wait
    w_wait,       \* tasks on dev->w_wait
    task_state,   \* current->state: "running" or "interruptible"
    sig,          \* signal_pending(p)
    pc,           \* where p is in its current call
    count,        \* the local count of the call in progress
    f_pos,        \* filp->f_pos of p's file
    next_byte,    \* last token written (auxiliary: gives bytes identities)
    nsig          \* signals sent so far (bounded by MaxSignals)

vars == <<mutex, mem, cur_len, r_wait, w_wait, task_state, sig, pc, count,
          f_pos, next_byte, nsig>>

Cells == 0..(GFIFO_SIZE - 1)
Byte == 0..MaxByte
PCs == {"idle", "r_lock", "r_loop", "r_sleep", "r_relock",
        "w_lock", "w_loop", "w_sleep", "w_relock", "c_lock"}

\* the program points at which p holds dev->mutex
Locked == {"r_loop", "w_loop"}

Init ==
    /\ mutex = NoProc
    /\ mem = [i \in Cells |-> 0]          \* kzalloc in gfifo_init
    /\ cur_len = 0
    /\ r_wait = {}
    /\ w_wait = {}
    /\ task_state = [p \in Procs |-> "running"]
    /\ sig = [p \in Procs |-> FALSE]
    /\ pc = [p \in Procs |-> "idle"]
    /\ count = [p \in Procs |-> 0]
    /\ f_pos = [p \in Procs |-> 0]
    /\ next_byte = 0
    /\ nsig = 0

(***************************************************************************)
(* Helpers.                                                                *)
(***************************************************************************)
\* wake_up_interruptible(q): every TASK_INTERRUPTIBLE task on q runs again.
WakeUp(q, st) == [x \in Procs |-> IF x \in q /\ st[x] = "interruptible"
                                  THEN "running" ELSE st[x]]

\* memcpy(mem, mem + c, cur_len - c), with source and destination
\* overlapping when c < cur_len - c.  Copying from the lowest address up
\* reads every source byte before it is overwritten; copying from the top
\* down overwrites source bytes still to be read.
RECURSIVE BackwardCell(_, _, _, _)
BackwardCell(m, c, len, i) ==
    IF c > 0 /\ i + c < len - c THEN BackwardCell(m, c, len, i + c) ELSE m[i + c]

MemcpyDown(m, c, len, order) ==
    [i \in Cells |-> IF i < len - c
                     THEN IF order = "forward" THEN m[i + c]
                          ELSE BackwardCell(m, c, len, i)
                     ELSE m[i]]

\* The bytes the caller's buffer holds for a write: fresh tokens.
Token(k) == ((next_byte + k) % MaxByte) + 1

\* out: / out2: of gfifo_read and gfifo_write.  p leaves the wait queue,
\* runs again (the others' states are st) and returns to user space,
\* where a pending signal is handled.
Return(p, st) ==
    /\ pc' = [pc EXCEPT ![p] = "idle"]
    /\ task_state' = [st EXCEPT ![p] = "running"]
    /\ sig' = [sig EXCEPT ![p] = FALSE]

(***************************************************************************)
(* gfifo_read (gfifo.c 58-109).                                            *)
(***************************************************************************)
\* read(fd, buf, size): unsigned int count = size; then mutex_lock waits.
ReadCall(p) ==
    /\ pc[p] = "idle"
    /\ "read" \in Calls[p]
    /\ \E n \in Sizes : count' = [count EXCEPT ![p] = n]
    /\ pc' = [pc EXCEPT ![p] = "r_lock"]
    /\ UNCHANGED <<mutex, mem, cur_len, r_wait, w_wait, task_state, sig,
                   f_pos, next_byte, nsig>>

\* mutex_lock(&dev->mutex); add_wait_queue(&dev->r_wait, &wait).
ReadLock(p) ==
    /\ pc[p] = "r_lock"
    /\ mutex = NoProc
    /\ mutex' = p
    /\ r_wait' = r_wait \cup {p}
    /\ pc' = [pc EXCEPT ![p] = "r_loop"]
    /\ UNCHANGED <<mem, cur_len, w_wait, task_state, sig, count, f_pos,
                   next_byte, nsig>>

\* The loop body and what follows it, each under the mutex:
\* while (cur_len == 0) with O_NONBLOCK: -EAGAIN, goto out.
ReadEagain(p) ==
    /\ pc[p] = "r_loop"
    /\ cur_len = 0
    /\ p \in NonBlock
    /\ mutex' = NoProc
    /\ r_wait' = r_wait \ {p}
    /\ Return(p, task_state)
    /\ UNCHANGED <<mem, cur_len, w_wait, count, f_pos, next_byte, nsig>>

\* __set_current_state(TASK_INTERRUPTIBLE); mutex_unlock; then schedule().
ReadSleep(p) ==
    /\ pc[p] = "r_loop"
    /\ cur_len = 0
    /\ p \notin NonBlock
    /\ task_state' = [task_state EXCEPT ![p] = "interruptible"]
    /\ mutex' = NoProc
    /\ pc' = [pc EXCEPT ![p] = "r_sleep"]
    /\ UNCHANGED <<mem, cur_len, r_wait, w_wait, sig, count, f_pos,
                   next_byte, nsig>>

\* copy_to_user fails: -EFAULT, goto out; nothing consumed.
ReadFault(p) ==
    /\ pc[p] = "r_loop"
    /\ cur_len # 0
    /\ UserFault
    /\ mutex' = NoProc
    /\ r_wait' = r_wait \ {p}
    /\ Return(p, task_state)
    /\ UNCHANGED <<mem, cur_len, w_wait, count, f_pos, next_byte, nsig>>

\* Mutant: the memcpy shift left out.
ReadCopyNoShift(p) ==
    /\ pc[p] = "r_loop"
    /\ cur_len # 0
    /\ LET c == IF count[p] > cur_len THEN cur_len ELSE count[p]
       IN cur_len' = cur_len - c
    /\ UNCHANGED mem
    /\ mutex' = NoProc
    /\ r_wait' = r_wait \ {p}
    /\ Return(p, WakeUp(w_wait, task_state))
    /\ UNCHANGED <<w_wait, count, f_pos, next_byte, nsig>>

\* count = min(count, cur_len); copy_to_user; memcpy shift; cur_len -= count;
\* wake_up_interruptible(&dev->w_wait); then out: and out2:.
ReadCopy(p) ==
    /\ pc[p] = "r_loop"
    /\ cur_len # 0
    /\ LET c == IF count[p] > cur_len THEN cur_len ELSE count[p]
       IN /\ \E order \in MemcpyOrders :
                 mem' = MemcpyDown(mem, c, cur_len, order)
          /\ cur_len' = cur_len - c
    /\ mutex' = NoProc
    /\ r_wait' = r_wait \ {p}
    /\ Return(p, WakeUp(w_wait, task_state))
    /\ UNCHANGED <<w_wait, count, f_pos, next_byte, nsig>>

ReadLoop(p) == ReadEagain(p) \/ ReadSleep(p) \/ ReadFault(p) \/ ReadCopy(p)

\* Mutant: -ERESTARTSYS leaving by out (mutex_unlock of a mutex not held).
ReadScheduleUnlocks(p) ==
    /\ pc[p] = "r_sleep"
    /\ \/ /\ sig[p]
          /\ r_wait' = r_wait \ {p}
          /\ mutex' = NoProc
          /\ Return(p, task_state)
       \/ /\ ~sig[p]
          /\ task_state[p] = "running"
          /\ pc' = [pc EXCEPT ![p] = "r_relock"]
          /\ UNCHANGED <<mutex, r_wait, task_state, sig>>
    /\ UNCHANGED <<mem, cur_len, w_wait, count, f_pos, next_byte, nsig>>

\* schedule() returns once p is running again, at once if a signal is
\* pending; then -ERESTARTSYS without the mutex (out2), or mutex_lock.
ReadSchedule(p) ==
    /\ pc[p] = "r_sleep"
    /\ \/ /\ sig[p]
          /\ r_wait' = r_wait \ {p}
          /\ Return(p, task_state)
       \/ /\ ~sig[p]
          /\ task_state[p] = "running"
          /\ pc' = [pc EXCEPT ![p] = "r_relock"]
          /\ UNCHANGED <<r_wait, task_state, sig>>
    /\ UNCHANGED <<mutex, mem, cur_len, w_wait, count, f_pos, next_byte, nsig>>

\* Mutant: the mutex_lock after schedule() left out.
ReadRelockNoLock(p) ==
    /\ pc[p] = "r_relock"
    /\ pc' = [pc EXCEPT ![p] = "r_loop"]
    /\ UNCHANGED <<mutex, mem, cur_len, r_wait, w_wait, task_state, sig,
                   count, f_pos, next_byte, nsig>>

\* mutex_lock(&dev->mutex) at the end of the loop body.
ReadRelock(p) ==
    /\ pc[p] = "r_relock"
    /\ mutex = NoProc
    /\ mutex' = p
    /\ pc' = [pc EXCEPT ![p] = "r_loop"]
    /\ UNCHANGED <<mem, cur_len, r_wait, w_wait, task_state, sig, count,
                   f_pos, next_byte, nsig>>

(***************************************************************************)
(* gfifo_write (gfifo.c 111-162): the mirror image of gfifo_read.          *)
(***************************************************************************)
WriteCall(p) ==
    /\ pc[p] = "idle"
    /\ "write" \in Calls[p]
    /\ \E n \in Sizes : count' = [count EXCEPT ![p] = n]
    /\ pc' = [pc EXCEPT ![p] = "w_lock"]
    /\ UNCHANGED <<mutex, mem, cur_len, r_wait, w_wait, task_state, sig,
                   f_pos, next_byte, nsig>>

WriteLock(p) ==
    /\ pc[p] = "w_lock"
    /\ mutex = NoProc
    /\ mutex' = p
    /\ w_wait' = w_wait \cup {p}
    /\ pc' = [pc EXCEPT ![p] = "w_loop"]
    /\ UNCHANGED <<mem, cur_len, r_wait, task_state, sig, count, f_pos,
                   next_byte, nsig>>

WriteEagain(p) ==
    /\ pc[p] = "w_loop"
    /\ cur_len = GFIFO_SIZE
    /\ p \in NonBlock
    /\ mutex' = NoProc
    /\ w_wait' = w_wait \ {p}
    /\ Return(p, task_state)
    /\ UNCHANGED <<mem, cur_len, r_wait, count, f_pos, next_byte, nsig>>

WriteSleep(p) ==
    /\ pc[p] = "w_loop"
    /\ cur_len = GFIFO_SIZE
    /\ p \notin NonBlock
    /\ task_state' = [task_state EXCEPT ![p] = "interruptible"]
    /\ mutex' = NoProc
    /\ pc' = [pc EXCEPT ![p] = "w_sleep"]
    /\ UNCHANGED <<mem, cur_len, r_wait, w_wait, sig, count, f_pos,
                   next_byte, nsig>>

WriteFault(p) ==
    /\ pc[p] = "w_loop"
    /\ cur_len # GFIFO_SIZE
    /\ UserFault
    /\ mutex' = NoProc
    /\ w_wait' = w_wait \ {p}
    /\ Return(p, task_state)
    /\ UNCHANGED <<mem, cur_len, r_wait, count, f_pos, next_byte, nsig>>

\* The bytes a write of c bytes leaves in mem.
Appended(c) == [i \in Cells |-> IF cur_len <= i /\ i < cur_len + c
                                THEN Token(i - cur_len) ELSE mem[i]]

\* Mutants: count not clamped to the free room; no wake_up(r_wait).
WriteCopyNoClamp(p) ==
    /\ pc[p] = "w_loop"
    /\ cur_len # GFIFO_SIZE
    /\ mem' = Appended(count[p])
    /\ cur_len' = cur_len + count[p]
    /\ next_byte' = (next_byte + count[p]) % MaxByte
    /\ mutex' = NoProc
    /\ w_wait' = w_wait \ {p}
    /\ Return(p, WakeUp(r_wait, task_state))
    /\ UNCHANGED <<r_wait, count, f_pos, nsig>>

WriteCopyNoWake(p) ==
    /\ pc[p] = "w_loop"
    /\ cur_len # GFIFO_SIZE
    /\ LET c == IF count[p] > GFIFO_SIZE - cur_len
                THEN GFIFO_SIZE - cur_len ELSE count[p]
       IN /\ mem' = Appended(c)
          /\ cur_len' = cur_len + c
          /\ next_byte' = (next_byte + c) % MaxByte
    /\ mutex' = NoProc
    /\ w_wait' = w_wait \ {p}
    /\ Return(p, task_state)
    /\ UNCHANGED <<r_wait, count, f_pos, nsig>>

\* count = min(count, GFIFO_SIZE - cur_len); copy_from_user to
\* mem + cur_len; cur_len += count; wake_up_interruptible(&dev->r_wait).
WriteCopy(p) ==
    /\ pc[p] = "w_loop"
    /\ cur_len # GFIFO_SIZE
    /\ LET c == IF count[p] > GFIFO_SIZE - cur_len
                THEN GFIFO_SIZE - cur_len ELSE count[p]
       IN /\ mem' = Appended(c)
          /\ cur_len' = cur_len + c
          /\ next_byte' = (next_byte + c) % MaxByte
    /\ mutex' = NoProc
    /\ w_wait' = w_wait \ {p}
    /\ Return(p, WakeUp(r_wait, task_state))
    /\ UNCHANGED <<r_wait, count, f_pos, nsig>>

WriteLoop(p) ==
    WriteEagain(p) \/ WriteSleep(p) \/ WriteFault(p) \/ WriteCopy(p)

WriteSchedule(p) ==
    /\ pc[p] = "w_sleep"
    /\ \/ /\ sig[p]
          /\ w_wait' = w_wait \ {p}
          /\ Return(p, task_state)
       \/ /\ ~sig[p]
          /\ task_state[p] = "running"
          /\ pc' = [pc EXCEPT ![p] = "w_relock"]
          /\ UNCHANGED <<w_wait, task_state, sig>>
    /\ UNCHANGED <<mutex, mem, cur_len, r_wait, count, f_pos, next_byte, nsig>>

WriteRelock(p) ==
    /\ pc[p] = "w_relock"
    /\ mutex = NoProc
    /\ mutex' = p
    /\ pc' = [pc EXCEPT ![p] = "w_loop"]
    /\ UNCHANGED <<mem, cur_len, r_wait, w_wait, task_state, sig, count,
                   f_pos, next_byte, nsig>>

(***************************************************************************)
(* gfifo_ioctl (gfifo.c 42-56) and gfifo_llseek (164-198).                 *)
(***************************************************************************)
\* ioctl(fd, MEM_CLEAR): mutex_lock waits.  (Any other cmd is -EINVAL
\* and changes nothing.)
ClearCall(p) ==
    /\ pc[p] = "idle"
    /\ "clear" \in Calls[p]
    /\ pc' = [pc EXCEPT ![p] = "c_lock"]
    /\ UNCHANGED <<mutex, mem, cur_len, r_wait, w_wait, task_state, sig,
                   count, f_pos, next_byte, nsig>>

\* memset(dev->mem, 0, GFIFO_SIZE) under the mutex; cur_len is untouched.
ClearLock(p) ==
    /\ pc[p] = "c_lock"
    /\ mutex = NoProc
    /\ mem' = [i \in Cells |-> 0]
    /\ Return(p, task_state)
    /\ UNCHANGED <<mutex, cur_len, r_wait, w_wait, count, f_pos, next_byte,
                   nsig>>

\* lseek(fd, offset, SEEK_SET / SEEK_CUR): no lock, only filp->f_pos.  The
\* (unsigned int) cast is the identity on the offsets enumerated here.
Llseek(p) ==
    /\ pc[p] = "idle"
    /\ "seek" \in Calls[p]
    /\ \E orig \in {0, 1}, offset \in Offsets :
         \/ /\ orig = 0
            /\ offset >= 0
            /\ offset <= GFIFO_SIZE
            /\ f_pos' = [f_pos EXCEPT ![p] = offset]
         \/ /\ orig = 1
            /\ f_pos[p] + offset <= GFIFO_SIZE
            /\ f_pos[p] + offset >= 0
            /\ f_pos' = [f_pos EXCEPT ![p] = f_pos[p] + offset]
    /\ UNCHANGED <<mutex, mem, cur_len, r_wait, w_wait, task_state, sig, pc,
                   count, next_byte, nsig>>

(***************************************************************************)
(* The environment: a signal sent to a process inside a call.              *)
(***************************************************************************)
Signal(p) ==
    /\ pc[p] # "idle"
    /\ ~sig[p]
    /\ nsig < MaxSignals
    /\ sig' = [sig EXCEPT ![p] = TRUE]
    /\ nsig' = nsig + 1
    /\ UNCHANGED <<mutex, mem, cur_len, r_wait, w_wait, task_state, pc,
                   count, f_pos, next_byte>>

\* The steps of processes that only read, write and seek.
RWNext ==
    \E p \in Procs :
        \/ ReadCall(p) \/ ReadLock(p) \/ ReadLoop(p) \/ ReadSchedule(p)
        \/ ReadRelock(p)
        \/ WriteCall(p) \/ WriteLock(p) \/ WriteLoop(p) \/ WriteSchedule(p)
        \/ WriteRelock(p)
        \/ Llseek(p) \/ Signal(p)

\* ioctl(MEM_CLEAR) empties the FIFO under the mutex and so is no step of
\* the byte queue (gfifo_clear_fifo.cfg); its runs are GfifoMisc's, whose
\* ioctl is the same code.
Next == RWNext \/ \E p \in Procs : ClearCall(p) \/ ClearLock(p)

\* A process inside a call keeps running: the steps it takes on its own are
\* weakly fair.  mutex_lock is strongly fair: a waiter that keeps finding
\* the mutex free gets it (the mutex's hand-off to a starving waiter).
\* (A process is at one point at a time, so fairness of the disjunction is
\* fairness of each of its steps.)
Runs(p) == ReadLoop(p) \/ ReadSchedule(p) \/ WriteLoop(p) \/ WriteSchedule(p)
Locks(p) == ReadLock(p) \/ ReadRelock(p) \/ WriteLock(p) \/ WriteRelock(p)
            \/ ClearLock(p)

Fairness == \A p \in Procs : WF_vars(Runs(p)) /\ SF_vars(Locks(p))

Spec == Init /\ [][Next]_vars /\ Fairness

\* The specification of a device none of whose users issues MEM_CLEAR.
RWSpec == Init /\ [][RWNext]_vars /\ Fairness

(***************************************************************************)
(* Properties.                                                             *)
(***************************************************************************)
TypeOK ==
    /\ mutex \in Procs \cup {NoProc}
    /\ mem \in [Cells -> Byte]
    /\ cur_len \in 0..GFIFO_SIZE
    /\ r_wait \subseteq Procs /\ w_wait \subseteq Procs
    /\ task_state \in [Procs -> {"running", "interruptible"}]
    /\ sig \in [Procs -> BOOLEAN]
    /\ pc \in [Procs -> PCs]
    /\ count \in [Procs -> Sizes \cup {0}]
    /\ f_pos \in [Procs -> 0..GFIFO_SIZE]
    /\ next_byte \in 0..(MaxByte - 1)
    /\ nsig \in 0..MaxSignals

\* No lost wake-up: a reader asleep in schedule() in TASK_INTERRUPTIBLE is
\* still on r_wait and the FIFO is still empty, and a sleeping writer is on
\* w_wait with the FIFO still full.  It rests on gfifo_read/gfifo_write
\* joining the wait queue and setting the task state before mutex_unlock,
\* and on the other side calling wake_up_interruptible after every change
\* of cur_len.
NoLostWakeup ==
    \A p \in Procs :
        /\ (pc[p] = "r_sleep" /\ task_state[p] = "interruptible")
              => (p \in r_wait /\ cur_len = 0)
        /\ (pc[p] = "w_sleep" /\ task_state[p] = "interruptible")
              => (p \in w_wait /\ cur_len = GFIFO_SIZE)

\* Every point of read/write that touches mem and cur_len is reached only
\* with dev->mutex held by that process: no path (-EAGAIN, -ERESTARTSYS,
\* -EFAULT, the copy) releases a mutex it does not hold.
LockedSections == \A p \in Procs : pc[p] \in Locked => mutex = p

\* The bytes waiting in the FIFO, oldest first.
Queued == [i \in 1..cur_len |-> mem[i - 1]]

\* gfifo implements a bounded byte queue: each write appends bytes at the
\* tail, each read removes bytes from the head (the memcpy shift keeps the
\* rest in order), and no other step changes what a reader will get.
Abs == INSTANCE GfifoAbstract WITH Cap <- GFIFO_SIZE, Bytes <- Byte,
                                   fifo <- Queued
FifoSpec == Abs!Spec

ReadPcs == {"r_lock", "r_loop", "r_sleep", "r_relock"}
WritePcs == {"w_lock", "w_loop", "w_sleep", "w_relock"}

\* A process blocked in read() does not stay blocked while there are bytes
\* to read (nor a writer while there is room): the wake-ups of the other
\* side, the loop re-check and mutex_lock get it out, unless others take
\* the bytes (the room) first.
Progress ==
    \A p \in Procs :
        /\ (pc[p] \in ReadPcs /\ cur_len > 0)
              ~> (pc[p] \notin ReadPcs \/ cur_len = 0)
        /\ (pc[p] \in WritePcs /\ cur_len < GFIFO_SIZE)
              ~> (pc[p] \notin WritePcs \/ cur_len = GFIFO_SIZE)

====
