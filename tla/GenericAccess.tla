---------------------------- MODULE GenericAccess ----------------------------
(***************************************************************************)
(* generic_access.c: masked register writes and reads under a lock that    *)
(* is a spinlock or a mutex according to ga_lock_mode.  The LOCK macro     *)
(* reads ga_lock_mode to choose the lock, and UNLOCK reads it again.  A    *)
(* read-modify-write reads the register, merges the bits of the mask and   *)
(* writes the result back; on a build without CONFIG_64BIT a 64-bit access *)
(* is two 32-bit accesses, each under its own lock section.                *)
(*                                                                         *)
(* Widths are scaled: a 32-bit word has W bits.  The register at addr and  *)
(* addr + 4 is one number reg of 2W bits, the word at addr being the low   *)
(* half (__LITTLE_ENDIAN).                                                 *)
(***************************************************************************)
EXTENDS Integers, Sequences, Bitwise

CONSTANTS
    Procs,          \* callers of ga_reg_write*/ga_reg_read*
    NoProc,
    W,              \* bits of a "32-bit" word
    CONFIG_64BIT,   \* the build has native 64-bit accesses
    InitRegs,       \* values of the register when the accesses begin
    Calls,          \* Calls[p]: the calls p may make
    Setters,        \* processes calling ga_set_lock_mode
    InitModes       \* values of ga_lock_mode when the accesses begin

VARIABLES
    reg,            \* the hardware register, 2W bits
    ga_lock_mode,
    spin,           \* ga_spinlock: its holder or NoProc
    mutex,          \* ga_mutex: its holder or NoProc
    pc,
    call,           \* the call under way
    part,           \* which 32-bit half of a split access is under way
    lm,             \* the lock mode LOCK read
    nreg,           \* new_reg, computed and not yet written
    rcs,            \* the return codes of the halves done
    rvs,            \* the values read by the halves done
    ret             \* what p's last call returned

vars == <<reg, ga_lock_mode, spin, mutex, pc, call, part, lm, nreg, rcs, rvs,
          ret>>

GA_WRITE == 1
GA_READ_WRITE_CONDITIONAL == 2
GA_READ_WRITE_ALWAYS == 4
Modes == {"GA_LM_SPINLOCK", "GA_LM_MUTEX"}
Codes == {"NONE", "SURE", "MAYBE"}

Word == 2^W
Full(width) == 2^width - 1
NoCall == [op |-> "none"]

\* Bits sh .. sh + wd - 1 of x, and x with those bits replaced by v.
Field(x, sh, wd) == (x \div 2^sh) % 2^wd
SetField(x, sh, wd, v) == x + (v - Field(x, sh, wd)) * 2^sh

\* The accesses a call makes: one access of the whole width, or on a
\* 32-bit build a 64-bit call as the low then the high word (lines
\* 183-184 and 249-250).  Each is [sh, wd, mask, value].
Parts(c) ==
    IF c.size = 32
    THEN << [sh |-> c.word * W, wd |-> W, mask |-> c.mask, value |-> c.value] >>
    ELSE IF CONFIG_64BIT
    THEN << [sh |-> 0, wd |-> 2 * W, mask |-> c.mask, value |-> c.value] >>
    ELSE << [sh |-> 0, wd |-> W, mask |-> c.mask % Word, value |-> c.value % Word],
            [sh |-> W, wd |-> W, mask |-> c.mask \div Word,
             value |-> c.value \div Word] >>

Cur(p) == Parts(call[p])[part[p]]

\* new_reg &= ~mask; new_reg |= (value & mask)
NewReg(old, mask, value) == (old - (old & mask)) | (value & mask)

\* The hardware register holds some value when the accesses begin.
Init ==
    /\ reg \in InitRegs
    /\ ga_lock_mode \in InitModes
    /\ spin = NoProc /\ mutex = NoProc
    /\ pc = [p \in Procs |-> "idle"]
    /\ call = [p \in Procs |-> NoCall]
    /\ part = [p \in Procs |-> 1]
    /\ lm = [p \in Procs |-> "GA_LM_SPINLOCK"]
    /\ nreg = [p \in Procs |-> 0]
    /\ rcs = [p \in Procs |-> <<>>]
    /\ rvs = [p \in Procs |-> <<>>]
    /\ ret = [p \in Procs |-> "none"]

(***************************************************************************)
(* ga_reg_writeX / ga_reg_readX (and ga_reg_write/ga_reg_read, which only  *)
(* dispatch on the size).                                                  *)
(***************************************************************************)
Call(p) ==
    /\ pc[p] = "idle"
    /\ \E c \in Calls[p] :
         /\ call' = [call EXCEPT ![p] = c]
         /\ part' = [part EXCEPT ![p] = 1]
         /\ rcs' = [rcs EXCEPT ![p] = <<>>]
         /\ rvs' = [rvs EXCEPT ![p] = <<>>]
    /\ pc' = [pc EXCEPT ![p] = "lock"]
    /\ UNCHANGED <<reg, ga_lock_mode, spin, mutex, lm, nreg, ret>>

\* LOCK: if (ga_lock_mode == GA_LM_SPINLOCK) ...
LockMode(p) ==
    /\ pc[p] = "lock"
    /\ lm' = [lm EXCEPT ![p] = ga_lock_mode]
    /\ pc' = [pc EXCEPT ![p] = "acquire"]
    /\ UNCHANGED <<reg, ga_lock_mode, spin, mutex, call, part, nreg, rcs, rvs,
                   ret>>

\* Mutant: LOCK does not wait for the lock.
AcquireNoWait(p) ==
    /\ pc[p] = "acquire"
    /\ IF lm[p] = "GA_LM_SPINLOCK"
       THEN spin' = p /\ UNCHANGED mutex
       ELSE mutex' = p /\ UNCHANGED spin
    /\ pc' = [pc EXCEPT ![p] = "body"]
    /\ UNCHANGED <<reg, ga_lock_mode, call, part, lm, nreg, rcs, rvs, ret>>

\* spin_lock_irqsave(&ga_spinlock) or mutex_lock(&ga_mutex): wait until
\* the lock chosen is free.
Acquire(p) ==
    /\ pc[p] = "acquire"
    /\ IF lm[p] = "GA_LM_SPINLOCK"
       THEN spin = NoProc /\ spin' = p /\ UNCHANGED mutex
       ELSE mutex = NoProc /\ mutex' = p /\ UNCHANGED spin
    /\ pc' = [pc EXCEPT ![p] = "body"]
    /\ UNCHANGED <<reg, ga_lock_mode, call, part, lm, nreg, rcs, rvs, ret>>

Done(p, rc, rv) ==
    /\ rcs' = [rcs EXCEPT ![p] = Append(@, rc)]
    /\ rvs' = [rvs EXCEPT ![p] = Append(@, rv)]

\* (options & GA_WRITE) || (mask == __a): __w(value & mask, addr)
PlainWrite(p) ==
    LET a == Cur(p) IN
    /\ pc[p] = "body" /\ call[p].op = "write"
    /\ (call[p].options & GA_WRITE) # 0 \/ a.mask = Full(a.wd)
    /\ reg' = SetField(reg, a.sh, a.wd, a.value & a.mask)
    /\ Done(p, "MAYBE", 0)
    /\ pc' = [pc EXCEPT ![p] = "unlock"]
    /\ UNCHANGED <<ga_lock_mode, spin, mutex, call, part, lm, nreg, ret>>

\* else if (options & (COND|ALWAYS)): old_reg = __r(addr), new_reg merged;
\* SURE if they differ; write when ALWAYS or when they differ.  Options
\* with none of the bits write nothing and return NONE.
RmwRead(p) ==
    LET a == Cur(p)
        old == Field(reg, a.sh, a.wd)
        new == NewReg(old, a.mask, a.value)
        opt == call[p].options
    IN
    /\ pc[p] = "body" /\ call[p].op = "write"
    /\ (opt & GA_WRITE) = 0 /\ a.mask # Full(a.wd)
    /\ IF (opt & (GA_READ_WRITE_CONDITIONAL + GA_READ_WRITE_ALWAYS)) # 0
       THEN /\ Done(p, IF old # new THEN "SURE" ELSE "NONE", 0)
            /\ nreg' = [nreg EXCEPT ![p] = new]
            /\ pc' = [pc EXCEPT ![p] =
                   IF (opt & GA_READ_WRITE_ALWAYS) # 0 \/ old # new
                   THEN "store" ELSE "unlock"]
       ELSE /\ Done(p, "NONE", 0)
            /\ pc' = [pc EXCEPT ![p] = "unlock"]
            /\ UNCHANGED nreg
    /\ UNCHANGED <<reg, ga_lock_mode, spin, mutex, call, part, lm, ret>>

\* __w(new_reg, addr)
RmwStore(p) ==
    LET a == Cur(p) IN
    /\ pc[p] = "store"
    /\ reg' = SetField(reg, a.sh, a.wd, nreg[p])
    /\ pc' = [pc EXCEPT ![p] = "unlock"]
    /\ UNCHANGED <<ga_lock_mode, spin, mutex, call, part, lm, nreg, rcs, rvs,
                   ret>>

\* reg = __r(addr) & mask
ReadReg(p) ==
    LET a == Cur(p) IN
    /\ pc[p] = "body" /\ call[p].op = "read"
    /\ Done(p, "NONE", Field(reg, a.sh, a.wd) & a.mask)
    /\ pc' = [pc EXCEPT ![p] = "unlock"]
    /\ UNCHANGED <<reg, ga_lock_mode, spin, mutex, call, part, lm, nreg, ret>>

\* ga_reg_write64 on a 32-bit build: SURE if either half is SURE, else
\* MAYBE if either is MAYBE, else NONE.
Write64Rc(rc1, rc2) ==
    IF "SURE" \in {rc1, rc2} THEN "SURE"
    ELSE IF "MAYBE" \in {rc1, rc2} THEN "MAYBE" ELSE "NONE"

\* ga_reg_read64 on a 32-bit build: return (msv << 32) & lsv.
Read64Combine(lsv, msv) == (msv * Word) & lsv

\* What the call returns once its last access is done.
Result(p) ==
    IF call[p].op = "write"
    THEN IF Len(rcs[p]) = 2 THEN Write64Rc(rcs[p][1], rcs[p][2])
         ELSE rcs[p][1]
    ELSE IF Len(rvs[p]) = 2 THEN Read64Combine(rvs[p][1], rvs[p][2])
         ELSE rvs[p][1]

\* Mutant: UNLOCK always releases the spinlock.
ReleaseSpinOnly == spin' = NoProc /\ UNCHANGED mutex

\* UNLOCK: ga_lock_mode is read again, and spin_unlock_irqrestore
\* (&ga_spinlock) or mutex_unlock(&ga_mutex) releases it, whoever holds it.
Release ==
    IF ga_lock_mode = "GA_LM_SPINLOCK"
    THEN spin' = NoProc /\ UNCHANGED mutex
    ELSE mutex' = NoProc /\ UNCHANGED spin

\* UNLOCK, then the next half of a split access, or the return.
Unlock(p) ==
    /\ pc[p] = "unlock"
    /\ Release
    /\ IF part[p] < Len(Parts(call[p]))
       THEN /\ part' = [part EXCEPT ![p] = @ + 1]
            /\ pc' = [pc EXCEPT ![p] = "lock"]
            /\ UNCHANGED <<ret, rcs, rvs>>
       ELSE /\ pc' = [pc EXCEPT ![p] = "idle"]
            /\ ret' = [ret EXCEPT ![p] = Result(p)]
            /\ rcs' = [rcs EXCEPT ![p] = <<>>]
            /\ rvs' = [rvs EXCEPT ![p] = <<>>]
            /\ UNCHANGED part
    /\ nreg' = [nreg EXCEPT ![p] = 0]
    /\ UNCHANGED <<reg, ga_lock_mode, call, lm>>

\* ga_set_lock_mode(mode): a plain store, no lock.
SetLockMode(p) ==
    /\ \E m \in Modes : ga_lock_mode' = m
    /\ UNCHANGED <<reg, spin, mutex, pc, call, part, lm, nreg, rcs, rvs, ret>>

\* The steps of a call under way.
InCall(p) ==
    \/ LockMode(p) \/ PlainWrite(p) \/ RmwRead(p) \/ RmwStore(p)
    \/ ReadReg(p) \/ Unlock(p)

Next ==
    \E p \in Procs : Call(p) \/ InCall(p) \/ Acquire(p)

\* A caller runs on (WF).  A spinner keeps testing the spinlock and a
\* ticket spinlock serves it in turn; mutex_lock hands the mutex to a
\* starving waiter: both are SF on Acquire.  Calls need not be made.
\* ga_lock_mode is set before the accesses begin (InitModes).
Spec ==
    /\ Init /\ [][Next]_vars
    /\ \A p \in Procs : WF_vars(InCall(p)) /\ SF_vars(Acquire(p))

\* The same with ga_set_lock_mode called by the Setters while others
\* access the register.
SetterNext == Next \/ \E p \in Setters : SetLockMode(p)

SpecSetLockMode ==
    /\ Init /\ [][SetterNext]_vars
    /\ \A p \in Procs : WF_vars(InCall(p)) /\ SF_vars(Acquire(p))

(***************************************************************************)
(* Properties.                                                             *)
(***************************************************************************)
\* Every change of the register is the masked update of one caller's
\* access applied to the register as it is at that moment: a
\* read-modify-write never writes back bits read before another caller's
\* write (generic_access.c lines 148-166, under LOCK/UNLOCK).
RegisterUpdatesAtomic ==
    [][\E p \in Procs :
          /\ pc[p] \in {"body", "store"} /\ call[p].op = "write"
          /\ LET a == Cur(p)
                 merged == IF (call[p].options & GA_WRITE) # 0
                           THEN a.value & a.mask
                           ELSE LET old == Field(reg, a.sh, a.wd) IN
                                (a.value & a.mask) + (old & (Full(a.wd) - a.mask))
             IN reg' = SetField(reg, a.sh, a.wd, merged)]_reg

\* Every register access returns: the lock LOCK took is released by
\* UNLOCK and every waiter gets it.
CallsReturn == \A p \in Procs : pc[p] # "idle" ~> pc[p] = "idle"

====
