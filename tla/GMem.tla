-------------------------------- MODULE GMem --------------------------------
(***************************************************************************)
(* src/gmem/gmem.c: a GMEM_SIZE-byte memory behind a character device,    *)
(* with read, write, llseek and the MEM_CLEAR ioctl and no lock at all.   *)
(*                                                                         *)
(* Processes call the file operations at once.  A process reaches the    *)
(* device through an open file; several processes may share one file (a  *)
(* descriptor shared by threads or across fork), and so its f_pos.  The   *)
(* VFS hands read and write a copy of f_pos and stores the copy back only *)
(* when the call returns a count (ksys_read/ksys_write); llseek sets      *)
(* f_pos itself.  copy_to_user and copy_from_user move one byte per step, *)
(* so other calls run between the bytes; either may fault, and            *)
(* copy_from_user then zero-fills the bytes it did not copy.              *)
(*                                                                         *)
(* A byte of mem is the process whose write stored it, or 0.  A read     *)
(* keeps the bytes it has copied to the user, and whether a store into   *)
(* its range happened while it copied.                                    *)
(***************************************************************************)
EXTENDS Integers, Sequences

CONSTANTS
    Procs,
    Files,
    FileOf,       \* the open file each process uses
    GMEM_SIZE,
    Sizes,        \* the size argument of read and write
    SeekOffsets,  \* llseek offsets
    UserFault,    \* whether user buffers may fault
    UINT_RANGE    \* 2^32: the range of unsigned int, scaled down with Sizes

ASSUME FileOf \in [Procs -> Files] /\ GMEM_SIZE > 0

Cells == 0..(GMEM_SIZE - 1)
Bytes == Procs \cup {0}

VARIABLES
    mem,      \* dev->mem
    fpos,     \* filp->f_pos of each file
    pc,       \* "idle", or in the copy of a read ("r_copy") or write ("w_copy")
    p,        \* the call's p = *ppos
    count,    \* the call's count, clamped to the end of mem
    k,        \* bytes copied so far
    buf,      \* the bytes a read has copied to the user buffer
    torn      \* a store hit the range of a read under way

vars == <<mem, fpos, pc, p, count, k, buf, torn>>

File(q) == FileOf[q]

\* Mutant: the clamp lets a call run one byte past the end.
ClampLoose(n, at) == LET c == n % UINT_RANGE
                     IN  IF c > GMEM_SIZE - at + 1 THEN GMEM_SIZE - at + 1 ELSE c

\* unsigned int count = size, then the clamp of read and write:
\* if (count > GMEM_SIZE - p) count = GMEM_SIZE - p.
Clamp(n, at) == LET c == n % UINT_RANGE
                IN  IF c > GMEM_SIZE - at THEN GMEM_SIZE - at ELSE c

\* A call returns: its locals go out of scope.
Return(q) ==
    /\ pc' = [pc EXCEPT ![q] = "idle"]
    /\ p' = [p EXCEPT ![q] = 0]
    /\ count' = [count EXCEPT ![q] = 0]
    /\ k' = [k EXCEPT ![q] = 0]

\* A read returns: its user buffer is the caller's again.
EndRead(q) ==
    /\ buf' = [buf EXCEPT ![q] = << >>]
    /\ torn' = [torn EXCEPT ![q] = FALSE]

\* A store into cells marks every read under way whose range holds one.
Touch(cells) ==
    torn' = [r \in Procs |->
                torn[r] \/ (pc[r] = "r_copy"
                            /\ \E c \in cells : c >= p[r] /\ c < p[r] + count[r])]

Init ==
    /\ mem = [c \in Cells |-> 0]
    /\ fpos = [f \in Files |-> 0]
    /\ pc = [q \in Procs |-> "idle"]
    /\ p = [q \in Procs |-> 0]
    /\ count = [q \in Procs |-> 0]
    /\ k = [q \in Procs |-> 0]
    /\ buf = [q \in Procs |-> << >>]
    /\ torn = [q \in Procs |-> FALSE]

(***************************************************************************)
(* gmem_read.  p >= GMEM_SIZE returns 0 and changes nothing.              *)
(***************************************************************************)
ReadCall(q, n) ==
    /\ pc[q] = "idle"
    /\ fpos[File(q)] < GMEM_SIZE
    /\ pc' = [pc EXCEPT ![q] = "r_copy"]
    /\ p' = [p EXCEPT ![q] = fpos[File(q)]]
    /\ count' = [count EXCEPT ![q] = Clamp(n, fpos[File(q)])]
    /\ k' = [k EXCEPT ![q] = 0]
    /\ UNCHANGED <<mem, fpos, buf, torn>>

ReadByte(q) ==
    /\ pc[q] = "r_copy" /\ k[q] < count[q]
    /\ buf' = [buf EXCEPT ![q] = Append(@, mem[p[q] + k[q]])]
    /\ k' = [k EXCEPT ![q] = @ + 1]
    /\ UNCHANGED <<mem, fpos, pc, p, count, torn>>

\* The copy faults: -EFAULT; the VFS leaves f_pos alone.
ReadFault(q) ==
    /\ pc[q] = "r_copy" /\ k[q] < count[q] /\ UserFault
    /\ Return(q) /\ EndRead(q)
    /\ UNCHANGED <<mem, fpos>>

\* Mutant: the count is added to the file's f_pos as it is now.
ReadDoneToCurrent(q) ==
    /\ pc[q] = "r_copy" /\ k[q] = count[q]
    /\ fpos' = [fpos EXCEPT ![File(q)] = @ + count[q]]
    /\ Return(q) /\ EndRead(q)
    /\ UNCHANGED mem

\* *ppos += count, returned; the VFS stores its copy of the position.
ReadDone(q) ==
    /\ pc[q] = "r_copy" /\ k[q] = count[q]
    /\ fpos' = [fpos EXCEPT ![File(q)] = p[q] + count[q]]
    /\ Return(q) /\ EndRead(q)
    /\ UNCHANGED mem

(***************************************************************************)
(* gmem_write.                                                            *)
(***************************************************************************)
WriteCall(q, n) ==
    /\ pc[q] = "idle"
    /\ fpos[File(q)] < GMEM_SIZE
    /\ pc' = [pc EXCEPT ![q] = "w_copy"]
    /\ p' = [p EXCEPT ![q] = fpos[File(q)]]
    /\ count' = [count EXCEPT ![q] = Clamp(n, fpos[File(q)])]
    /\ k' = [k EXCEPT ![q] = 0]
    /\ UNCHANGED <<mem, fpos, buf, torn>>

\* copy_from_user(dev->mem + p, buf, count), one byte.
WriteByte(q) ==
    /\ pc[q] = "w_copy" /\ k[q] < count[q]
    /\ mem' = [mem EXCEPT ![p[q] + k[q]] = q]
    /\ Touch({p[q] + k[q]})
    /\ k' = [k EXCEPT ![q] = @ + 1]
    /\ UNCHANGED <<fpos, pc, p, count, buf>>

\* The copy faults: the bytes not copied are zero-filled, -EFAULT.
WriteFault(q) ==
    /\ pc[q] = "w_copy" /\ k[q] < count[q] /\ UserFault
    /\ mem' = [c \in Cells |-> IF c >= p[q] + k[q] /\ c < p[q] + count[q]
                               THEN 0 ELSE mem[c]]
    /\ Touch((p[q] + k[q])..(p[q] + count[q] - 1))
    /\ Return(q)
    /\ UNCHANGED <<fpos, buf>>

WriteDone(q) ==
    /\ pc[q] = "w_copy" /\ k[q] = count[q]
    /\ fpos' = [fpos EXCEPT ![File(q)] = p[q] + count[q]]
    /\ Return(q)
    /\ UNCHANGED <<mem, buf, torn>>

(***************************************************************************)
(* gmem_ioctl(MEM_CLEAR) and gmem_llseek.  Other commands and whence      *)
(* values return -EINVAL and change nothing.                              *)
(***************************************************************************)
Clear(q) ==
    /\ pc[q] = "idle"
    /\ mem' = [c \in Cells |-> 0]
    /\ Touch(Cells)
    /\ UNCHANGED <<fpos, pc, p, count, k, buf>>

\* The position llseek sets, or -1 for -EINVAL.  SEEK_SET refuses a
\* negative offset and one whose (unsigned int) value is past GMEM_SIZE, and
\* sets that value; SEEK_CUR refuses a result past GMEM_SIZE or below 0;
\* SEEK_END is not handled.
SeekTarget(q, off, whence) ==
    CASE whence = 0 -> IF off < 0 \/ off % UINT_RANGE > GMEM_SIZE THEN -1
                       ELSE off % UINT_RANGE
      [] whence = 1 -> IF fpos[File(q)] + off > GMEM_SIZE
                           \/ fpos[File(q)] + off < 0
                       THEN -1 ELSE fpos[File(q)] + off
      [] OTHER -> -1

Llseek(q, off, whence) ==
    /\ pc[q] = "idle"
    /\ SeekTarget(q, off, whence) >= 0
    /\ fpos' = [fpos EXCEPT ![File(q)] = SeekTarget(q, off, whence)]
    /\ UNCHANGED <<mem, pc, p, count, k, buf, torn>>

Next ==
    \E q \in Procs :
        \/ \E n \in Sizes : ReadCall(q, n) \/ WriteCall(q, n)
        \/ ReadByte(q) \/ ReadFault(q) \/ ReadDone(q)
        \/ WriteByte(q) \/ WriteFault(q) \/ WriteDone(q)
        \/ Clear(q)
        \/ \E off \in SeekOffsets, whence \in {0, 1, 2} : Llseek(q, off, whence)

Spec == Init /\ [][Next]_vars

(***************************************************************************)
(* Properties.                                                            *)
(***************************************************************************)
GmTypeOK ==
    /\ mem \in [Cells -> Bytes]
    /\ fpos \in [Files -> Int]
    /\ pc \in [Procs -> {"idle", "r_copy", "w_copy"}]
    /\ \A q \in Procs : k[q] \in 0..count[q] /\ p[q] + count[q] <= GMEM_SIZE

\* Every file position stays within 0..GMEM_SIZE, though two calls on one
\* file each clamp against the position they read and then store their own
\* end back, and a seek may land between them: the clamps, the checks of
\* llseek and the VFS storing the call's own copy of f_pos keep it there.
PosInRange == \A f \in Files : fpos[f] \in 0..GMEM_SIZE

====
