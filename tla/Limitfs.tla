------------------------------ MODULE Limitfs ------------------------------
(***************************************************************************)
(* src/test_suite/limitfs.c: a FUSE pass-through filesystem over the       *)
(* directory --src that refuses to grow past --size bytes.                 *)
(*                                                                         *)
(* cur_size is a counter the handlers keep: limitfs_write adjusts it by    *)
(* the change of the written file's size, and truncate, unlink and rmdir   *)
(* set it to get_dir_size(src), a recursive scan of the directory.         *)
(* mknod and write refuse with -ENOBUFS once cur_size > max_size.          *)
(*                                                                         *)
(* The backing directory is `fs`: each of a few Paths is absent, a         *)
(* directory or a regular file of some st_size.  FUSE threads run the      *)
(* handlers (one thread with -s); a handler is one step except where its   *)
(* reads and writes of cur_size and of the files are apart in the code.    *)
(* The process's descriptors are `fdtab`; open takes the lowest free one.  *)
(***************************************************************************)
EXTENDS Integers, Sequences, Functions

CONSTANTS
    Paths,          \* the paths the tree may hold
    Parent,         \* Parent[p]: the directory p is in, Root for the top
    Root,           \* the --src directory itself
    ReaddirOrder,   \* a sequence of all Paths: the order readdir lists them
    MaxSize,        \* max_size (--size)
    InitFs,         \* the possible trees when limitfs starts
    Threads,        \* FUSE worker threads
    Handles,        \* kernel file handles (fuse_file_info) of opened files
    FdNums,         \* descriptor numbers the process can hand out
    Sizes,          \* byte counts of a write
    Offsets,        \* file offsets of a write
    TruncSizes,     \* lengths given to truncate
    None            \* no path / no descriptor

ASSUME MaxSize > 0

\* st_mode of a path: absent and directory; a regular file is its st_size.
NONE == -1
DIR == -2
IsFile(f, p) == f[p] >= 0

VARIABLES
    fs,       \* the backing tree: Paths -> {NONE, DIR} \cup Nat
    cur,      \* cur_size
    fdtab,    \* the process's descriptors: FdNums -> Paths \cup {None}
    hpath,    \* the path of each open handle (FUSE passes it), or None
    hfd,      \* fi->fh of each handle
    tpc,      \* where each thread is
    th,       \* the handle a thread's write works on
    told      \* old_size of a thread's write

vars == <<fs, cur, fdtab, hpath, hfd, tpc, th, told>>

TPCs == {"idle", "w_pwrite", "w_update", "r_scan"}

(***************************************************************************)
(* get_dir_size and __get_dir_size.                                        *)
(***************************************************************************)
\* The entries readdir returns for directory d, "." and ".." skipped.
Entries(f, d) == SelectSeq(ReaddirOrder, LAMBDA p : Parent[p] = d /\ f[p] # NONE)

\* What __get_dir_size(d, &x) adds to x.  cur_filesize is one local for
\* the whole loop: get_file_size overwrites it, the recursive call for a
\* subdirectory adds to it, and every entry adds it to *filesize.
RECURSIVE DirScan(_, _), EntryScan(_, _, _)
DirScan(f, d) == EntryScan(f, Entries(f, d), 0)
EntryScan(f, es, cfs) ==
    IF es = <<>> THEN 0
    ELSE LET e == Head(es)
             c == IF f[e] = DIR THEN cfs + DirScan(f, e) ELSE f[e]
         IN c + EntryScan(f, Tail(es), c)

\* get_dir_size(src, &cur_size): *filesize = 0, then the scan.
GetDirSize(f) == DirScan(f, Root)

\* What the tree really holds: the st_size of every regular file.
Used(f) == FoldFunctionOnSet(LAMBDA x, y : x + y, 0, f, {p \in Paths : IsFile(f, p)})

ParentOk(p) == IF Parent[p] = Root THEN TRUE ELSE fs[Parent[p]] = DIR
Children(p) == {q \in Paths : Parent[q] = p /\ fs[q] # NONE}
OpenPath(p) == \E h \in Handles : hpath[h] = p
FreeFds == {n \in FdNums : fdtab[n] = None}
Idle(t) == tpc[t] = "idle"

Init ==
    /\ fs \in InitFs
    /\ cur = GetDirSize(fs)
    /\ fdtab = [n \in FdNums |-> None]
    /\ hpath = [h \in Handles |-> None]
    /\ hfd = [h \in Handles |-> None]
    /\ tpc = [t \in Threads |-> "idle"]
    /\ th = [t \in Threads |-> None]
    /\ told = [t \in Threads |-> 0]

(***************************************************************************)
(* Handlers that change no counter.                                        *)
(***************************************************************************)
\* limitfs_mknod for a regular file: -ENOBUFS once cur_size > max_size,
\* else open(O_CREAT | O_EXCL) and close; EEXIST or ENOENT change nothing.
Mknod(t, p) ==
    /\ Idle(t)
    /\ cur <= MaxSize
    /\ fs[p] = NONE /\ ParentOk(p)
    /\ fs' = [fs EXCEPT ![p] = 0]
    /\ UNCHANGED <<cur, fdtab, hpath, hfd, tpc, th, told>>

\* limitfs_mkdir: no quota test.
Mkdir(t, p) ==
    /\ Idle(t)
    /\ fs[p] = NONE /\ ParentOk(p)
    /\ fs' = [fs EXCEPT ![p] = DIR]
    /\ UNCHANGED <<cur, fdtab, hpath, hfd, tpc, th, told>>

\* limitfs_open of a regular file: open() returns the lowest free
\* descriptor, kept in fi->fh; EMFILE when none is free.
Open(t, h, p) ==
    /\ Idle(t)
    /\ hpath[h] = None
    /\ IsFile(fs, p)
    /\ FreeFds # {}
    /\ LET n == CHOOSE m \in FreeFds : \A k \in FreeFds : m <= k
       IN /\ fdtab' = [fdtab EXCEPT ![n] = p]
          /\ hpath' = [hpath EXCEPT ![h] = p]
          /\ hfd' = [hfd EXCEPT ![h] = n]
    /\ UNCHANGED <<fs, cur, tpc, th, told>>

\* limitfs_release: close(fi->fh), whatever that descriptor is now.  The
\* kernel releases a handle only when no request on it is running.
Release(t, h) ==
    /\ Idle(t)
    /\ hpath[h] # None
    /\ \A u \in Threads : tpc[u] # "idle" => th[u] # h
    /\ fdtab' = [fdtab EXCEPT ![hfd[h]] = None]
    /\ hpath' = [hpath EXCEPT ![h] = None]
    /\ hfd' = [hfd EXCEPT ![h] = None]
    /\ UNCHANGED <<fs, cur, tpc, th, told>>

\* limitfs_rename.  The FUSE library renames an open target to a hidden
\* name instead, and renaming a non-empty directory moves paths this
\* model does not name: neither is an input here.
Rename(t, from, to) ==
    /\ Idle(t)
    /\ from # to
    /\ fs[from] # NONE /\ ParentOk(to) /\ ~OpenPath(to)
    /\ Children(from) = {} /\ Children(to) = {}
    /\ IF IsFile(fs, from) THEN fs[to] # DIR ELSE ~IsFile(fs, to)
    /\ Parent[to] # from
    /\ fs' = [fs EXCEPT ![to] = fs[from], ![from] = NONE]
    /\ fdtab' = [n \in FdNums |-> IF fdtab[n] = from THEN to ELSE fdtab[n]]
    /\ hpath' = [h \in Handles |-> IF hpath[h] = from THEN to ELSE hpath[h]]
    /\ UNCHANGED <<cur, hfd, tpc, th, told>>

(***************************************************************************)
(* limitfs_write.                                                          *)
(***************************************************************************)
\* -ENOBUFS once cur_size > max_size, after close(fi->fh): the handle
\* stays open in the kernel with a closed (and reusable) descriptor.
WriteRefused(t, h) ==
    /\ Idle(t)
    /\ hpath[h] # None
    /\ cur > MaxSize
    /\ fdtab' = [fdtab EXCEPT ![hfd[h]] = None]
    /\ UNCHANGED <<fs, cur, hpath, hfd, tpc, th, told>>

\* Mutant: the quota test at the top of limitfs_write is left out.
WriteBeginNoQuota(t, h) ==
    /\ Idle(t)
    /\ hpath[h] # None
    /\ IsFile(fs, hpath[h])
    /\ th' = [th EXCEPT ![t] = h]
    /\ told' = [told EXCEPT ![t] = fs[hpath[h]]]
    /\ tpc' = [tpc EXCEPT ![t] = "w_pwrite"]
    /\ UNCHANGED <<fs, cur, fdtab, hpath, hfd>>

\* Otherwise get_file_size(path, &old_size); if the stat fails, -1.
WriteBegin(t, h) ==
    /\ Idle(t)
    /\ hpath[h] # None
    /\ cur <= MaxSize
    /\ IsFile(fs, hpath[h])
    /\ th' = [th EXCEPT ![t] = h]
    /\ told' = [told EXCEPT ![t] = fs[hpath[h]]]
    /\ tpc' = [tpc EXCEPT ![t] = "w_pwrite"]
    /\ UNCHANGED <<fs, cur, fdtab, hpath, hfd>>

\* pwrite(fi->fh, buf, size, offset) extends the file the descriptor now
\* refers to; on a closed descriptor it fails (EBADF) and close(fi->fh)
\* changes nothing.
WritePwrite(t) ==
    /\ tpc[t] = "w_pwrite"
    /\ \E o \in Offsets, n \in Sizes :
          LET f == fdtab[hfd[th[t]]]
          IN fs' = IF f = None THEN fs
                   ELSE [fs EXCEPT ![f] = IF @ > o + n THEN @ ELSE o + n]
    /\ tpc' = [tpc EXCEPT ![t] = "w_update"]
    /\ UNCHANGED <<cur, fdtab, hpath, hfd, th, told>>

\* Mutant: old_size and new_size swapped in the update of cur_size.
WriteUpdateSwapped(t) ==
    /\ tpc[t] = "w_update"
    /\ LET p == hpath[th[t]]
           new == fs[p]
       IN cur' = IF ~IsFile(fs, p) THEN cur
                 ELSE IF cur >= told[t] THEN cur - new + told[t] ELSE new
    /\ tpc' = [tpc EXCEPT ![t] = "idle"]
    /\ UNCHANGED <<fs, fdtab, hpath, hfd, th, told>>

\* Mutant: cur_size set to the written file's new size alone.
WriteUpdateNewOnly(t) ==
    /\ tpc[t] = "w_update"
    /\ LET p == hpath[th[t]]
       IN cur' = IF ~IsFile(fs, p) THEN cur ELSE fs[p]
    /\ tpc' = [tpc EXCEPT ![t] = "idle"]
    /\ UNCHANGED <<fs, fdtab, hpath, hfd, th, told>>

\* get_file_size(path, &new_size) (-1 if the stat fails), and
\* cur_size = cur_size >= old_size ? cur_size - old_size + new_size : new_size
WriteUpdate(t) ==
    /\ tpc[t] = "w_update"
    /\ LET p == hpath[th[t]]
           new == fs[p]
       IN cur' = IF ~IsFile(fs, p) THEN cur
                 ELSE IF cur >= told[t] THEN cur - told[t] + new ELSE new
    /\ tpc' = [tpc EXCEPT ![t] = "idle"]
    /\ UNCHANGED <<fs, fdtab, hpath, hfd, th, told>>

(***************************************************************************)
(* truncate, unlink and rmdir: the change, then get_dir_size(src,          *)
(* &cur_size) whether or not the change succeeded.  get_dir_size stores 0  *)
(* first, so the zero is visible to the other threads until the scan.      *)
(***************************************************************************)
Recount(t, f2) ==
    /\ Idle(t)
    /\ fs' = f2
    /\ cur' = 0
    /\ tpc' = [tpc EXCEPT ![t] = "r_scan"]
    /\ UNCHANGED <<fdtab, hpath, hfd, th, told>>

\* limitfs_truncate: truncate() sets st_size of a regular file (no quota
\* test, so it may extend it).
Truncate(t, p) ==
    \E n \in TruncSizes :
        Recount(t, IF IsFile(fs, p) THEN [fs EXCEPT ![p] = n] ELSE fs)

\* limitfs_unlink of a path with no open handle (the FUSE library hides
\* an open one by a rename instead).
Unlink(t, p) ==
    /\ ~OpenPath(p)
    /\ Recount(t, IF IsFile(fs, p) THEN [fs EXCEPT ![p] = NONE] ELSE fs)

\* limitfs_rmdir: only an empty directory goes.
Rmdir(t, p) ==
    Recount(t, IF fs[p] = DIR /\ Children(p) = {}
               THEN [fs EXCEPT ![p] = NONE] ELSE fs)

\* The scan adds what it finds to cur_size.
Scan(t) ==
    /\ tpc[t] = "r_scan"
    /\ cur' = cur + GetDirSize(fs)
    /\ tpc' = [tpc EXCEPT ![t] = "idle"]
    /\ UNCHANGED <<fs, fdtab, hpath, hfd, th, told>>

Next ==
    \E t \in Threads :
        \/ \E p \in Paths : Mknod(t, p) \/ Mkdir(t, p) \/ Truncate(t, p)
                            \/ Unlink(t, p) \/ Rmdir(t, p)
        \/ \E from, to \in Paths : Rename(t, from, to)
        \/ \E h \in Handles : \/ \E p \in Paths : Open(t, h, p)
                              \/ Release(t, h) \/ WriteRefused(t, h)
                              \/ WriteBegin(t, h)
        \/ WritePwrite(t) \/ WriteUpdate(t) \/ Scan(t)

Spec == Init /\ [][Next]_vars

(***************************************************************************)
(* Properties.                                                             *)
(***************************************************************************)
LimitTypeOK ==
    /\ fs \in [Paths -> {NONE, DIR} \cup Nat]
    /\ cur \in Nat
    /\ fdtab \in [FdNums -> Paths \cup {None}]
    /\ hpath \in [Handles -> Paths \cup {None}]
    /\ hfd \in [Handles -> FdNums \cup {None}]
    /\ tpc \in [Threads -> TPCs]

Quiet == \A t \in Threads : Idle(t)

\* cur_size never says less than the files hold when no handler is
\* running: a write adjusts it by its own file's change, and the rescans
\* of truncate, unlink and rmdir start from zero.  The quota rests on it.
CounterNeverUnder == Quiet => cur >= Used(fs)

\* A write reaches pwrite only while the files hold at most max_size
\* bytes: the test of cur_size at the top of limitfs_write is a test of
\* the real usage.  So the tree outgrows --size by one write at most.
WriteWithinQuota ==
    [][\A t \in Threads :
          (tpc[t] = "w_pwrite" /\ tpc'[t] = "w_update") => Used(fs) <= MaxSize]_vars

\* get_dir_size(src) is the total st_size of the regular files under src,
\* for the tree as it is now and the order readdir lists it in.
DirSizeCorrect == GetDirSize(fs) = Used(fs)

====
