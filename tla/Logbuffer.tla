----------------------------- MODULE Logbuffer -----------------------------
(***************************************************************************)
(* The /proc/logbuffer reader of logbuffer.c.  Each read of the proc file *)
(* runs logbuffer_show: it parses buffer_info into name, length and       *)
(* address, claims the region with request_mem_region, maps it, checks    *)
(* the logbuff_t header (tag, start, end) and hands the bytes buf[start.. *)
(* end) to process_logbuffer in chunks of at most LOGBUFF_LEN bytes; that *)
(* function cuts a chunk into newline-terminated lines through a          *)
(* LOGBUFF_SIZE-byte line buffer.  Several processes may read the proc    *)
(* file at once; the region they claim is one kernel resource.           *)
(***************************************************************************)
EXTENDS Integers, Sequences, SequencesExt

CONSTANTS
    Readers,        \* processes reading /proc/logbuffer
    HDR,            \* sizeof(logbuff_t): the header before buf
    LOGBUFF_LEN,    \* the largest chunk handed to process_logbuffer
    LOGBUFF_SIZE,   \* the size of process_logbuffer's line buffer
    Infos,          \* buffer_info, parsed: [addr, len]
    Bufs,           \* contents of buf (physical memory after the header)
    Positions,      \* values the header's start and end can hold
    MAGIC, BADTAG,  \* LOGBUFF_MAGIC and any other tag
    KmallocFails,   \* whether kmalloc(LOGBUFF_SIZE) may fail
    NoReader

ASSUME HDR > 0 /\ LOGBUFF_LEN > 0 /\ LOGBUFF_SIZE > 1

\* The bytes of a log, abstracted to what process_logbuffer tells apart.
TXT == "x"
CR == "CR"
LF == "LF"
NUL == "NUL"
Chars == {TXT, CR, LF}

VARIABLES
    info,       \* buffer_info as parsed by get_mytoken/simple_strtol
    tag, start, end, buf,   \* the memory at the region: header and log
    region,     \* the reader holding request_mem_region, or NoReader
    mapped,     \* readers holding an ioremap of the region
    pc,         \* each reader's point in logbuffer_show
    offset,     \* logbuffer_show's offset
    reach,      \* one past the highest region offset the reader has read
    chunks,     \* the chunks process_logbuffer has parsed in this show
    shown       \* the lines seq_printf has emitted in this show

vars == <<info, tag, start, end, buf, region, mapped, pc, offset, reach,
          chunks, shown>>

PCs == {"idle", "request", "map", "header", "chunk", "finish"}

(***************************************************************************)
(* process_logbuffer, one character at a time: a carriage return is       *)
(* skipped; any other byte goes to local_buffer[local_idx]; a newline     *)
(* ends the line (local_buffer[++local_idx] = 0, seq_printf, local_idx =  *)
(* 0); when local_idx reaches LOGBUFF_SIZE-1 it steps back, so the rest   *)
(* of a long line overwrites its last kept byte.  A store outside         *)
(* local_buffer sets ovf.                                                 *)
(***************************************************************************)
Put(b, i, c) == IF i \in DOMAIN b THEN [b EXCEPT ![i] = c] ELSE b

\* Mutant: the clamp tests local_idx > LOGBUFF_SIZE-1.
LineStepLateClamp(s, c) ==
    IF c = CR THEN s
    ELSE LET b == Put(s.lbuf, s.idx, c)
             n == IF c = LF THEN 0 ELSE s.idx + 1
         IN [lbuf |-> IF c = LF THEN Put(b, s.idx + 1, NUL) ELSE b,
             idx  |-> IF n > LOGBUFF_SIZE - 1 THEN n - 1 ELSE n,
             out  |-> IF c = LF
                        THEN Append(s.out, [k \in 1..(s.idx + 1) |-> b[k - 1]])
                        ELSE s.out,
             ovf  |-> s.ovf \/ s.idx + (IF c = LF THEN 1 ELSE 0)
                                 \notin DOMAIN s.lbuf]

LineStep(s, c) ==
    IF c = CR THEN s
    ELSE LET b == Put(s.lbuf, s.idx, c)
             n == IF c = LF THEN 0 ELSE s.idx + 1
         IN [lbuf |-> IF c = LF THEN Put(b, s.idx + 1, NUL) ELSE b,
             idx  |-> IF n >= LOGBUFF_SIZE - 1 THEN n - 1 ELSE n,
             out  |-> IF c = LF
                        THEN Append(s.out, [k \in 1..(s.idx + 1) |-> b[k - 1]])
                        ELSE s.out,
             ovf  |-> s.ovf \/ s.idx + (IF c = LF THEN 1 ELSE 0)
                                 \notin DOMAIN s.lbuf]

LineStart == [lbuf |-> [k \in 0..(LOGBUFF_SIZE - 1) |-> NUL], idx |-> 0,
              out |-> <<>>, ovf |-> FALSE]

ProcessLogbuffer(bytes) == FoldLeft(LineStep, LineStart, bytes)

(***************************************************************************)
(* The reference: the newline-terminated lines of a byte sequence, its    *)
(* carriage returns dropped, each cut to the LOGBUFF_SIZE-2 bytes the     *)
(* line buffer keeps before its newline and terminator.                   *)
(***************************************************************************)
Lines(bytes) ==
    LET t == SelectSeq(bytes, LAMBDA c : c # CR)
        ends == SetToSortSeq({i \in DOMAIN t : t[i] = LF}, <)
        from(k) == IF k = 1 THEN 1 ELSE ends[k - 1] + 1
        body(k) == SubSeq(t, from(k), ends[k] - 1)
        keep(k) == IF Len(body(k)) <= LOGBUFF_SIZE - 2
                   THEN Len(body(k)) ELSE LOGBUFF_SIZE - 2
    IN [k \in DOMAIN ends |-> SubSeq(body(k), 1, keep(k)) \o <<LF>>]

\* The n bytes at buf + o.  Memory past the modelled log holds text.
BufBytes(o, n) == [k \in 1..n |-> IF o + k \in DOMAIN buf THEN buf[o + k] ELSE TXT]

Init ==
    /\ info \in Infos
    /\ tag \in {MAGIC, BADTAG}
    /\ start \in Positions /\ end \in Positions
    /\ buf \in Bufs
    /\ region = NoReader
    /\ mapped = {}
    /\ pc = [r \in Readers |-> "idle"]
    /\ offset = [r \in Readers |-> 0]
    /\ reach = [r \in Readers |-> 0]
    /\ chunks = [r \in Readers |-> <<>>]
    /\ shown = [r \in Readers |-> <<>>]

(***************************************************************************)
(* Reader steps.                                                          *)
(***************************************************************************)

\* open + seq_read call logbuffer_show: parse buffer_info; an address of 0
\* or a length not above the header is "Invalid input" (goto out).
Show(r) ==
    /\ pc[r] = "idle"
    /\ pc' = [pc EXCEPT ![r] = IF info.addr # 0 /\ info.len > HDR
                                THEN "request" ELSE "idle"]
    /\ reach' = [reach EXCEPT ![r] = 0]
    /\ chunks' = [chunks EXCEPT ![r] = <<>>]
    /\ shown' = [shown EXCEPT ![r] = <<>>]
    /\ UNCHANGED <<info, tag, start, end, buf, region, mapped, offset>>

\* Mutant: a failed request jumps to the label that releases the region.
RequestFailReleases(r) ==
    /\ pc[r] = "request"
    /\ IF region = NoReader
         THEN region' = r /\ pc' = [pc EXCEPT ![r] = "map"]
         ELSE region' = NoReader /\ pc' = [pc EXCEPT ![r] = "idle"]
    /\ UNCHANGED <<info, tag, start, end, buf, mapped, offset, reach,
                   chunks, shown>>

\* request_mem_region: fails while another reader holds the region
\* (goto err_request_logbuffer, which releases nothing).
Request(r) ==
    /\ pc[r] = "request"
    /\ IF region = NoReader
         THEN region' = r /\ pc' = [pc EXCEPT ![r] = "map"]
         ELSE UNCHANGED region /\ pc' = [pc EXCEPT ![r] = "idle"]
    /\ UNCHANGED <<info, tag, start, end, buf, mapped, offset, reach,
                   chunks, shown>>

\* ioremap, or its failure: goto err_ioremap_logbuffer, release the region.
Ioremap(r) ==
    /\ pc[r] = "map"
    /\ \/ /\ mapped' = mapped \cup {r}
          /\ pc' = [pc EXCEPT ![r] = "header"]
          /\ UNCHANGED region
       \/ /\ region' = NoReader
          /\ pc' = [pc EXCEPT ![r] = "idle"]
          /\ UNCHANGED mapped
    /\ UNCHANGED <<info, tag, start, end, buf, offset, reach, chunks, shown>>

\* Mutant: no test of end against mem_size.
HeaderBadNoEnd == tag # MAGIC \/ start > end

HeaderBad == tag # MAGIC \/ start > end \/ end + HDR > info.len

\* The header checks: the tag, then start <= end and end + sizeof(logbuff_t)
\* within mem_size; either failure goes to finish.  Reading the header
\* reads the first HDR bytes of the region.
Header(r) ==
    /\ pc[r] = "header"
    /\ pc' = [pc EXCEPT ![r] = IF HeaderBad THEN "finish" ELSE "chunk"]
    /\ offset' = [offset EXCEPT ![r] = start]
    /\ reach' = [reach EXCEPT ![r] = HDR]
    /\ UNCHANGED <<info, tag, start, end, buf, region, mapped,
                   chunks, shown>>

\* Mutant: the chunk is everything up to end.
ChunkLoopUncapped(r) ==
    /\ pc[r] = "chunk"
    /\ IF offset[r] < end /\ HDR + offset[r] < info.len
         THEN LET size == end - offset[r]
                  bytes == BufBytes(offset[r], size)
              IN /\ offset' = [offset EXCEPT ![r] = @ + size]
                 /\ reach' = [reach EXCEPT ![r] =
                                IF @ < HDR + offset[r] + size
                                THEN HDR + offset[r] + size ELSE @]
                 /\ chunks' = [chunks EXCEPT ![r] = Append(@, bytes)]
                 /\ shown' = [shown EXCEPT ![r] = @ \o ProcessLogbuffer(bytes).out]
                 /\ UNCHANGED pc
         ELSE /\ pc' = [pc EXCEPT ![r] = "finish"]
              /\ UNCHANGED <<offset, reach, chunks, shown>>
    /\ UNCHANGED <<info, tag, start, end, buf, region, mapped>>

\* One iteration of the while loop: the chunk size, process_logbuffer
\* (which, when its kmalloc fails, prints a message and parses nothing),
\* and offset += size.  The loop's exit goes on to finish.
ChunkLoop(r) ==
    /\ pc[r] = "chunk"
    /\ IF offset[r] < end /\ HDR + offset[r] < info.len
         THEN LET size == IF offset[r] + LOGBUFF_LEN > end
                          THEN end - offset[r] ELSE LOGBUFF_LEN
                  bytes == BufBytes(offset[r], size)
              IN /\ offset' = [offset EXCEPT ![r] = @ + size]
                 /\ reach' = [reach EXCEPT ![r] =
                                IF @ < HDR + offset[r] + size
                                THEN HDR + offset[r] + size ELSE @]
                 /\ \E ok \in IF KmallocFails THEN BOOLEAN ELSE {TRUE} :
                      IF ok
                        THEN /\ chunks' = [chunks EXCEPT ![r] = Append(@, bytes)]
                             /\ shown' = [shown EXCEPT ![r] =
                                    @ \o ProcessLogbuffer(bytes).out]
                        ELSE UNCHANGED <<chunks, shown>>
                 /\ UNCHANGED pc
         ELSE /\ pc' = [pc EXCEPT ![r] = "finish"]
              /\ UNCHANGED <<offset, reach, chunks, shown>>
    /\ UNCHANGED <<info, tag, start, end, buf, region, mapped>>

\* finish: iounmap, then release_mem_region (mem_address is not 0 here).
Finish(r) ==
    /\ pc[r] = "finish"
    /\ mapped' = mapped \ {r}
    /\ region' = NoReader
    /\ pc' = [pc EXCEPT ![r] = "idle"]
    /\ UNCHANGED <<info, tag, start, end, buf, offset, reach, chunks, shown>>

Next ==
    \E r \in Readers :
        Show(r) \/ Request(r) \/ Ioremap(r) \/ Header(r) \/ ChunkLoop(r)
        \/ Finish(r)

Spec == Init /\ [][Next]_vars

(***************************************************************************)
(* Properties.                                                            *)
(***************************************************************************)
LbTypeOK ==
    /\ region \in Readers \cup {NoReader}
    /\ mapped \subseteq Readers
    /\ pc \in [Readers -> PCs]
    /\ offset \in [Readers -> Nat]
    /\ reach \in [Readers -> Nat]
    /\ \A r \in Readers : \A k \in DOMAIN chunks[r] :
          chunks[r][k] \in Seq(Chars) /\ Len(chunks[r][k]) <= LOGBUFF_LEN

\* Every byte logbuffer_show reads, header and chunks, lies inside the
\* mem_size bytes it claimed and mapped: the header checks must keep a
\* corrupt or foreign start/end from sending process_logbuffer past the
\* mapping.
ReadsInRange == \A r \in Readers : reach[r] <= info.len

Holding == {"map", "header", "chunk", "finish"}

\* The region and its mapping belong to the one reader that claimed it, and
\* once no reader is inside logbuffer_show both are given back: no error
\* path releases a region another reader holds, or leaks its own.
RegionBalanced ==
    /\ \A r \in Readers : (pc[r] \in Holding \/ r \in mapped) => region = r
    /\ (\A r \in Readers : pc[r] = "idle") => (region = NoReader /\ mapped = {})

\* process_logbuffer prints, for every chunk it parses, exactly the
\* newline-terminated lines of the chunk without carriage returns, each
\* cut to LOGBUFF_SIZE-2 bytes, and never stores outside local_buffer.
ProcessMatchesLines ==
    \A r \in Readers :
        /\ shown[r] = FlattenSeq([k \in DOMAIN chunks[r] |-> Lines(chunks[r][k])])
        /\ \A k \in DOMAIN chunks[r] : ~ProcessLogbuffer(chunks[r][k]).ovf

\* A show that gets past the header checks prints the lines of the whole
\* log buf[start..end), as if process_logbuffer had seen it in one piece.
ShowsWholeLog ==
    \A r \in Readers :
        (pc[r] = "finish" /\ ~HeaderBad /\ ~KmallocFails)
            => shown[r] = Lines(BufBytes(start, end - start))

====
