------------------------------ MODULE MC_Gfifo ------------------------------
(***************************************************************************)
(* Small instances of Gfifo for TLC.  GFIFO_SIZE is 3 instead of 0x1000:   *)
(* 3 already gives an empty, a partly filled and a full FIFO, partial      *)
(* reads and writes, and a shift whose source and destination overlap     *)
(* (reading 1 of 3 bytes).                                                 *)
(***************************************************************************)
EXTENDS Gfifo, TLC

CONSTANTS r1, r2, w1, w2

\* a blocking reader, a blocking writer, and a non-blocking process that
\* reads and writes
RWCalls == (r1 :> {"read"}) @@ (w1 :> {"write"}) @@
           (r2 :> {"read", "write"})

\* llseek offsets: before the start, inside, past GFIFO_SIZE
SeekOffsets == {-1, 2, 4}

\* a blocking reader, a blocking writer, and a non-blocking process that
\* reads, writes and seeks
RWSeekCalls == (r1 :> {"read"}) @@ (w1 :> {"write"}) @@
               (r2 :> {"read", "write", "seek"})

\* two blocking readers competing for the bytes of a blocking writer, and
\* a process clearing the FIFO and seeking
ClearCalls == (r1 :> {"read"}) @@ (r2 :> {"read"}) @@ (w1 :> {"write"}) @@
              (w2 :> {"clear", "seek"})

====
