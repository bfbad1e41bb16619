--------------------------- MODULE GfifoAbstract ---------------------------
(***************************************************************************)
(* What the gfifo character device promises its users: a bounded byte      *)
(* queue of capacity Cap.  A write appends some bytes that fit, a read     *)
(* removes some bytes from the head; nothing else ever changes the queue.  *)
(***************************************************************************)
EXTENDS Naturals, Sequences

CONSTANTS Cap, Bytes

VARIABLE fifo

Init == fifo = <<>>

\* A write stores between 1 and the free room of bytes at the tail.
Put == \E n \in 1..(Cap - Len(fifo)) :
         \E s \in [1..n -> Bytes] : fifo' = fifo \o s

\* A read removes the first n bytes.
Take == \E n \in 1..Len(fifo) : fifo' = SubSeq(fifo, n + 1, Len(fifo))

Next == Put \/ Take

Spec == Init /\ [][Next]_fifo

=============================================================================
