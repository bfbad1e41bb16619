------------------------------- MODULE MC_GMem -------------------------------
(* Two processes sharing one open file of a 3-byte gmem. *)
EXTENDS GMem

CONSTANTS p1, p2, fd

MCFileOf == [q \in Procs |-> fd]

MCSeekOffsets == {-1, 1, 4, 9}

====
