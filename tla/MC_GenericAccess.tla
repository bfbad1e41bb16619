--------------------------- MODULE MC_GenericAccess ---------------------------
(***************************************************************************)
(* Instances of GenericAccess: a "32-bit" word of 2 bits, so the register  *)
(* at addr and addr + 4 has 4 bits.  p1 updates bit 0 of the low word and  *)
(* reads the high word; p2 updates bits 1 and 3 with 64-bit calls, writes  *)
(* the high word with GA_WRITE and the low word with a full mask, and      *)
(* reads 64 bits.  The two share both words, each with its own bits.      *)
(***************************************************************************)
EXTENDS GenericAccess, TLC

CONSTANTS p1, p2

W32(w, m, v, o) == [op |-> "write", size |-> 32, word |-> w, mask |-> m,
                    value |-> v, options |-> o]
W64(m, v, o) == [op |-> "write", size |-> 64, word |-> 0, mask |-> m,
                 value |-> v, options |-> o]
R32(w, m) == [op |-> "read", size |-> 32, word |-> w, mask |-> m, value |-> 0,
              options |-> 0]
R64(m) == [op |-> "read", size |-> 64, word |-> 0, mask |-> m, value |-> 0,
           options |-> 0]

\* dev_read_modify_write(_cond) of one bit, and a read of the other word
P1Calls == {W32(0, 1, 1, GA_READ_WRITE_CONDITIONAL),
            W32(0, 1, 0, GA_READ_WRITE_ALWAYS), R32(1, 3)}

\* 64-bit updates of bits 1 and 3, a GA_WRITE of the high word, a full-mask
\* write of the low word (demoted to a plain write), options naming no
\* mode, and a 64-bit read
P2Calls == {W64(10, v, GA_READ_WRITE_ALWAYS) : v \in {0, 10}}
           \cup {W32(1, 2, 2, GA_WRITE), W32(0, 3, 2, GA_READ_WRITE_CONDITIONAL),
                 W32(0, 2, 2, 0), R64(15)}

TwoCallers == (p1 :> P1Calls) @@ (p2 :> P2Calls)

====
