------------------------------- MODULE MC_Led -------------------------------
(***************************************************************************)
(* Device trees for Led.  A child's properties are Absent, BadLen (a      *)
(* length other than one cell) or the cell's value.                        *)
(***************************************************************************)
EXTENDS Led

CONSTANTS c1, c2

Child(name, off, bit, regidx, enb, enbOff, enbBit, enbVal, init, al) ==
    [name |-> name, off |-> off, bit |-> bit, regidx |-> regidx, enb |-> enb,
     enbOff |-> enbOff, enbBit |-> enbBit, enbVal |-> enbVal, init |-> init, al |-> al]

(* An active-low LED on bit 0 of register 0, initially on, with an enable  *)
(* bit in register 1 whose value 257 is truncated to the u8 1.             *)
LedA == Child(TRUE, 0, 0, Absent, 1, 1, 0, 257, 255, 1)
(* An active-high LED on bit 1 of the same register, found by reg-index.   *)
LedB == Child(TRUE, 0, Absent, 1, Absent, Absent, Absent, Absent, Absent, Absent)
(* A child whose reg-offset is not one cell.                               *)
LedBad == Child(TRUE, BadLen, 0, Absent, Absent, Absent, Absent, Absent, Absent, Absent)

Board(dt, useWq, parent) == [dt |-> dt, wq |-> useWq, parent |-> parent]

LedBoards ==
    {Board(<<LedA, LedB>>, TRUE, TRUE), Board(<<LedA, LedB>>, FALSE, TRUE),
     Board(<<LedA, LedBad>>, TRUE, TRUE), Board(<<LedA>>, TRUE, FALSE),
     Board(<< >>, TRUE, TRUE)}
WqBoard == {Board(<<LedA, LedB>>, TRUE, TRUE)}
=============================================================================
