---------------------------- MODULE MC_Watchdog ----------------------------
(* Instances of Watchdog for TLC: the command bytes each user may write.   *)
EXTENDS Watchdog

CONSTANTS u1, u2

\* Every command: stop, kick, start, enable, disable.
AllCmds == [u \in Users |-> {"Q", "K", "S", "E", "D"}]

\* A user that only starts and stops the kick timer.
StartStopCmds == [u \in Users |-> {"S", "Q"}]

\* A user that only enables and disables, beside one that starts and stops.
SplitCmds == [u \in Users |-> IF u = u1 THEN {"S", "Q"} ELSE {"E", "D"}]

====
