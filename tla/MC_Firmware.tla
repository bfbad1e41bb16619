---------------------------- MODULE MC_Firmware ----------------------------
(* Instances of Firmware for TLC.                                          *)
EXTENDS Firmware

CONSTANTS l1, l2, c1

\* A 3-byte image of alternating bytes: a block copied to the wrong offset
\* shows.
Image3 == <<1, 2, 1>>

\* Block sizes a user writes: 0 (the whole rest at once), 2 (a partial
\* block, the last one clamped) and -1 (a negative size).
FwBlockSizes == {0, 2, -1}

\* Only positive block sizes.
PosBlockSizes == {0, 2}

====
