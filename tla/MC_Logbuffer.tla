--------------------------- MODULE MC_Logbuffer ---------------------------
EXTENDS Logbuffer

CONSTANTS r1, r2

\* Every log of four bytes of text, carriage return and newline.
AllBufs == [1..4 -> Chars]

\* buffer_info: no address; a length that leaves no room past the header;
\* a region of header plus four log bytes; and one too short for the log.
LogInfos == {[addr |-> 0, len |-> 6], [addr |-> 1, len |-> 2],
             [addr |-> 1, len |-> 6], [addr |-> 1, len |-> 5]}
====
