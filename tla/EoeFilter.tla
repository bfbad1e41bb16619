----------------------------- MODULE EoeFilter -----------------------------
(***************************************************************************)
(* The EOE relay of src/test_suite/netrelay/eoe_filter.c: frames of the    *)
(* tap (service) interface leave on the network behind an EOE header,      *)
(* frames of the network lose their first sizeof(eoeHeader) bytes.         *)
(***************************************************************************)
EXTENDS Integers, RelayBuffer

SERVICE_TO_NET == 1
NET_TO_SERVICE == 2
EOE_ADD_HEADER == SERVICE_TO_NET
EOE_DEL_HEADER == NET_TO_SERVICE
IP_MAXPACKET == 65535
\* sizeof(eoeHeader) under #pragma pack(1): dmac 6, smac 6, tag 4, len 2,
\* the op_code/downstream/flag byte 1, itf 2, protocol_id 1.
EOE_HEADER_SIZE == 22
EOE_MIN_PAYLOAD_SIZE == 64

\* packetFilter[]: byte 18 (op_code/downstream/flag) & 0xf0 is 0x10, a
\* downstream header, and the halfword at 38 is not 0x08ab.  Loads beyond
\* the frame drop it: the second load needs 40 bytes.
packetFilter(f) ==
    /\ f.len >= 40
    /\ f.eoe = "down"
    /\ ~f.excl

packetBufferInit(priv) ==
    bufferInit(IF priv \in {EOE_ADD_HEADER, EOE_DEL_HEADER}
               THEN IP_MAXPACKET + EOE_HEADER_SIZE ELSE IP_MAXPACKET)

\* Mutant: no room left for the header.
packetBufferPrepareNoRoom(b, priv) == bufferReset(b)

\* packetBufferPrepare(): reset, and leave room for the header to add.
packetBufferPrepare(b, priv) ==
    LET r == bufferReset(b)
    IN  IF priv = EOE_ADD_HEADER THEN [r EXCEPT !.data = @ + EOE_HEADER_SIZE]
                                 ELSE r

\* extendPacketPayload(): zero-pad the payload to 64 bytes.
extendPacketPayload(b) ==
    IF b.size < EOE_MIN_PAYLOAD_SIZE THEN [b EXCEPT !.size = EOE_MIN_PAYLOAD_SIZE]
                                     ELSE b

\* initEoeHeader(): hdr->len, an unsigned short, is the payload size plus
\* the header bytes that follow the len field; the header is upstream.
initEoeHeader(payloadSize) ==
    (payloadSize + (EOE_HEADER_SIZE - 6 - 6 - 4 - 2)) % 65536

\* Mutant: len computed before padding.
addEoeHeaderLenFirst(b) ==
    LET e == extendPacketPayload(b)
    IN  [e EXCEPT !.data = @ - EOE_HEADER_SIZE, !.size = @ + EOE_HEADER_SIZE,
                  !.frm.eoe = "up", !.frm.elen = initEoeHeader(b.size)]

\* addEoeHeader(): pad, build the header over the padded size, move data
\* back over the room packetBufferPrepare() left and count the header.
addEoeHeader(b) ==
    LET e == extendPacketPayload(b)
    IN  [e EXCEPT !.data = @ - EOE_HEADER_SIZE,
                  !.size = @ + EOE_HEADER_SIZE,
                  !.frm.eoe = "up",
                  !.frm.elen = initEoeHeader(e.size)]

\* Mutant: a 21-byte header stripped.
delEoeHeader21(b) ==
    [b EXCEPT !.data = @ + 21, !.size = SizeT(@ - 21),
              !.frm.eoe = IF @ = "down" THEN "none" ELSE "garbled"]

\* delEoeHeader(): skip the header without looking at it; size is a size_t.
delEoeHeader(b) ==
    [b EXCEPT !.data = @ + EOE_HEADER_SIZE,
              !.size = SizeT(@ - EOE_HEADER_SIZE),
              !.frm.eoe = IF @ = "down" THEN "none" ELSE "garbled"]

packetEdit(b, priv) ==
    CASE priv = EOE_ADD_HEADER -> addEoeHeader(b)
      [] priv = EOE_DEL_HEADER -> delEoeHeader(b)
      [] OTHER                 -> b
=============================================================================
