---------------------------- MODULE RelayBuffer ----------------------------
(***************************************************************************)
(* The packet buffer of the network relay (struct buffer in relay.h and    *)
(* the buffer helpers of src/test_suite/netrelay/relay.c).                 *)
(*                                                                         *)
(* Addresses are offsets from pbuf->base: a buffer is a record with the    *)
(* fields of struct buffer (allocated, data, size) and, in frm, the frame  *)
(* that the bytes starting at data hold.  Byte contents are abstracted to  *)
(* that frame record; the byte count is the size field.                   *)
(***************************************************************************)
EXTENDS Integers

CONSTANT NoId        \* identity of the bytes of a freshly malloc()ed buffer

\* size_t arithmetic.  TLC integers are 32 bits wide, so size_t is modelled
\* modulo 2^30: a wrapped size still exceeds every buffer of the relay
\* (at most 65557 bytes), which is all the properties tell apart.
SIZE_T_MOD == 2^30
SizeT(x) == x % SIZE_T_MOD

\* The frame record: identity (id, and rep for a reply to frame id), the
\* wire length, the 802.1Q tag and TCI at offsets 12 and 14, whether the
\* frame is an IPv4/UDP unfragmented datagram to port 68, whether it starts
\* with an EOE header ("up" as built by this relay, "down" from the peer,
\* "garbled" once 22 bytes of a non-EOE frame are stripped), the EOE
\* header's len field, and whether the inner ethertype is 0x08ab.
Blank == [id |-> NoId, rep |-> FALSE, len |-> 0, tag |-> FALSE, tci |-> 0,
          dhcp |-> FALSE, eoe |-> "none", elen |-> 0, excl |-> FALSE]

\* bufferReset(): data back to base, no data held.
bufferReset(b) == [b EXCEPT !.data = 0, !.size = 0]

\* bufferInit(): allocate size bytes, then bufferReset().  The allocation
\* failure path is an action's alternative, not part of this operator.
bufferInit(size) ==
    bufferReset([allocated |-> size, data |-> 0, size |-> 0, frm |-> Blank])

\* bufferDataToTail(): room between data and the end of the allocation.
bufferDataToTail(b) == SizeT(b.allocated - b.data)

\* bufferSetDataSize()
bufferSetDataSize(b, n) == [b EXCEPT !.size = n]
=============================================================================
