------------------------------- MODULE Relay -------------------------------
(***************************************************************************)
(* The network relay daemon, src/test_suite/netrelay/relay.c: main()       *)
(* builds the network and service interfaces (and the network filter),     *)
(* starts the service-to-network worker on a thread and becomes the        *)
(* network-to-service worker; each worker runs forward_packet_from_to().   *)
(* The peers on the two links, and the sockets' receive queues, are the    *)
(* environment.  The relay compiled in is DHCP (dhcp_filter.c) or EOE      *)
(* (eoe_filter.c), or none (the weak service_init() stub).                 *)
(***************************************************************************)
EXTENDS Integers, Sequences, SequencesExt, RelayBuffer

CONSTANTS
    Options,    \* the builds and command lines: records [linked : id of the relay
                \* whose service_init() is linked in, or NoRelay,
                \* relay : {"E","V","none"}, filter : BOOLEAN]
    NetFrames,  \* per linked relay, frames the network sends unprompted, in order
    SvcFrames,  \* per linked relay, frames the service host sends, in order
    Fallible    \* whether system calls, allocations and links may fail

Dhcp == INSTANCE DhcpFilter
Eoe == INSTANCE EoeFilter

RELAY_ID_DHCP == 0
RELAY_ID_EOE == 1
NoRelay == -1
SERVICE_TO_NET == 1
NET_TO_SERVICE == 2

Dirs == {"s2n", "n2s"}
Itfs == {"net", "svc"}
Src(d) == IF d = "s2n" THEN "svc" ELSE "net"

VARIABLES
    opts,     \* the parsed command line
    main,     \* where main() is in its startup sequence
    sock,     \* state of each interface's descriptor
    q,        \* q[i]: frames queued on interface i's descriptor
    sent,     \* sent[i]: how many of its frames the peer of interface i sent
    replied,  \* indices of out["s2n"] the network has answered
    pc,       \* pc[d]: where worker d is
    buf,      \* buf[d]: worker d's packet buffer
    got,      \* got[d]: frames worker d has read, as read
    out,      \* out[d]: frames worker d has written
    exited    \* the process has called exit() or returned from main()

vars == <<opts, main, sock, q, sent, replied, pc, buf, got, out, exited>>

(* Command line: -E selects EOE, -V DHCP; relayId is a static enum and so  *)
(* DHCP when neither is given; either sets serviceEnabled.                  *)
\* The build: which relay's service_init() the linker took.
Linked == opts.linked
NetFr == NetFrames[Linked]
SvcFr == SvcFrames[Linked]
relayId == IF opts.relay = "E" THEN RELAY_ID_EOE ELSE RELAY_ID_DHCP
serviceEnabled == opts.relay \in {"E", "V"}
SERVICE_PRIV(opCode) == IF serviceEnabled THEN opCode ELSE 0
Priv(d) == SERVICE_PRIV(IF d = "s2n" THEN SERVICE_TO_NET ELSE NET_TO_SERVICE)

(* The pkg and ops tables of the relay relay_find() returns.               *)
bufferInitOf(priv) ==
    IF relayId = RELAY_ID_EOE THEN Eoe!packetBufferInit(priv) ELSE Dhcp!packetBufferInit(priv)
bufferPrepareOf(b, priv) ==
    IF relayId = RELAY_ID_EOE THEN Eoe!packetBufferPrepare(b, priv)
                              ELSE Dhcp!packetBufferPrepare(b, priv)
editOf(b, priv) ==
    IF relayId = RELAY_ID_EOE THEN Eoe!packetEdit(b, priv) ELSE Dhcp!packetEdit(b, priv)
filterOf(f) ==
    IF relayId = RELAY_ID_EOE THEN Eoe!packetFilter(f) ELSE Dhcp!packetFilter(f)

(* An AF_PACKET socket for ETH_P_ALL queues frames from socket() on,       *)
(* filters them only once SO_ATTACH_FILTER is set; a tap queues once        *)
(* attached; nothing is queued once the process has exited.                 *)
Receives(i, f) ==
    /\ ~exited
    /\ sock[i] \in {"open", "bound", "filtered"}
    /\ sock[i] = "filtered" => filterOf(f)

Arrive(i, f) ==
    q' = IF Receives(i, f) THEN [q EXCEPT ![i] = Append(@, f)] ELSE q

\* exit(EXIT_FAILURE), or main() returning EXIT_FAILURE.
Die ==
    /\ exited' = TRUE
    /\ UNCHANGED <<opts, main, sock, q, sent, replied, pc, buf, got, out>>

EmptyBuffer == [allocated |-> 0, data |-> 0, size |-> 0, frm |-> Blank]

Init ==
    /\ opts \in Options
    /\ main = "start"
    /\ sock = [i \in Itfs |-> "none"]
    /\ q = [i \in Itfs |-> <<>>]
    /\ sent = [i \in Itfs |-> 0]
    /\ replied = {}
    /\ pc = [d \in Dirs |-> "off"]
    /\ buf = [d \in Dirs |-> EmptyBuffer]
    /\ got = [d \in Dirs |-> <<>>]
    /\ out = [d \in Dirs |-> <<>>]
    /\ exited = FALSE

\* relay_register() by the linked service_init(): the relay_list[] entries.
registered == IF Linked = NoRelay THEN {} ELSE {Linked}

\* relay_find(): NULL for an id out of range or not registered.
relay_find(id) == id \in {RELAY_ID_DHCP, RELAY_ID_EOE} /\ id \in registered

(* main() up to relay_find(relayId): service_init() fails for the stub;   *)
(* relay_find() must find the relay the command line selects.              *)
Startup ==
    /\ main = "start" /\ ~exited
    /\ IF Linked # NoRelay /\ relay_find(relayId)
       THEN main' = "netItf" /\ UNCHANGED <<exited, opts, sock, q, sent, replied, pc, buf, got, out>>
       ELSE Die

\* create_network_interface(), first half: socket(AF_PACKET, SOCK_RAW, ETH_P_ALL).
NetSocket ==
    /\ main = "netItf" /\ ~exited
    /\ \/ /\ sock' = [sock EXCEPT !.net = "open"]
          /\ main' = "netBind"
          /\ UNCHANGED <<opts, q, sent, replied, pc, buf, got, out, exited>>
       \/ Fallible /\ Die

\* create_network_interface(), second half: (EOE) promiscuous mode,
\* getLLsocketOf() and bind() to the network interface.
NetBind ==
    /\ main = "netBind" /\ ~exited
    /\ \/ /\ sock' = [sock EXCEPT !.net = "bound"]
          /\ main' = "filter"
          /\ UNCHANGED <<opts, q, sent, replied, pc, buf, got, out, exited>>
       \/ Fallible /\ Die

\* if (filterEnable) ops->attach_filter(net_fd): attachItfFilter().
AttachFilter ==
    /\ main = "filter" /\ ~exited
    /\ \/ /\ ~opts.filter
          /\ main' = "svcItf"
          /\ UNCHANGED <<opts, sock, q, sent, replied, pc, buf, got, out, exited>>
       \/ /\ opts.filter
          /\ sock' = [sock EXCEPT !.net = "filtered"]
          /\ main' = "svcItf"
          /\ UNCHANGED <<opts, q, sent, replied, pc, buf, got, out, exited>>
       \/ opts.filter /\ Fallible /\ Die

\* create_service_interface(): a bound raw socket (DHCP) or a tap (EOE).
SvcItf ==
    /\ main = "svcItf" /\ ~exited
    /\ \/ /\ sock' = [sock EXCEPT !.svc = "bound"]
          /\ main' = "thread"
          /\ UNCHANGED <<opts, q, sent, replied, pc, buf, got, out, exited>>
       \/ Fallible /\ Die

\* Mutants: the thread created before the service interface; no thread.
CreateThreadEarly ==
    /\ main = "svcItf" /\ ~exited
    /\ pc' = [d \in Dirs |-> "init"]
    /\ main' = "running"
    /\ UNCHANGED <<opts, sock, q, sent, replied, buf, got, out, exited>>
CreateThreadMainOnly ==
    /\ main = "thread" /\ ~exited
    /\ pc' = [pc EXCEPT !.n2s = "init"]
    /\ main' = "running"
    /\ UNCHANGED <<opts, sock, q, sent, replied, buf, got, out, exited>>

\* createThread(&serviceToNet), then main() calls forward_packet_from_to().
CreateThread ==
    /\ main = "thread" /\ ~exited
    /\ \/ /\ pc' = [d \in Dirs |-> "init"]
          /\ main' = "running"
          /\ UNCHANGED <<opts, sock, q, sent, replied, buf, got, out, exited>>
       \/ Fallible /\ Die

(* forward_packet_from_to() before its loop: the pkg pointers are all set  *)
(* in both relay tables; pkg->bufferInit() may fail to allocate.            *)
WorkerInit(d) ==
    /\ pc[d] = "init" /\ ~exited
    /\ \/ /\ buf' = [buf EXCEPT ![d] = bufferInitOf(Priv(d))]
          /\ pc' = [pc EXCEPT ![d] = "read"]
          /\ UNCHANGED <<opts, main, sock, q, sent, replied, got, out, exited>>
       \/ Fallible /\ Die

(* One loop iteration up to the write: bufferPrepare(), a blocking read()  *)
(* of bufferDataToTail() bytes (a datagram read returns the head frame,     *)
(* truncated to the room), bufferSetDataSize() and pkg->edit().  EAGAIN and *)
(* EINTR restart the iteration without a change of state.                   *)
Read(d) ==
    /\ pc[d] = "read" /\ ~exited
    /\ q[Src(d)] # <<>>
    /\ LET f == Head(q[Src(d)])
           b0 == bufferPrepareOf(buf[d], Priv(d))
           room == bufferDataToTail(b0)
           n == IF f.len < room THEN f.len ELSE room
           b1 == [bufferSetDataSize(b0, n) EXCEPT !.frm = f]
       IN  /\ buf' = [buf EXCEPT ![d] = editOf(b1, Priv(d))]
           /\ q' = [q EXCEPT ![Src(d)] = Tail(@)]
           /\ got' = [got EXCEPT ![d] = Append(@, f)]
           /\ pc' = [pc EXCEPT ![d] = "write"]
    /\ UNCHANGED <<opts, main, sock, sent, replied, out, exited>>

\* read() fails with another errno: exit(EXIT_FAILURE).
ReadError(d) ==
    /\ pc[d] = "read" /\ ~exited /\ Fallible
    /\ Die

\* Mutant: nbByteToWrite not decreased, the frame is written again.
WriteAgain(d) ==
    /\ pc[d] = "write" /\ ~exited
    /\ buf[d].size # 0 /\ buf[d].data + buf[d].size <= buf[d].allocated
    /\ out' = [out EXCEPT ![d] = Append(@, [buf[d].frm EXCEPT !.len = buf[d].size])]
    /\ UNCHANGED <<opts, main, sock, q, sent, replied, pc, buf, got, exited>>

(* The write loop: nothing is written when nbByteToWrite is 0; a packet    *)
(* socket or tap write is all or nothing, EAGAIN and EINTR retry.  A write  *)
(* of bytes beyond the allocation (EFAULT, EMSGSIZE) or a link error exits. *)
Fits(b) == b.data + b.size <= b.allocated
Write(d) ==
    /\ pc[d] = "write" /\ ~exited
    /\ LET b == buf[d] IN
       \/ /\ Fits(b)
          /\ out' = IF b.size = 0 THEN out
                    ELSE [out EXCEPT ![d] = Append(@, [b.frm EXCEPT !.len = b.size])]
          /\ pc' = [pc EXCEPT ![d] = "read"]
          /\ UNCHANGED <<opts, main, sock, q, sent, replied, buf, got, exited>>
       \/ /\ b.size # 0
          /\ ~Fits(b) \/ Fallible
          /\ Die

(* The peers.  The network answers a frame the relay sent it with a frame  *)
(* on the same VLAN (DHCP server), or with the same payload behind a        *)
(* downstream EOE header (EOE peer).                                        *)
ReplyTo(f) ==
    IF Linked = RELAY_ID_EOE THEN [f EXCEPT !.rep = TRUE, !.eoe = "down", !.elen = 0]
                             ELSE [f EXCEPT !.rep = TRUE, !.dhcp = TRUE]

NetSend ==
    /\ sent.net < Len(NetFr)
    /\ Arrive("net", NetFr[sent.net + 1])
    /\ sent' = [sent EXCEPT !.net = @ + 1]
    /\ UNCHANGED <<opts, main, sock, replied, pc, buf, got, out, exited>>

NetReply ==
    \E i \in 1..Len(out.s2n) \ replied :
        /\ Arrive("net", ReplyTo(out.s2n[i]))
        /\ replied' = replied \cup {i}
        /\ UNCHANGED <<opts, main, sock, sent, pc, buf, got, out, exited>>

SvcSend ==
    /\ sent.svc < Len(SvcFr)
    /\ Arrive("svc", SvcFr[sent.svc + 1])
    /\ sent' = [sent EXCEPT !.svc = @ + 1]
    /\ UNCHANGED <<opts, main, sock, replied, pc, buf, got, out, exited>>

Next ==
    \/ Startup \/ NetSocket \/ NetBind \/ AttachFilter \/ SvcItf \/ CreateThread
    \/ \E d \in Dirs : WorkerInit(d) \/ Read(d) \/ ReadError(d) \/ Write(d)
    \/ NetSend \/ NetReply \/ SvcSend

(* The kernel schedules both threads: a step of main or of a worker that   *)
(* stays possible is eventually taken.  The peers and failures are not fair.*)
Fairness ==
    /\ WF_vars(Startup) /\ WF_vars(NetSocket) /\ WF_vars(NetBind)
    /\ WF_vars(AttachFilter) /\ WF_vars(SvcItf) /\ WF_vars(CreateThread)
    /\ \A d \in Dirs : WF_vars(WorkerInit(d)) /\ WF_vars(Read(d)) /\ WF_vars(Write(d))

Spec == Init /\ [][Next]_vars /\ Fairness

-----------------------------------------------------------------------------
Ids == {f.id : f \in UNION {Range(NetFrames[b]) \cup Range(SvcFrames[b]) : b \in DOMAIN NetFrames}}
Frame == [id : Ids \cup {NoId}, rep : BOOLEAN, len : 0..(SIZE_T_MOD - 1),
          tag : BOOLEAN, tci : 0..65535, dhcp : BOOLEAN,
          eoe : {"none", "up", "down", "garbled"}, elen : 0..65535, excl : BOOLEAN]
Buffer == [allocated : Nat, data : Nat, size : 0..(SIZE_T_MOD - 1), frm : Frame]

\* The request of the service host that a reply answers.
Request(x) == CHOOSE f \in Range(SvcFr) : f.id = x

TypeOK ==
    /\ opts \in Options
    /\ main \in {"start", "netItf", "netBind", "filter", "svcItf", "thread", "running"}
    /\ sock \in [Itfs -> {"none", "open", "bound", "filtered"}]
    /\ q \in [Itfs -> Seq(Frame)]
    /\ sent \in [Itfs -> Nat]
    /\ replied \subseteq 1..Len(out.s2n)
    /\ pc \in [Dirs -> {"off", "init", "read", "write"}]
    /\ buf \in [Dirs -> Buffer]
    /\ got \in [Dirs -> Seq(Frame)]
    /\ out \in [Dirs -> Seq(Frame)]
    /\ exited \in BOOLEAN

(* Spec section 8, the Buffer invariant: in every worker's buffer, after   *)
(* prepare, read, and the header added or stripped by the editor, data     *)
(* lies within the allocation and size fits between data and its end.      *)
BufferBounds ==
    \A d \in Dirs : pc[d] \in {"read", "write"} =>
        /\ buf[d].data <= buf[d].allocated
        /\ buf[d].size <= buf[d].allocated - buf[d].data

(* Spec section 5: startup is strictly ordered.  A worker of               *)
(* forward_packet_from_to() runs only once the relay was found, both        *)
(* interfaces are built, and the network descriptor is filtered when -F.    *)
WorkersOnlyAfterSetup ==
    \A d \in Dirs : pc[d] # "off" =>
        /\ Linked = relayId
        /\ sock.svc = "bound"
        /\ sock.net = IF opts.filter THEN "filtered" ELSE "bound"

(* DHCP: a reply the network sends on the VLAN where the relay put the     *)
(* request (setOamVlan) reaches the service host on the request's VLAN     *)
(* and priority (setDhcpVlan), for requests on VLANs 1..4093.              *)
RepliesReturnToRequestVlan ==
    \A i \in 1..Len(out.n2s) :
        LET r == out.n2s[i] IN
        (r.rep /\ Request(r.id).tag /\ Dhcp!Vid(Request(r.id).tci) \in 1..4093)
            => r.tci = Request(r.id).tci

(* DHCP, spec section 4.3: service-to-network maps VLAN id v of 1..4093 to *)
(* 4093 when v = 1 and to v - 1 otherwise.                                  *)
SpecVlanShift ==
    \A i \in 1..Len(out.s2n) :
        LET v == Dhcp!Vid(got.s2n[i].tci) IN
        (got.s2n[i].tag /\ v \in 1..4093)
            => Dhcp!Vid(out.s2n[i].tci) = IF v = 1 THEN 4093 ELSE v - 1

(* EOE: the len field of every header addEoeHeader() builds counts the    *)
(* bytes of the frame after it, the receiver's way to find the payload.    *)
EncapLengthField ==
    \A i \in 1..Len(out.s2n) :
        out.s2n[i].eoe = "up" => out.s2n[i].elen = out.s2n[i].len - 18

(* EOE, spec section 8: len is the padded payload size plus 9, behind a    *)
(* 21-byte header.                                                          *)
SpecEncapLength ==
    \A i \in 1..Len(out.s2n) :
        out.s2n[i].eoe = "up" => out.s2n[i].elen = out.s2n[i].len - 21 + 9

(* EOE, spec section 8, round trip: what the network sends back behind a  *)
(* downstream header reaches the service host as the request's payload,   *)
(* zero-padded to 64 bytes, with no header left.                            *)
EoeRoundTrip ==
    \A i \in 1..Len(out.n2s) :
        LET r == out.n2s[i]
            p == Request(r.id).len
        IN  r.rep => /\ r.eoe = "none"
                     /\ r.len = IF p < 64 THEN 64 ELSE p

(* Spec section 8, forwarding: in each direction the frames the relay      *)
(* accepted from its source descriptor are written to the other one in     *)
(* order, once each, and each eventually, until the process exits.         *)
KeyOf(f) == <<f.id, f.rep>>
KeysOf(s) == [i \in DOMAIN s |-> KeyOf(s[i])]
Abs == INSTANCE RelayAbstract
       WITH Keys <- Ids \X BOOLEAN,
            accepted <- [d \in Dirs |-> KeysOf(got[d] \o q[Src(d)])],
            delivered <- [d \in Dirs |-> KeysOf(out[d])],
            up <- ~exited
RelaySpec == Abs!Spec
=============================================================================
