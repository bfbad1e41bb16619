---------------------------- MODULE DhcpFilter ----------------------------
(***************************************************************************)
(* The DHCP relay of src/test_suite/netrelay/dhcp_filter.c: the kernel     *)
(* filter of the network socket and the packet functions (pkg) the         *)
(* forwarding workers call.  Requests of the DHCP client on the service    *)
(* side, on dhcpVlan, leave on oamVlan = dhcpVlan + 1; replies from the    *)
(* network on oamVlan come back on oamVlan - 1.                            *)
(***************************************************************************)
EXTENDS Integers, RelayBuffer
LOCAL INSTANCE Bitwise

SERVICE_TO_NET == 1
NET_TO_SERVICE == 2
VLAN_DHCP2OAM == SERVICE_TO_NET
VLAN_OAM2DHCP == NET_TO_SERVICE
IP_MAXPACKET == 65535

\* The classic BPF program packetFilter[]: 802.1Q tag 0x8100 at offset 12,
\* VLAN id not 4094, ethertype IPv4, protocol UDP, fragment offset 0 and
\* UDP destination port 68.  A load beyond the frame ends the program with
\* 0 (drop); the last load, the port at 14+4+20+2 (IHL 5), needs 42 bytes.
packetFilter(f) ==
    /\ f.len >= 42
    /\ f.tag
    /\ f.tci % 4096 # 4094
    /\ f.dhcp

packetBufferInit(priv) == bufferInit(IP_MAXPACKET)

packetBufferPrepare(b, priv) == bufferReset(b)

\* The 12-bit VLAN id and the 4 priority bits (PCP and DEI) of a TCI.
Vid(tci) == tci % 4096
Pbit(tci) == tci - Vid(tci)

\* unsigned short arithmetic
Ushort(x) == x % 65536

\* Mutant: the priority bits added instead of ORed.
setDhcpVlanAdd(b) ==
    IF ~b.frm.tag THEN b
    ELSE LET dhcpVlan0 == Ushort(Vid(b.frm.tci) - 1)
             dhcpVlan == IF dhcpVlan0 = 0 THEN 4093 ELSE dhcpVlan0
         IN  [b EXCEPT !.frm.tci = Pbit(b.frm.tci) + dhcpVlan]

\* setDhcpVlan(): oamVlan - 1 with 0 mapped to 4093, priority bits ORed
\* back in.  The value is held in host order between ntohs and htons, so
\* the TCI is kept as the number the frame carries.
setDhcpVlan(b) ==
    IF ~b.frm.tag THEN b
    ELSE LET dhcpVlan0 == Ushort(Vid(b.frm.tci) - 1)
             dhcpVlan == IF dhcpVlan0 = 0 THEN 4093 ELSE dhcpVlan0
         IN  [b EXCEPT !.frm.tci = Pbit(b.frm.tci) | dhcpVlan]

\* Mutant: the priority bits are not written back.
setOamVlanNoPbit(b) ==
    IF ~b.frm.tag THEN b
    ELSE LET oamVlan0 == Ushort(Vid(b.frm.tci) + 1)
         IN  [b EXCEPT !.frm.tci = IF oamVlan0 = 4094 THEN 1 ELSE oamVlan0]

\* setOamVlan(): dhcpVlan + 1 with 4094 mapped to 1.
setOamVlan(b) ==
    IF ~b.frm.tag THEN b
    ELSE LET oamVlan0 == Ushort(Vid(b.frm.tci) + 1)
             oamVlan == IF oamVlan0 = 4094 THEN 1 ELSE oamVlan0
         IN  [b EXCEPT !.frm.tci = Pbit(b.frm.tci) | oamVlan]

\* packetEdit(): the direction's VLAN rewrite; without -V (priv 0) nothing.
packetEdit(b, priv) ==
    CASE priv = VLAN_OAM2DHCP -> setDhcpVlan(b)
      [] priv = VLAN_DHCP2OAM -> setOamVlan(b)
      [] OTHER                -> b
=============================================================================
