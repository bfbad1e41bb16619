------------------------------ MODULE MC_Relay ------------------------------
(***************************************************************************)
(* Instances of Relay for TLC.  Frames are named by strings; lengths,      *)
(* TCIs and headers are chosen at the edges the relay code branches on.    *)
(***************************************************************************)
EXTENDS Relay

\* A frame as a peer puts it on the link.
Frm(id, len, tag, tci, dhcp, eoe, excl) ==
    [id |-> id, rep |-> FALSE, len |-> len, tag |-> tag, tci |-> tci,
     dhcp |-> dhcp, eoe |-> eoe, elen |-> 0, excl |-> excl]

\* A build with relay id l linked in, run with -r r (or none) and -F if f.
Opt(l, r, f) == [linked |-> l, relay |-> r, filter |-> f]

\* TCI of priority p (PCP and DEI, 0..15) and VLAN id v.
TCI(p, v) == p * 4096 + v

(* DHCP.  The client on the service side asks on VLAN 1 (the wrap of      *)
(* setDhcpVlan) and on VLAN 4093 (the wrap of setOamVlan), with and         *)
(* without priority.  The network also sends a priority-tagged (VLAN 0)     *)
(* DHCP frame and one on the reserved VLAN 4094 the filter drops.           *)
DhcpSvcFrames ==
    << Frm("s1", 342, TRUE, TCI(10, 1), FALSE, "none", FALSE),
       Frm("s2", 342, TRUE, TCI(0, 4093), FALSE, "none", FALSE) >>
DhcpNetFrames ==
    << Frm("n1", 342, TRUE, TCI(6, 0), TRUE, "none", FALSE),
       Frm("n2", 342, TRUE, TCI(0, 4094), TRUE, "none", FALSE) >>
DhcpOptions ==
    {Opt(RELAY_ID_DHCP, "V", TRUE), Opt(RELAY_ID_DHCP, "none", FALSE),
     Opt(RELAY_ID_DHCP, "E", TRUE)}

(* EOE.  The tap host sends a frame below the 64-byte minimum and the     *)
(* largest whose len field does not wrap; the network sends a downstream    *)
(* frame and a plain Ethernet frame that is no EOE frame.                   *)
EoeSvcFrames ==
    << Frm("s1", 60, FALSE, 0, FALSE, "none", FALSE),
       Frm("s2", 65531, FALSE, 0, FALSE, "none", FALSE) >>
EoeNetFrames ==
    << Frm("n1", 100, FALSE, 0, FALSE, "down", FALSE),
       Frm("n2", 60, FALSE, 0, FALSE, "none", FALSE) >>
EoeOptions ==
    {Opt(RELAY_ID_EOE, "E", TRUE), Opt(RELAY_ID_EOE, "E", FALSE),
     Opt(RELAY_ID_EOE, "V", TRUE)}

(* Both builds, each with its own peers.                                   *)
BothOptions == DhcpOptions \cup EoeOptions
BothNetFrames == (RELAY_ID_DHCP :> DhcpNetFrames) @@ (RELAY_ID_EOE :> EoeNetFrames)
BothSvcFrames == (RELAY_ID_DHCP :> DhcpSvcFrames) @@ (RELAY_ID_EOE :> EoeSvcFrames)

(* Runs that look for a disagreement.                                      *)
Vlan1SvcFrames == << Frm("s1", 342, TRUE, TCI(0, 1), FALSE, "none", FALSE) >>
RuntNetFrames == << Frm("n1", 14, FALSE, 0, FALSE, "none", FALSE) >>
MaxSvcFrames == << Frm("s1", 65535, FALSE, 0, FALSE, "none", FALSE) >>
DhcpFiltered == {Opt(RELAY_ID_DHCP, "V", TRUE)}
EoeFiltered == {Opt(RELAY_ID_EOE, "E", TRUE)}
DhcpNoNet == RELAY_ID_DHCP :> << >>
DhcpVlan1Svc == RELAY_ID_DHCP :> Vlan1SvcFrames
EoeNone == RELAY_ID_EOE :> << >>
EoeRuntNet == RELAY_ID_EOE :> RuntNetFrames
EoeMaxSvc == RELAY_ID_EOE :> MaxSvcFrames
EoeSvcOnly == RELAY_ID_EOE :> EoeSvcFrames
=============================================================================
