-------------------------------- MODULE MCIp --------------------------------
(***************************************************************************)
(* Three components of lwIP that tcpip_thread runs, each with state of its *)
(* own: the ARP table, reassembly and the DHCP client.  They are checked   *)
(* in one run: in a behaviour one of them moves and the others stay as     *)
(* they were at first.                                                     *)
(***************************************************************************)
EXTENDS Etharp, IpReass, Dhcp

VARIABLE part

vars == <<part, arpVars, reassVars, dhcpVars>>

Init ==
    /\ part \in {"arp", "reass", "dhcp"}
    /\ ArpInit /\ ReassInit /\ DhcpInit

ArpMoves(A) == part = "arp" /\ A /\ UNCHANGED <<part, reassVars, dhcpVars>>
ReassMoves(A) == part = "reass" /\ A /\ UNCHANGED <<part, arpVars, dhcpVars>>
DhcpMoves(A) == part = "dhcp" /\ A /\ UNCHANGED <<part, arpVars, reassVars>>

Next == ArpMoves(ArpNext) \/ ReassMoves(ReassNext) \/ DhcpMoves(DhcpNext)

\* The fairness of each component; only one moves, so their conditions join.
TimerRuns == ArpMoves(etharp_tmr) \/ ReassMoves(ip_reass_tmr) \/ DhcpMoves(FineTimeout)

Fairness ==
    WF_vars(TimerRuns) /\ WF_vars(DhcpMoves(CoarseTick)) /\ WF_vars(DhcpMoves(Network))

Spec == Init /\ [][Next]_vars /\ Fairness

-----------------------------------------------------------------------------
(* What waits: a packet in the ARP table, a datagram in the list of those   *)
(* to be reassembled, a client without an address though server and network *)
(* are back.  They are numbered alike.                                      *)
StillWaits(x) ==
    \/ part = "arp" /\ x \in Packets /\ ref[x] > 0
    \/ part = "reass" /\ Find(Queue, x) # {}
    \/ part = "dhcp" /\ x = 1 /\ calm /\ dhcp.state \notin {"DHCP_OFF", "DHCP_BOUND"}

(* Nothing waits for ever.  A packet whose host does not answer goes, for a *)
(* new request does not make its entry young again (etharp.c:209-233,       *)
(* 984-1007); so does a datagram of which a fragment is lost, for fragments *)
(* that come do not (ip_frag.c:122-146); and the DHCP client is bound,      *)
(* whatever state the bad network left it in (dhcp.c:398-453).              *)
NothingWaitsForEver == \A x \in Packets \cup Datagrams :
     StillWaits(x) ~> ~StillWaits(x)
=============================================================================
