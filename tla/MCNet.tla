-------------------------------- MODULE MCNet --------------------------------
(***************************************************************************)
(* Instances for TLC of the network: UDP endpoints, ping and the IP output *)
(* queue, the ARP cache, the programs that talk to a server, and the       *)
(* Ethernet driver.  They share no state here, so one of them moves in     *)
(* each behaviour: the one that part names.                                *)
(***************************************************************************)
EXTENDS Udp, Icmp, Arp, NetClients, Ethernet, TLC

Ends == {<<1, 7, 5>>, <<0, 0, 5>>}
Pkts == {<<1, 7, 5>>}
File == <<1, 2, 3, 4, 5>>
Names == {<<1>>, <<1, 2>>, <<3>>}
Long == {<<3>>}

VARIABLE part

CONSTANT Parts

vars == <<part, udVars, icVars, arVars, ncVars, ethVars>>

Init ==
    /\ part \in Parts
    /\ UdInit /\ IcInit /\ ArInit /\ NcInit /\ EthInit

\* Two endpoints that receive; and one that also sends.
UdpReceives ==
    /\ part = "udp" /\ UdNext
    /\ \A p \in UdProc : udcall'[p].op # "send"
    /\ UNCHANGED <<part, icVars, arVars, ncVars, ethVars>>

UdpSends ==
    /\ part = "udpsend" /\ UdNext
    /\ \A s \in UdSlot : s # 0 => udptab'[s].state = "free"
    /\ UNCHANGED <<part, icVars, arVars, ncVars, ethVars>>

ArpMoves == part = "arp" /\ ArNext /\ UNCHANGED <<part, udVars, icVars, ncVars, ethVars>>

\* Ping of other machines: nothing goes to the output queue.
Pings ==
    /\ part = "ping" /\ IcNext
    /\ UNCHANGED icOutVars
    /\ iccall'["netin"] = IcIdle /\ \A p \in IcProc : iccall'[p].op # "echo"
    /\ UNCHANGED <<part, udVars, arVars, ncVars, ethVars>>

\* Requests of others and of this machine: nobody waits in a slot, and no more
\* than one slot is used.
Echoes ==
    /\ part = "echo" /\ IcNext
    /\ \A p \in IcProc : iccall'[p].op \notin {"arp", "recv"} /\ icmsg'[p] = "none"
    /\ \A s \in IcSlot : s # 0 => icmptab'[s].state = "free"
    /\ UNCHANGED <<part, udVars, arVars, ncVars, ethVars>>

Transfers ==
    /\ part = "tftp" /\ NcNext
    /\ UNCHANGED <<dhVars, dnVars>>
    /\ UNCHANGED <<part, udVars, icVars, arVars, ethVars>>

\* DHCP servers send three different messages at most.
LooksUp ==
    /\ part = "lookup" /\ NcNext
    /\ Cardinality(dhnet') <= 3
    /\ UNCHANGED tfVars
    /\ UNCHANGED <<part, udVars, icVars, arVars, ethVars>>

FramesMove == part = "eth" /\ EthNext /\ UNCHANGED <<part, udVars, icVars, arVars, ncVars>>

Next ==
    \/ UdpReceives \/ UdpSends \/ ArpMoves \/ Pings \/ Echoes
    \/ Transfers \/ LooksUp \/ FramesMove

Spec == Init /\ [][Next]_vars

\* UdProc, IcProc, ArProc, NcProc and EthProc are the same processes.
Symmetry == Permutations(UdProc)

-----------------------------------------------------------------------------
(* The invariants are in the modules they are about: UdInv in Udp, IcInv   *)
(* in Icmp, ArInv in Arp, NcInv in NetClients, EthInv in Ethernet.  Where  *)
(* another module moves, an invariant is looked at as it is at the start.  *)

=============================================================================
