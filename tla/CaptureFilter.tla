--------------------------- MODULE CaptureFilter ---------------------------
(***************************************************************************)
(* The kernel filter of one capture handle: what createFilterString asks   *)
(* for, and which packets Npcap captures under it.                         *)
(*                                                                         *)
(* A filter is the record of the choices the string encodes, a packet the  *)
(* record of the header fields the string tests:                           *)
(*   dst             destination address                                   *)
(*   sport, dport    UDP ports                                             *)
(*   from            source MAC, NoMac where there is no Ethernet header   *)
(*   fragment        one piece of a fragmented IPv4 datagram               *)
(***************************************************************************)
EXTENDS HostAddress

NoMac == "no MAC"

\* A handle on which no filter has been set yet captures everything.
NoFilter == [installed |-> FALSE, notFrom |-> NoMac, port |-> 0,
             unicast |-> {}, groups |-> {}]

\* The unicast destinations "ip dst ..." asks for; {} asks for none in particular.
UnicastClause(bound_address_) ==
  IF bound_address_ \in {Any, Broadcast} THEN {} ELSE {bound_address_}

\* The groups of the "ip multicast and (dst ... or dst ...)" clause; {} leaves it out.
MulticastClause(is_loopback_, multicast_groups_, multicast_loopback_enabled_) ==
  IF ~is_loopback_ \/ multicast_loopback_enabled_ THEN multicast_groups_ ELSE {}

MUTANT_HearsOwnFrames(is_loopback_, mac, bound_address_, bound_port_, groups_, loopback_enabled_) ==
  [installed |-> TRUE, notFrom |-> NoMac, port |-> bound_port_,
   unicast |-> UnicastClause(bound_address_),
   groups |-> MulticastClause(is_loopback_, groups_, loopback_enabled_)]

\* mac is what getMac read, NoMac when it could not.
createFilterString(is_loopback_, mac, bound_address_, bound_port_, groups_, loopback_enabled_) ==
  [installed |-> TRUE,
   notFrom   |-> IF is_loopback_ THEN NoMac ELSE mac,
   port      |-> bound_port_,
   unicast   |-> UnicastClause(bound_address_),
   groups    |-> MulticastClause(is_loopback_, groups_, loopback_enabled_)]

-----------------------------------------------------------------------------
(* The filter language, external: "ip multicast" is libpcap's test of the  *)
(* first destination octet against 224, with no upper limit.               *)

IpMulticast(a) == a.ipv4_[1] >= 224

Captures(f, p) ==
  f.installed =>
    /\ f.notFrom = NoMac \/ p.from # f.notFrom
    /\ f.port \in {p.sport, p.dport} \/ p.fragment
    /\ IF IpMulticast(p.dst)
       THEN p.dst \in f.groups
       ELSE f.unicast = {} \/ p.dst \in f.unicast
=============================================================================
