--------------------------- MODULE MCUdpcapSocket ---------------------------
(***************************************************************************)
(* Small instances of UdpcapSocket: one Ethernet adapter, the Npcap        *)
(* loopback adapter, one port, one multicast group, and the packets that   *)
(* tell the filters and the packet handler apart.                          *)
(***************************************************************************)
EXTENDS UdpcapSocketClaims

T == INSTANCE TLC

LoOnly  == <<"lo">>
EthLo   == <<"eth", "lo">>
LoEth   == <<"lo", "eth">>

EthIp == Address(<<10, 0, 0, 1>>)
Group == Address(<<239, 0, 0, 1>>)
OtherGroup == Address(<<224, 0, 0, 1>>)
MCGroups == {Group}
TwoGroups == {Group, OtherGroup}

MCAddressesOf == [d \in Devices |-> IF d = "eth" THEN {EthIp} ELSE {}]
MCLinkType == [d \in Devices |-> IF d = "eth" THEN "LINKTYPE_ETHERNET" ELSE "LINKTYPE_NULL"]
MCMac == [d \in Devices |-> IF d = "eth" THEN "own" ELSE NoMac]

Port == 14000
OtherPort == 5000
MCPorts == {Port}

Packet(dst, sport, dport, from) ==
  [dst |-> dst, sport |-> sport, dport |-> dport, from |-> from, fragment |-> FALSE]

\* Loopback packets: one for the socket, and one sent FROM its port number, which
\* "udp port" lets through but no socket bound to that port should get.
Unicast  == Packet(LocalHost, OtherPort, Port, NoMac)
Sent     == Packet(LocalHost, Port, OtherPort, NoMac)
Multi    == Packet(Group, OtherPort, Port, NoMac)
Fragment == [Unicast EXCEPT !.fragment = TRUE]

\* Ethernet packets.
ToEth    == Packet(EthIp, OtherPort, Port, "other")
ToAll    == Packet(Broadcast, OtherPort, Port, "other")
OwnMulti == Packet(Group, OtherPort, Port, "own")

On(eth, lo) == [d \in Devices |-> IF d = "eth" THEN eth ELSE lo]

UnicastTraffic   == On({ToEth}, {Unicast})
MixedTraffic     == On({ToEth}, {Unicast, Sent})
AllTraffic       == On({ToEth}, {Unicast, Sent, Fragment})
FaultsTraffic    == On({OwnMulti}, {Multi, Sent})
MulticastTraffic == On({OwnMulti}, {Unicast, Multi})
FragmentTraffic  == On({}, {Fragment})
BroadcastTraffic == On({ToEth, ToAll}, {Unicast})

MCPacketsIn == [s \in BufferSizes \cup {DefaultSize} |-> IF s = DefaultSize THEN 1 ELSE 2]

TwoPackets == [s \in BufferSizes \cup {DefaultSize} |-> 2]

AnyAddress    == {Any}
LocalAddress  == {LocalHost}
AnyOrEth      == {Any, EthIp}
EachAddress   == {Any, LocalHost, EthIp}

Symmetry == T!Permutations(Handles)
=============================================================================
