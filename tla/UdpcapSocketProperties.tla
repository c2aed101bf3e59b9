----------------------- MODULE UdpcapSocketProperties -----------------------
(***************************************************************************)
(* What UdpcapSocket promises: its invariants, what a step may never do,   *)
(* and what has to happen.                                                 *)
(***************************************************************************)
EXTENDS UdpcapSocket

BufferSizesInUse == {DefaultSize} \cup {s \in BufferSizes : s >= MAX_PACKET_SIZE}

BoundAddresses == BindAddresses \cup {Invalid}
BoundPorts == Ports \cup {0}

Filters == [installed : BOOLEAN, notFrom : {NoMac} \cup {Mac[d] : d \in Devices},
            port : BoundPorts, unicast : SUBSET BoundAddresses, groups : SUBSET Groups]

ListsHolders == {"receiver", "controller"}

SocketTypes ==
  /\ is_valid_ \in BOOLEAN /\ bound_state_ \in BOOLEAN
  /\ bound_address_ \in BoundAddresses /\ bound_port_ \in BoundPorts
  /\ receive_buffer_size_ \in {-1} \cup BufferSizesInUse
  /\ pcap_devices_closed_ \in BOOLEAN
  /\ pcap_devices_ \in Seq(Handles)

GroupTypes ==
  /\ multicast_groups_ \in SUBSET Groups
  /\ multicast_loopback_enabled_ \in BOOLEAN
  /\ kickstarted \in SUBSET Groups

LockTypes ==
  /\ listsReaders \in SUBSET ListsHolders
  /\ listsWriter \in BOOLEAN
  /\ callbackOwner \in {"none"} \cup ListsHolders

NpcapTypes ==
  /\ live \in SUBSET Handles
  /\ device \in [Handles -> Devices]
  /\ filter \in [Handles -> Filters]
  /\ buffer_size \in [Handles -> BufferSizesInUse]
  /\ queue \in [Handles -> Seq(Packets)]
  /\ event \in [Handles -> BOOLEAN]

ReceiverTypes ==
  /\ rpc \in {"idle", "lock", "loop", "poll", "wait"}
  /\ timeout \in Timeouts \cup {"zero"}
  /\ next_dev \in Nat \ {0} /\ received_any_data \in BOOLEAN
  /\ error \in Errors
  /\ datagram \in Packets \cup {NoDatagram}
  /\ aborted \in BOOLEAN

ControllerTypes ==
  /\ cpc \in {"idle", "open", "filter", "lock_callback", "pcap_close", "clear", "reset"}
  /\ call \in {"none", "bind", "join", "leave", "loopback", "close"}
  /\ to_open \in Seq(Devices) /\ to_visit \in Seq(Handles)
  /\ to_bind \in [address : BoundAddresses, port : BoundPorts]

\* Types.  A buffer size below one packet is never taken over.
TypeOK ==
  SocketTypes /\ GroupTypes /\ LockTypes /\ NpcapTypes /\ ReceiverTypes /\ ControllerTypes

-----------------------------------------------------------------------------
(* Handles: two mutexes against use after pcap_close *)

\* While receiveDatagram polls it holds the callback mutex on an open, bound
\* socket, and every handle it may pass to pcap_next_ex is open: close cannot
\* invalidate a handle, or the packet bytes being copied, under the receiver.
PolledHandlesAreOpen ==
  rpc = "poll" =>
    /\ callbackOwner = "receiver"
    /\ bound_state_ /\ ~pcap_devices_closed_
    /\ Listed \subseteq live

\* Every open handle is listed exactly once, so that close() closes each of
\* them, once: nothing leaks and nothing is closed twice, not even the handles a
\* failed bind left behind, and not when close() overlaps a receive.
OpenHandlesAreTracked ==
  /\ cpc \notin {"pcap_close", "clear"} => Listed = live
  /\ cpc = "pcap_close" => Range(to_visit) = live
  /\ cpc = "clear" => live = {}
  /\ cpc = "filter" => Range(to_visit) \subseteq live
  /\ IsInjective(pcap_devices_)

\* A receiver that has the lists in read mode, in particular one that sits in
\* WaitForMultipleObjects on the array inside pcap_win32_handles_, keeps the lists
\* it started with: close() clears them only after it has left.
ListsStayUnderReceiver ==
  [][(rpc \in {"loop", "poll", "wait"}) => UNCHANGED pcap_devices_]_vars

-----------------------------------------------------------------------------
(* Waiting *)

\* The receiver never waits on a handle that holds a captured packet unless that
\* handle's event is set: events are reset while packets remain queued, so the
\* code has to have seen every queue empty before it waits.
NoLostWakeup ==
  rpc = "wait" => \A h \in Waited : queue[h] # <<>> => event[h]

\* A thread that cannot go on before another one, or the network, has moved.
ReceiverBlocked ==
  \/ rpc = "lock" /\ listsWriter
  \/ rpc = "loop" /\ callbackOwner = "controller"
  \/ rpc = "wait" /\ pcap_devices_ # <<>> /\ Waited \subseteq live
ControllerBlocked ==
  \/ cpc = "lock_callback" /\ callbackOwner # "none"
  \/ cpc = "clear" /\ listsReaders # {}

\* A close() that waits, for the callback mutex or for the lists in write mode, waits
\* for a receiver that can go on: also one without a timeout, as by then every handle
\* it may be waiting on is closed.
NoDeadlock == ~(ReceiverBlocked /\ ControllerBlocked)

-----------------------------------------------------------------------------
(* Why the properties of handles and waiting hold: an inductive invariant. *)

\* Who holds which mutex follows from where the two threads are.
MutexOwners ==
  /\ "receiver" \in listsReaders <=> rpc \in {"loop", "poll", "wait"}
  /\ "controller" \in listsReaders <=> cpc \in {"lock_callback", "pcap_close"}
  /\ callbackOwner = "receiver" <=> rpc = "poll"
  /\ callbackOwner = "controller" <=> cpc = "pcap_close"

\* bind runs without a receiver, and only bind opens devices.
BindRunsAlone ==
  /\ cpc = "open" => call = "bind"
  /\ call = "bind" => cpc \in {"open", "filter"} /\ rpc = "idle"

\* From the first pcap_close on until close() returns the socket is marked closed.
ClosingIsMarked == cpc \in {"pcap_close", "clear", "reset"} => pcap_devices_closed_

\* close() has each handle to close once in front of it.
ClosesOnce == cpc = "pcap_close" => IsInjective(to_visit)

Wakes(i) == queue[pcap_devices_[i]] # <<>> => event[pcap_devices_[i]]

\* A pass that got no packet yet leaves each queue it has been at empty, or filled
\* since with the event set; BeginWait needs this of the whole list.
SeenEmpty ==
  /\ rpc = "poll" /\ ~received_any_data =>
       \A i \in 1..Len(pcap_devices_) : i < next_dev => Wakes(i)
  /\ rpc = "wait" => \A i \in 1..Len(pcap_devices_) : Wakes(i)

HandleInv ==
  /\ MutexOwners /\ BindRunsAlone /\ ClosingIsMarked
  /\ PolledHandlesAreOpen /\ OpenHandlesAreTracked /\ ClosesOnce
  /\ SeenEmpty

\* Only bind takes the lists in write mode and keeps them, a receiver does not outlast
\* the binding it waits under, what bind has looked at before it opens devices still
\* holds when it commits, and a socket has an address exactly as long as it is bound.
BindingInv ==
  /\ listsWriter => call = "bind"
  /\ rpc = "wait" => bound_state_ \/ pcap_devices_closed_
  /\ cpc = "open" =>
       is_valid_ /\ ~bound_state_ /\ to_bind.address \in BindAddresses /\ to_bind.port \in Ports
  /\ bound_state_ <=> bound_address_.valid_

-----------------------------------------------------------------------------
(* Filters, groups, buffers: what a finished call has put into force *)

Settled == cpc = "idle" /\ bound_state_

\* Between two calls each handle of a bound socket has the filter of the address,
\* port, groups and loopback switch in force, whatever calls led here: also after
\* close() and a new bind(), which keeps the groups joined before.
FiltersAreCurrent ==
  Settled => \A h \in Listed : filter[h] = WantedFilter(h, Mac[device[h]])

\* Between two calls no packet is queued that the filter in force would refuse:
\* nothing captured between pcap_activate and pcap_setfilter, or before a group was
\* left, can still come out of receiveDatagram.
OnlyWantedTrafficIsQueued ==
  Settled => \A h \in Listed : \A i \in 1..Len(queue[h]) :
               Captures(WantedFilter(h, Mac[device[h]]), queue[h][i])

\* What the application has asked for, of the packets that pass the device of h.
Wanted(h, p) ==
  IF IpMulticast(p.dst)
  THEN p.dst \in multicast_groups_ /\ (is_loopback_(h) => multicast_loopback_enabled_)
  ELSE bound_address_ \in {Any, Broadcast, p.dst}

\* Unless join, leave or setMulticastLoopbackEnabled is at work that moment,
\* receiveDatagram returns only what was sent to the bound address or to a joined
\* group: after leave has returned, nothing of the group comes out any more, even if
\* it had been captured before.
DeliveredIsWanted ==
  [][PollDatagram /\ cpc # "filter" => Wanted(Polled, datagram')]_vars

\* While multicast loopback is on, Windows has been made to send the traffic of
\* every joined group to localhost, in whatever order groups were joined and
\* loopback was switched.
GroupsAreKickstarted ==
  cpc = "idle" /\ multicast_loopback_enabled_ => multicast_groups_ \subseteq kickstarted

\* A datagram this host sends to a group, as handle h would see it: as an outgoing
\* frame of its adapter, or on the loopback device.
LocalCopy(h, group) ==
  [dst |-> group, sport |-> 0, dport |-> bound_port_, from |-> Mac[device[h]], fragment |-> FALSE]

Hears(h, group) == Captures(filter[h], LocalCopy(h, group))

\* "Sets whether local multicast traffic should be received": what this host sends
\* to a joined group comes in through exactly one handle while loopback is enabled,
\* although each adapter sees a copy of it, and through none otherwise; what it
\* sends to another group never comes in.
LocalMulticastArrivesOnce ==
  Settled => \A group \in Groups :
    IF group \in multicast_groups_ /\ multicast_loopback_enabled_
    THEN \E h \in Listed : \A k \in Listed : Hears(k, group) <=> k = h
    ELSE \A h \in Listed : ~Hears(h, group)

\* "The buffer size has to be set before binding the socket": what was accepted
\* by setReceiveBufferSize is the size of every handle the socket reads from.
BufferSizeIsInForce ==
  Settled /\ receive_buffer_size_ > 0 =>
    \A h \in Listed : buffer_size[h] = receive_buffer_size_

\* The devices the socket has opened, in the order of its lists.
ListensOn == [i \in 1..Len(pcap_devices_) |-> device[pcap_devices_[i]]]

\* A bound socket has opened exactly the devices bind looks up for the address it is
\* bound to, each as often as the system names it: none is left over from an earlier
\* binding, and none is missing.
ListensWhereBound == Settled => ListensOn \in DevicesToOpen(bound_address_)

-----------------------------------------------------------------------------
(* Why they hold: an inductive invariant, as far as no call into Npcap fails. *)

Closing == cpc \in {"pcap_close", "clear", "reset"}

\* A filter update leaves the right filter on each handle it has been at, and a close
\* that still waits for its first mutex has not touched them.
FiltersInv ==
  /\ bound_state_ /\ cpc \in {"idle", "lock_callback"} =>
       \A h \in Listed : filter[h] = WantedFilter(h, Mac[device[h]])
  /\ bound_state_ /\ cpc = "filter" =>
       \A h \in Listed \ Range(to_visit) : filter[h] = WantedFilter(h, Mac[device[h]])

\* Setting a filter throws the queue away, so that no handle ever holds a packet its
\* filter would refuse, whichever calls fail.
QueuesInv == \A h \in Handles : \A i \in 1..Len(queue[h]) : Captures(filter[h], queue[h][i])

\* Only a join that still has to send its kickstart is behind.
KickstartInv ==
  /\ call = "join" => cpc = "filter"
  /\ multicast_loopback_enabled_ /\ call # "join" => multicast_groups_ \subseteq kickstarted

\* What bind has opened and what it has still to open make up the list it looked up,
\* and a socket that is not bound has no handle: also after a close, not even one
\* that overlapped a receive.
DevicesInv ==
  /\ cpc = "open" => ListensOn \o to_open \in DevicesToOpen(to_bind.address)
  /\ bound_state_ /\ ~Closing => ListensOn \in DevicesToOpen(bound_address_)
  /\ (~bound_state_ /\ cpc # "open") \/ cpc = "reset" => pcap_devices_ = <<>>

\* The size may change only while there is no handle.
SizesInv == ~Closing => \A h \in Listed : buffer_size[h] = ActivatedSize

SettingsInv == FiltersInv /\ QueuesInv /\ KickstartInv /\ DevicesInv /\ SizesInv

-----------------------------------------------------------------------------
(* The promise of udpcap_socket.h *)

phase ==
  IF pcap_devices_closed_ THEN "closed"
  ELSE IF bound_state_ THEN "bound"
  ELSE "unbound"

Promise == INSTANCE UdpSocketPromise WITH
  Sources <- Handles,
  Datagrams <- Packets,
  valid <- is_valid_,
  port <- bound_port_,
  inbox <- queue,
  pending <- IF rpc = "idle" THEN "none" ELSE timeout,
  code <- error.code

\* receiveDatagram ends as its documentation says: a datagram is delivered once,
\* in the order its handle captured it, for the port bound at that moment, and only
\* while the socket is neither closed nor unbound, however close() overlaps the
\* call and whatever filter is in force.  SOCKET_CLOSED is reported only by a closed
\* socket, NOT_BOUND only by one that is neither closed nor bound, GENERIC_ERROR only
\* by a bound one, and TIMEOUT never to a caller who waits without a timeout.
ImplementsPromise == Promise!Spec

-----------------------------------------------------------------------------
(* What has to happen, once a thread inside a call runs on and time passes: *)
(* TimedFairSpec of ReceiveTimeout *)

\* Premises: what the network or the application does from some time on.
TrafficCeases    == <>[][~Capture]_vars
ReceiverRests    == <>[][~ReceiverCall]_vars
ControllerRests  == <>[][~ControllerCall]_vars

\* close() returns, even though it needs first the callback mutex and then the
\* lists in write mode from a receiver that may be blocked without a timeout.  No
\* mutex is assumed to be fair, so the receiver must run out of things to do; one
\* without any adapter never does, as it has nothing to wait on.
CloseReturns ==
  TrafficCeases /\ ReceiverRests =>
    (cpc = "lock_callback" /\ pcap_devices_ # <<>> ~> cpc = "idle")

\* Once close() has closed the handles, a receive that is still pending returns,
\* also one that waits without a timeout.
ReceiveReturnsOnClose ==
  cpc = "clear" /\ rpc # "idle" ~> rpc = "idle"

\* A datagram for the socket does not stay in the queue of a handle while a
\* receive is pending: the call wakes up, and goes on reading past packets that
\* are none of the socket's, until it has returned.
Deliverable ==
  \E h \in Waited : \E i \in 1..Len(queue[h]) : Delivers(h, queue[h][i])
DatagramEndsWait ==
  Deliverable /\ rpc # "idle" ~> ~Deliverable \/ rpc = "idle"
=============================================================================
