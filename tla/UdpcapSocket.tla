---------------------------- MODULE UdpcapSocket ----------------------------
(***************************************************************************)
(* UdpcapSocketPrivate: one UDP socket on top of a list of Npcap capture   *)
(* handles.                                                                *)
(*                                                                         *)
(* Two threads use it, as the thread contract of udpcap_socket.h allows:   *)
(*   receiver    calls receiveDatagram, again and again                    *)
(*   controller  calls everything else.  close, joinMulticastGroup,        *)
(*               leaveMulticastGroup and setMulticastLoopbackEnabled may   *)
(*               overlap a receive, bind and setReceiveBufferSize may not. *)
(* The third party is Npcap and the network: packets arrive at any time,   *)
(* and a call into the library may fail.                                   *)
(*                                                                         *)
(* An action is one step between two points where another thread can be    *)
(* observed: taking or releasing a mutex, one call into Npcap, one wait.   *)
(* A call that returns early without changing anything is a stutter.       *)
(* Names are those of the source; operators that begin with MUTANT_ are    *)
(* plausible bugs, used only to show that a property can fail.             *)
(***************************************************************************)
EXTENDS CaptureFilter, Integers, Sequences, Functions

CONSTANTS
  Handles,         \* pcap_t objects pcap_create may return
  DeviceList,      \* device names, in the order of pcap_findalldevs
  Loopback,        \* the device GetLoopbackDeviceName names
  LoopbackDevices, \* the devices IsLoopbackDevice says yes to
  AddressesOf,     \* [Devices -> SUBSET Addresses]
  LinkType,        \* [Devices -> link types], what pcap_datalink says
  Mac,             \* [Devices -> MACs]
  Traffic,         \* [Devices -> sets of packets] that may pass a device
  BindAddresses,   \* addresses the application passes to bind
  Ports,           \* ports the application passes to bind
  Groups,          \* groups the application passes to join and leave
  BufferSizes,     \* sizes the application passes to setReceiveBufferSize
  DefaultSize,     \* Npcap's own buffer size
  PacketsIn,       \* [sizes -> Nat], how many packets a buffer of a size holds
  MAXIMUM_WAIT_OBJECTS, \* most handles one WaitForMultipleObjects accepts
  Timeouts,        \* subset of {"forever", "zero", "finite"}
  Faults           \* subset of {"open", "filter", "poll", "kickstart", "mac"}

Devices == Range(DeviceList)

ASSUME DevicesAssumption ==
  /\ DeviceList \in Seq(Devices)
  /\ Loopback \in Devices
  /\ AddressesOf \in [Devices -> SUBSET Addresses]

ASSUME AddressesAssumption ==
  /\ BindAddresses \subseteq Addresses
  /\ \A a \in BindAddresses : a.valid_
  /\ Groups \subseteq Addresses
  /\ \A a \in Groups : isMulticast(a)

ASSUME CallsAssumption ==
  /\ Ports \subseteq 0..65535
  /\ BufferSizes \subseteq Int

ASSUME TimeoutsAssumption == Timeouts \subseteq {"forever", "zero", "finite"}

ASSUME LimitsAssumption ==
  /\ DefaultSize \in Nat \ {0}
  /\ PacketsIn \in [BufferSizes \cup {DefaultSize} -> Nat]
  /\ MAXIMUM_WAIT_OBJECTS \in Nat \ {0}

VARIABLES
  is_valid_, bound_state_, bound_address_, bound_port_,
  multicast_groups_, multicast_loopback_enabled_, receive_buffer_size_,
  pcap_devices_closed_,
  pcap_devices_,    \* the three lists pcap_devices_, pcap_win32_handles_ and
                    \* pcap_devices_ip_reassembly_, filled and cleared together
  \* the two mutexes
  listsReaders,     \* threads that hold pcap_devices_lists_mutex_ in read mode
  listsWriter,      \* bind or close holds it in write mode
  callbackOwner,    \* who holds pcap_devices_callback_mutex_
  \* Npcap, per handle
  live,             \* handles created and not yet closed
  device, filter, buffer_size,
  queue,            \* captured packets pcap_next_ex has not returned yet
  event,            \* the Win32 event of pcap_getevent
  kickstarted,      \* groups whose traffic Windows also sends to localhost
  \* the receiver
  rpc, timeout, next_dev, received_any_data,
  error,            \* the application's Error object
  datagram,         \* the packet copied to the application, or NoDatagram
  aborted,          \* the process has dereferenced a null pointer
  \* the controller
  cpc, call, to_open, to_visit, to_bind

socketVars == <<is_valid_, bound_state_, bound_address_, bound_port_,
                receive_buffer_size_, pcap_devices_closed_, pcap_devices_>>
groupVars  == <<multicast_groups_, multicast_loopback_enabled_, kickstarted>>
npcapVars  == <<live, device, filter, buffer_size, queue, event>>
lockVars   == <<listsReaders, listsWriter, callbackOwner>>
receiverVars == <<rpc, timeout, next_dev, received_any_data, error, datagram, aborted>>
controllerVars == <<cpc, call, to_open, to_visit, to_bind>>
vars == <<socketVars, groupVars, npcapVars, lockVars, receiverVars, controllerVars>>


-----------------------------------------------------------------------------
(* Values *)

MAX_PACKET_SIZE == 65536

Codes == {"OK", "GENERIC_ERROR", "NPCAP_NOT_INITIALIZED", "NOT_BOUND",
          "TIMEOUT", "SOCKET_CLOSED"}
Errors == [code : Codes, message : {"none", "pcap_geterr"}]
NoDatagram == [dst |-> Invalid, sport |-> 0, dport |-> 0, from |-> NoMac, fragment |-> FALSE]
NoBind == [address |-> Invalid, port |-> 0]

Packets == UNION {Traffic[d] : d \in Devices}

Listed == Range(pcap_devices_)

\* The handles WaitForMultipleObjects is given, the list cut to its limit.
Waited == {pcap_devices_[i] : i \in {j \in 1..Len(pcap_devices_) : j <= MAXIMUM_WAIT_OBJECTS}}

is_loopback_(h) == device[h] \in LoopbackDevices

\* What the filter of h has to be for the state the socket is in.
WantedFilter(h, mac) ==
  createFilterString(is_loopback_(h), mac, bound_address_, bound_port_,
                     multicast_groups_, multicast_loopback_enabled_)

Init ==
  /\ is_valid_ \in BOOLEAN
  /\ bound_state_ = FALSE
  /\ bound_address_ = Invalid
  /\ bound_port_ = 0
  /\ multicast_groups_ = {}
  /\ multicast_loopback_enabled_ = TRUE
  /\ receive_buffer_size_ = -1
  /\ pcap_devices_closed_ = FALSE
  /\ pcap_devices_ = <<>>
  /\ listsReaders = {} /\ listsWriter = FALSE /\ callbackOwner = "none"
  /\ live = {}
  /\ device = [h \in Handles |-> Loopback]
  /\ filter = [h \in Handles |-> NoFilter]
  /\ buffer_size = [h \in Handles |-> DefaultSize]
  /\ queue = [h \in Handles |-> <<>>]
  /\ event = [h \in Handles |-> FALSE]
  /\ kickstarted = {}
  /\ rpc = "idle" /\ timeout = "zero" /\ next_dev = 1 /\ received_any_data = FALSE
  /\ error = [code |-> "OK", message |-> "none"]
  /\ datagram = NoDatagram
  /\ aborted = FALSE
  /\ cpc = "idle" /\ call = "none" /\ to_open = <<>> /\ to_visit = <<>> /\ to_bind = NoBind

-----------------------------------------------------------------------------
(* The controller: bind *)

HasAddress(i, ip) == DeviceList[i] \notin LoopbackDevices /\ ip \in AddressesOf[DeviceList[i]]

\* getDeviceByIp: the first adapter that has the address, never a loopback one.
DevicesByIp(ip) ==
  {DeviceList[i] : i \in {k \in 1..Len(DeviceList) :
     HasAddress(k, ip) /\ \A j \in 1..(k - 1) : ~HasAddress(j, ip)}}

\* What bind opens, in order: one list of devices, or none when it finds no device.
DevicesToOpen(address) ==
  IF isLoopback(address) THEN {<<Loopback>>}
  ELSE IF address = Any THEN {DeviceList} \ {<<>>}
  ELSE {<<d, Loopback>> : d \in DevicesByIp(address)}

\* Bound to Any, a device that cannot be opened is passed over; else bind fails.
BindMayMiss(address) == ~isLoopback(address) /\ address = Any

Bind(address, port) ==
  /\ cpc = "idle" /\ rpc = "idle"
  /\ is_valid_ /\ ~bound_state_ /\ address.valid_
  /\ ~listsWriter /\ listsReaders = {}
  /\ listsWriter' = TRUE
  /\ cpc' = "open"
  /\ call' = "bind"
  /\ to_open' \in DevicesToOpen(address)
  /\ to_bind' = [address |-> address, port |-> port]
  /\ UNCHANGED <<socketVars, groupVars, npcapVars, listsReaders, callbackOwner,
                 receiverVars, to_visit>>

MUTANT_SizeOffByOne ==
  IF receive_buffer_size_ > MAX_PACKET_SIZE THEN receive_buffer_size_ ELSE DefaultSize

\* The buffer size a handle is activated with.
ActivatedSize == IF receive_buffer_size_ > 0 THEN receive_buffer_size_ ELSE DefaultSize

\* openPcapDevice_nolock
OpenPcapDevice(h) ==
  /\ cpc = "open" /\ to_open # <<>>
  /\ h \notin live
  /\ live' = live \cup {h}
  /\ device' = [device EXCEPT ![h] = Head(to_open)]
  /\ filter' = [filter EXCEPT ![h] = NoFilter]
  /\ buffer_size' = [buffer_size EXCEPT ![h] = ActivatedSize]
  /\ queue' = [queue EXCEPT ![h] = <<>>]
  /\ event' = [event EXCEPT ![h] = FALSE]
  /\ pcap_devices_' = Append(pcap_devices_, h)
  /\ to_open' = Tail(to_open)
  /\ UNCHANGED <<is_valid_, bound_state_, bound_address_, bound_port_,
                 receive_buffer_size_, pcap_devices_closed_, groupVars, lockVars,
                 receiverVars, cpc, call, to_visit, to_bind>>

\* pcap_create or pcap_activate fails.  When bind gives up, the handles it has
\* opened so far stay open and listed.
OpenPcapDeviceFails ==
  /\ cpc = "open" /\ to_open # <<>>
  /\ "open" \in Faults \/ live = Handles
  /\ IF BindMayMiss(to_bind.address)
     THEN /\ to_open' = Tail(to_open)
          /\ UNCHANGED <<lockVars, cpc, call, to_bind>>
     ELSE /\ to_open' = <<>>
          /\ listsWriter' = FALSE
          /\ cpc' = "idle" /\ call' = "none" /\ to_bind' = NoBind
          /\ UNCHANGED <<listsReaders, callbackOwner>>
  /\ UNCHANGED <<socketVars, groupVars, npcapVars, receiverVars, to_visit>>

BindCommit ==
  /\ cpc = "open" /\ to_open = <<>>
  /\ bound_address_' = to_bind.address
  /\ bound_port_' = to_bind.port
  /\ bound_state_' = TRUE
  /\ pcap_devices_closed_' = FALSE
  /\ cpc' = "filter"
  /\ to_visit' = pcap_devices_
  /\ to_bind' = NoBind
  /\ UNCHANGED <<is_valid_, receive_buffer_size_, pcap_devices_, groupVars, npcapVars,
                 lockVars, receiverVars, call, to_open>>

-----------------------------------------------------------------------------
(* The controller: capture filters *)

\* updateCaptureFilter.  Errors are printed and ignored.  pcap_setfilter throws
\* away what was captured under the old filter.  Handles that a failed bind left on
\* an unbound socket keep theirs: "ip dst" without an address does not compile.
UpdateCaptureFilter ==
  /\ cpc = "filter" /\ to_visit # <<>>
  /\ LET h == Head(to_visit)
     IN  \/ /\ bound_address_.valid_
            /\ \E mac \in {Mac[device[h]]} \cup (IF "mac" \in Faults THEN {NoMac} ELSE {}) :
                 filter' = [filter EXCEPT ![h] = WantedFilter(h, mac)]
            /\ queue' = [queue EXCEPT ![h] = <<>>]
         \/ /\ "filter" \in Faults \/ ~bound_address_.valid_
            /\ UNCHANGED <<filter, queue>>
  /\ to_visit' = Tail(to_visit)
  /\ UNCHANGED <<socketVars, groupVars, live, device, buffer_size, event, lockVars,
                 receiverVars, cpc, call, to_open, to_bind>>

\* kickstartLoopbackMulticast: every step of it may fail silently.
KickstartLoopbackMulticast(groups) ==
  IF "kickstart" \in Faults
  THEN \E sent \in SUBSET groups : kickstarted' = kickstarted \cup sent
  ELSE kickstarted' = kickstarted \cup groups

\* The last filter is set: bind unlocks the lists, join goes on to the kickstart.
FiltersUpdated ==
  /\ cpc = "filter" /\ to_visit = <<>>
  /\ IF call = "join" /\ multicast_loopback_enabled_
     THEN KickstartLoopbackMulticast(multicast_groups_)
     ELSE UNCHANGED kickstarted
  /\ listsWriter' = FALSE
  /\ cpc' = "idle" /\ call' = "none"
  /\ UNCHANGED <<socketVars, multicast_groups_, multicast_loopback_enabled_, npcapVars,
                 listsReaders, callbackOwner, receiverVars, to_open, to_visit, to_bind>>

-----------------------------------------------------------------------------
(* The controller: multicast *)

MUTANT_SkipsOneFilter == IF pcap_devices_ = <<>> THEN <<>> ELSE Tail(pcap_devices_)

\* What updateAllCaptureFilters walks over.
FiltersToUpdate == pcap_devices_

UpdateAllCaptureFilters(caller) ==
  /\ cpc' = "filter" /\ call' = caller
  /\ to_visit' = FiltersToUpdate
  /\ UNCHANGED <<to_open, to_bind>>

JoinMulticastGroup(group) ==
  /\ cpc = "idle"
  /\ is_valid_ /\ group.valid_ /\ isMulticast(group) /\ bound_state_
  /\ group \notin multicast_groups_
  /\ multicast_groups_' = multicast_groups_ \cup {group}
  /\ UpdateAllCaptureFilters("join")
  /\ UNCHANGED <<socketVars, multicast_loopback_enabled_, kickstarted, npcapVars,
                 lockVars, receiverVars>>

\* Unlike join, leave does not look at bound_state_.
LeaveMulticastGroup(group) ==
  /\ cpc = "idle"
  /\ is_valid_ /\ group.valid_
  /\ group \in multicast_groups_
  /\ multicast_groups_' = multicast_groups_ \ {group}
  /\ UpdateAllCaptureFilters("leave")
  /\ UNCHANGED <<socketVars, multicast_loopback_enabled_, kickstarted, npcapVars,
                 lockVars, receiverVars>>

MUTANT_NoKickstartOnEnable == UNCHANGED kickstarted

KickstartOnEnable == KickstartLoopbackMulticast(multicast_groups_)

SetMulticastLoopbackEnabled(enabled) ==
  /\ cpc = "idle"
  /\ multicast_loopback_enabled_ # enabled
  /\ multicast_loopback_enabled_' = enabled
  /\ IF enabled
     THEN KickstartOnEnable
     ELSE UNCHANGED kickstarted
  /\ UpdateAllCaptureFilters("loopback")
  /\ UNCHANGED <<socketVars, multicast_groups_, npcapVars, lockVars, receiverVars>>

MUTANT_AcceptsSmallSizes(size) == size > 0

Acceptable(size) == size >= MAX_PACKET_SIZE

SetReceiveBufferSize(size) ==
  /\ cpc = "idle" /\ rpc = "idle"
  /\ is_valid_ /\ ~bound_state_ /\ Acceptable(size)
  /\ receive_buffer_size_' = size
  /\ UNCHANGED <<is_valid_, bound_state_, bound_address_, bound_port_,
                 pcap_devices_closed_, pcap_devices_, groupVars, npcapVars, lockVars,
                 receiverVars, controllerVars>>

-----------------------------------------------------------------------------
(* The controller: close, also run by the destructor *)

Close ==
  /\ cpc = "idle"
  /\ ~listsWriter
  /\ listsReaders' = listsReaders \cup {"controller"}
  /\ cpc' = "lock_callback" /\ call' = "close"
  /\ UNCHANGED <<socketVars, groupVars, npcapVars, listsWriter, callbackOwner,
                 receiverVars, to_open, to_visit, to_bind>>

MUTANT_CloseTakesNoCallbackMutex == TRUE
MUTANT_ClosesOnlyOnce == IF pcap_devices_closed_ THEN <<>> ELSE pcap_devices_

CallbackMutexFree == callbackOwner = "none"
HandlesToClose == pcap_devices_

MarkClosed ==
  /\ cpc = "lock_callback"
  /\ CallbackMutexFree
  /\ callbackOwner' = "controller"
  /\ pcap_devices_closed_' = TRUE
  /\ cpc' = "pcap_close"
  /\ to_visit' = HandlesToClose
  /\ UNCHANGED <<is_valid_, bound_state_, bound_address_, bound_port_,
                 receive_buffer_size_, pcap_devices_, groupVars, npcapVars,
                 listsReaders, listsWriter, receiverVars, call, to_open, to_bind>>

PcapClose ==
  /\ cpc = "pcap_close" /\ to_visit # <<>>
  /\ LET h == Head(to_visit)
     IN  /\ live' = live \ {h}
         /\ device' = [device EXCEPT ![h] = Loopback]
         /\ filter' = [filter EXCEPT ![h] = NoFilter]
         /\ buffer_size' = [buffer_size EXCEPT ![h] = DefaultSize]
         /\ queue' = [queue EXCEPT ![h] = <<>>]
         /\ event' = [event EXCEPT ![h] = FALSE]
  /\ to_visit' = Tail(to_visit)
  /\ UNCHANGED <<socketVars, groupVars, lockVars, receiverVars, cpc, call, to_open, to_bind>>

MUTANT_KeepsReadLock == listsReaders
MUTANT_KeepsCallbackMutex == callbackOwner

ReadersAfterClosing == listsReaders \ {"controller"}
OwnerAfterClosing == "none"

\* The last handle is closed: both mutexes are released.
HandlesClosed ==
  /\ cpc = "pcap_close" /\ to_visit = <<>>
  /\ callbackOwner' = OwnerAfterClosing
  /\ listsReaders' = ReadersAfterClosing
  /\ cpc' = "clear"
  /\ UNCHANGED <<socketVars, groupVars, npcapVars, listsWriter, receiverVars, call,
                 to_open, to_visit, to_bind>>

MUTANT_ClearsUnderReaders == TRUE
MUTANT_KeepsLists == pcap_devices_

ListsUnread == listsReaders = {}
ClearedLists == <<>>

\* Nothing else can be seen while close holds the lists in write mode.
ClearLists ==
  /\ cpc = "clear"
  /\ ListsUnread
  /\ pcap_devices_' = ClearedLists
  /\ cpc' = "reset"
  /\ UNCHANGED <<is_valid_, bound_state_, bound_address_, bound_port_,
                 receive_buffer_size_, pcap_devices_closed_, groupVars, npcapVars,
                 lockVars, receiverVars, call, to_open, to_visit, to_bind>>

\* The groups stay joined.  No mutex is held here.
ResetBinding ==
  /\ cpc = "reset"
  /\ bound_state_' = FALSE
  /\ bound_port_' = 0
  /\ bound_address_' = Invalid
  /\ cpc' = "idle" /\ call' = "none"
  /\ UNCHANGED <<is_valid_, receive_buffer_size_, pcap_devices_closed_, pcap_devices_,
                 groupVars, npcapVars, lockVars, receiverVars, to_open, to_visit, to_bind>>

-----------------------------------------------------------------------------
(* The receiver: receiveDatagram *)

Plain(code) == [error EXCEPT !.code = code]  \* Error::operator=(ErrorCode)

\* Leave receiveDatagram: its locals and its shared lock on the lists go.
Return(e) ==
  /\ rpc' = "idle"
  /\ timeout' = "zero" /\ next_dev' = 1 /\ received_any_data' = FALSE
  /\ listsReaders' = listsReaders \ {"receiver"}
  /\ error' = e
  /\ UNCHANGED <<listsWriter, aborted>>

OutsideBind == call # "bind"

ReceiveDatagram(t) ==
  /\ rpc = "idle" /\ OutsideBind
  /\ datagram' = NoDatagram
  /\ IF is_valid_
     THEN /\ rpc' = "lock" /\ timeout' = t
          /\ UNCHANGED error
     ELSE /\ error' = Plain("NPCAP_NOT_INITIALIZED")
          /\ UNCHANGED <<rpc, timeout>>
  /\ UNCHANGED <<socketVars, groupVars, npcapVars, lockVars, controllerVars,
                 next_dev, received_any_data, aborted>>

ReceiveLockLists ==
  /\ rpc = "lock"
  /\ ~listsWriter
  /\ listsReaders' = listsReaders \cup {"receiver"}
  /\ rpc' = "loop"
  /\ UNCHANGED <<socketVars, groupVars, npcapVars, controllerVars, listsWriter,
                 callbackOwner, timeout, next_dev, received_any_data, error, datagram,
                 aborted>>

ReceiveClosed ==
  /\ rpc = "loop" /\ callbackOwner = "none"
  /\ pcap_devices_closed_
  /\ Return(Plain("SOCKET_CLOSED"))
  /\ UNCHANGED <<socketVars, groupVars, npcapVars, controllerVars, callbackOwner, datagram>>

MUTANT_NotBoundBeforeClosed == ~bound_state_
MUTANT_IgnoresClosed == bound_state_
MUTANT_PollsUnbound == ~pcap_devices_closed_

NotYetBound == ~pcap_devices_closed_ /\ ~bound_state_
MayPoll == ~pcap_devices_closed_ /\ bound_state_

ReceiveNotBound ==
  /\ rpc = "loop" /\ callbackOwner = "none"
  /\ NotYetBound
  /\ Return(Plain("NOT_BOUND"))
  /\ UNCHANGED <<socketVars, groupVars, npcapVars, controllerVars, callbackOwner, datagram>>

MUTANT_StartsAtTheSecond == 2

FirstDevice == 1

StartPass ==
  /\ rpc = "loop" /\ callbackOwner = "none"
  /\ MayPoll
  /\ callbackOwner' = "receiver"
  /\ rpc' = "poll" /\ next_dev' = FirstDevice /\ received_any_data' = FALSE
  /\ UNCHANGED <<socketVars, groupVars, npcapVars, controllerVars, listsReaders,
                 listsWriter, timeout, error, datagram, aborted>>

(* One device of the pass: pcap_next_ex, then the packet handler. *)

Polled == pcap_devices_[next_dev]
Polling == rpc = "poll" /\ next_dev <= Len(pcap_devices_)

\* The link type CallbackArgsRawPtr is built with, for every device.
link_type_ == "LINKTYPE_NULL"

\* Whether PcapPlusPlus finds an IPv4 layer in a packet of handle h: only when
\* it is told the link type the device really has.
HasIpLayer(h) == LinkType[device[h]] = link_type_

MUTANT_EitherPort(p) == bound_port_ \in {p.sport, p.dport}

\* FillCallbackArgsRawPtr takes the datagram.
IsForBoundPort(p) == p.dport = bound_port_

Delivers(h, p) == HasIpLayer(h) /\ ~p.fragment /\ IsForBoundPort(p)
Crashes(h, p)  == HasIpLayer(h) /\ p.fragment

NextDevice == next_dev' = next_dev + 1

PollEmpty ==
  /\ Polling /\ queue[Polled] = <<>>
  /\ NextDevice
  /\ UNCHANGED <<socketVars, groupVars, npcapVars, controllerVars, lockVars, rpc,
                 timeout, received_any_data, error, datagram, aborted>>

PollDatagram ==
  /\ Polling /\ queue[Polled] # <<>>
  /\ Delivers(Polled, Head(queue[Polled]))
  /\ queue' = [queue EXCEPT ![Polled] = Tail(@)]
  /\ datagram' = Head(queue[Polled])
  /\ callbackOwner' = "none"
  /\ Return(Plain("OK"))
  /\ UNCHANGED <<socketVars, groupVars, live, device, filter, buffer_size, event,
                 controllerVars>>

\* A packet for another port, or one PcapPlusPlus could make no sense of.
PollDiscard ==
  /\ Polling /\ queue[Polled] # <<>>
  /\ ~Delivers(Polled, Head(queue[Polled])) /\ ~Crashes(Polled, Head(queue[Polled]))
  /\ queue' = [queue EXCEPT ![Polled] = Tail(@)]
  /\ received_any_data' = TRUE
  /\ NextDevice
  /\ UNCHANGED <<socketVars, groupVars, live, device, filter, buffer_size, event,
                 controllerVars, lockVars, rpc, timeout, error, datagram, aborted>>

\* ip_reassembly_ of the callback arguments is a null pointer.
PollFragment ==
  /\ Polling /\ queue[Polled] # <<>>
  /\ Crashes(Polled, Head(queue[Polled]))
  /\ aborted' = TRUE
  /\ UNCHANGED <<socketVars, groupVars, npcapVars, controllerVars, lockVars, rpc,
                 timeout, next_dev, received_any_data, error, datagram>>

PollError ==
  /\ Polling /\ "poll" \in Faults
  /\ callbackOwner' = "none"
  /\ Return([code |-> "GENERIC_ERROR", message |-> "pcap_geterr"])
  /\ UNCHANGED <<socketVars, groupVars, npcapVars, controllerVars, datagram>>

(* The end of the pass: the callback mutex is released, and only a pass that *)
(* got no packet at all looks at the clock and waits.                        *)

EndOfPass == rpc = "poll" /\ next_dev > Len(pcap_devices_)

MUTANT_WaitsAfterEveryPass == TRUE
NothingReceived == ~received_any_data

NextPass ==
  /\ EndOfPass /\ ~NothingReceived
  /\ callbackOwner' = "none"
  /\ rpc' = "loop"
  /\ UNCHANGED <<socketVars, groupVars, npcapVars, controllerVars, listsReaders,
                 listsWriter, timeout, next_dev, received_any_data, error, datagram, aborted>>

Waits(t) == t # "zero"

MayTimeOut(t) == t # "forever"

OutOfTime ==
  /\ EndOfPass /\ NothingReceived
  /\ MayTimeOut(timeout)
  /\ callbackOwner' = "none"
  /\ Return(Plain("TIMEOUT"))
  /\ UNCHANGED <<socketVars, groupVars, npcapVars, controllerVars, datagram>>

BeginWait ==
  /\ EndOfPass /\ NothingReceived
  /\ Waits(timeout)
  /\ callbackOwner' = "none"
  /\ rpc' = "wait"
  /\ UNCHANGED <<socketVars, groupVars, npcapVars, controllerVars, listsReaders,
                 listsWriter, timeout, next_dev, received_any_data, error, datagram, aborted>>

(* WaitForMultipleObjects, on handles close may be closing under it. *)

ContinueLoop ==
  /\ rpc' = "loop"
  /\ UNCHANGED <<socketVars, groupVars, live, device, filter, buffer_size, queue,
                 controllerVars, lockVars, timeout, next_dev, received_any_data, error,
                 datagram, aborted>>

\* Returns for the first signalled handle of the list, and resets its event.
WaitSignalled ==
  /\ rpc = "wait"
  /\ \E i \in 1..Len(pcap_devices_) :
       /\ i <= MAXIMUM_WAIT_OBJECTS /\ event[pcap_devices_[i]]
       /\ \A j \in 1..(i - 1) : ~event[pcap_devices_[j]]
       /\ event' = [event EXCEPT ![pcap_devices_[i]] = FALSE]
  /\ ContinueLoop

\* Nothing to wait on, or a handle that is closed.
WaitFailed ==
  /\ rpc = "wait"
  /\ pcap_devices_ = <<>> \/ Waited \ live # {}
  /\ UNCHANGED event
  /\ ContinueLoop

\* Only if there is something to wait on, and none of it is signalled.
WaitTimeout ==
  /\ rpc = "wait"
  /\ MayTimeOut(timeout)
  /\ pcap_devices_ # <<>>
  /\ \A h \in Waited : ~event[h]
  /\ Return(Plain("TIMEOUT"))
  /\ UNCHANGED <<socketVars, groupVars, npcapVars, controllerVars, callbackOwner, datagram>>

-----------------------------------------------------------------------------
(* Npcap captures a packet: it queues it if the buffer has room, and signals. *)

Arrive(h, p) ==
  /\ h \in live
  /\ p \in Traffic[device[h]]
  /\ Captures(filter[h], p)
  /\ Len(queue[h]) < PacketsIn[buffer_size[h]]
  /\ queue' = [queue EXCEPT ![h] = Append(@, p)]
  /\ event' = [event EXCEPT ![h] = TRUE]
  /\ UNCHANGED <<socketVars, groupVars, live, device, filter, buffer_size, lockVars,
                 receiverVars, controllerVars>>

-----------------------------------------------------------------------------
ReceiverCall == \E t \in Timeouts : ReceiveDatagram(t)

ReceiverStep ==
  \/ ReceiveLockLists \/ ReceiveClosed \/ ReceiveNotBound \/ StartPass
  \/ PollEmpty \/ PollDatagram \/ PollDiscard \/ PollFragment \/ PollError
  \/ NextPass \/ OutOfTime \/ BeginWait
  \/ WaitSignalled \/ WaitFailed \/ WaitTimeout

ControllerCall ==
  \/ \E address \in BindAddresses, port \in Ports : Bind(address, port)
  \/ \E group \in Groups : JoinMulticastGroup(group)
  \/ \E group \in Groups : LeaveMulticastGroup(group)
  \/ \E enabled \in BOOLEAN : SetMulticastLoopbackEnabled(enabled)
  \/ \E size \in BufferSizes : SetReceiveBufferSize(size)
  \/ Close

ControllerStep ==
  \/ \E h \in Handles : OpenPcapDevice(h)
  \/ OpenPcapDeviceFails \/ BindCommit
  \/ UpdateCaptureFilter \/ FiltersUpdated
  \/ MarkClosed \/ PcapClose \/ HandlesClosed \/ ClearLists \/ ResetBinding

Capture == \E h \in Handles : \E p \in Packets : Arrive(h, p)

\* After the null pointer there is no process left to take a step.
Next ==
  \/ ~aborted /\ (ReceiverCall \/ ReceiverStep \/ ControllerCall \/ ControllerStep \/ Capture)
  \/ aborted /\ UNCHANGED vars

Spec == Init /\ [][Next]_vars
=============================================================================
