----------------------- MODULE UdpcapSettingsProofs -----------------------
(***************************************************************************)
(* What a finished call has put into force: filters, queues, kickstarts,   *)
(* devices and buffer sizes fit the settings of the socket, in whatever    *)
(* order the calls came.                                                   *)
(*                                                                         *)
(* updateCaptureFilter, kickstartLoopbackMulticast and a bind to Any print *)
(* what goes wrong and carry on, so that each theorem names the calls into *)
(* the system that have to succeed for it.                                 *)
(***************************************************************************)
EXTENDS UdpcapSocketProofs, SequenceTheorems, FiniteSetTheorems

\* pcap_setfilter succeeds, and the MAC of each adapter can be read.
FiltersSucceed == {"filter", "mac"} \cap Faults = {}

\* The kickstart datagram of each group is sent.
KickstartsSucceed == "kickstart" \notin Faults

\* pcap_create never runs out of handles: no list shorter than the list of devices
\* bind may have to open has all of them.
EnoughHandles ==
  \A s \in Seq(Handles) : Len(s) < 2 \/ Len(s) < Len(DeviceList) => Range(s) # Handles

\* Each device bind opens can be opened.
DevicesOpen == "open" \notin Faults /\ EnoughHandles

\* pcap_findalldevs names no device twice, IsLoopbackDevice knows the name that
\* GetLoopbackDeviceName returns, and what is not the loopback device is an adapter
\* with a MAC address.
AdaptersAreDistinct ==
  /\ IsInjective(DeviceList)
  /\ LoopbackDevices = {Loopback}
  /\ \A d \in Devices \ {Loopback} : Mac[d] # NoMac

-----------------------------------------------------------------------------
(* What the receiver and the network leave alone *)

Settings == <<socketVars, groupVars, live, device, filter, buffer_size, controllerVars>>

LEMMA SettingsFrame ==
  ASSUME ReceiverCall \/ ReceiverStep \/ Capture \/ UNCHANGED vars
  PROVE  UNCHANGED Settings
<1> USE DEF Settings, socketVars, groupVars, npcapVars, controllerVars, vars
<1>1. CASE ReceiverCall
  BY <1>1 DEF ReceiverCall, ReceiveDatagram
<1>2. CASE ReceiverStep
  BY <1>2
  DEF ReceiverStep, ReceiveLockLists, ReceiveClosed, ReceiveNotBound, StartPass, PollEmpty,
      PollDatagram, PollDiscard, PollFragment, PollError, NextPass, OutOfTime, BeginWait,
      WaitSignalled, WaitFailed, ContinueLoop, WaitTimeout
<1>3. CASE Capture
  BY <1>3 DEF Capture, Arrive
<1>4. CASE UNCHANGED vars
  BY <1>4
<1> QED
  BY <1>1, <1>2, <1>3, <1>4

-----------------------------------------------------------------------------
(* Filters *)

LEMMA FiltersInit == Init => FiltersInv
  BY DEF Init, FiltersInv

\* Each call that changes what a filter depends on starts at a list of all handles.
LEMMA FiltersCall ==
  ASSUME FiltersInv, ControllerCall
  PROVE  FiltersInv'
<1> USE DEF FiltersInv, Listed, WantedFilter, is_loopback_,
            socketVars, groupVars, npcapVars, controllerVars
<1>1. ASSUME NEW address \in BindAddresses, NEW port \in Ports, Bind(address, port)
      PROVE  FiltersInv'
  BY <1>1 DEF Bind
<1>2. CASE    (\E group \in Groups : JoinMulticastGroup(group))
           \/ (\E group \in Groups : LeaveMulticastGroup(group))
           \/ (\E enabled \in BOOLEAN : SetMulticastLoopbackEnabled(enabled))
  <2>1. cpc' = "filter" /\ to_visit' = pcap_devices_ /\ pcap_devices_' = pcap_devices_
    BY <1>2 DEF JoinMulticastGroup, LeaveMulticastGroup, SetMulticastLoopbackEnabled,
                UpdateAllCaptureFilters, FiltersToUpdate
  <2> QED
    BY <2>1
<1>3. CASE (\E size \in BufferSizes : SetReceiveBufferSize(size)) \/ Close
  BY <1>3 DEF SetReceiveBufferSize, Close
<1> QED
  BY <1>1, <1>2, <1>3 DEF ControllerCall

LEMMA FiltersStep ==
  ASSUME FiltersSucceed
  PROVE  TypeOK /\ BindingInv /\ FiltersInv /\ [Next]_vars => FiltersInv'
<1> SUFFICES ASSUME TypeOK, BindingInv, FiltersInv, [Next]_vars PROVE FiltersInv'
  OBVIOUS
<1> USE DEF FiltersInv, Listed, WantedFilter, is_loopback_,
            socketVars, groupVars, npcapVars, controllerVars
<1>1. CASE ReceiverCall \/ ReceiverStep \/ Capture \/ UNCHANGED vars
  BY <1>1, SettingsFrame DEF Settings
<1>2. CASE ControllerCall
  BY <1>2, FiltersCall
<1>3. ASSUME NEW h \in Handles, OpenPcapDevice(h)
      PROVE  FiltersInv'
  BY <1>3 DEF OpenPcapDevice
<1>4. CASE OpenPcapDeviceFails
  BY <1>4 DEF OpenPcapDeviceFails, BindingInv
<1>5. CASE BindCommit
  BY <1>5 DEF BindCommit
<1>6. ASSUME UpdateCaptureFilter, bound_state_
      PROVE  FiltersInv'
  <2> DEFINE h == Head(to_visit)
  <2>1. /\ to_visit \in Seq(Handles) /\ to_visit # <<>> /\ h \in Handles
        /\ filter \in [Handles -> Filters] /\ pcap_devices_ \in Seq(Handles)
        /\ cpc = "filter" /\ cpc' = "filter" /\ to_visit' = Tail(to_visit)
    BY <1>6 DEF UpdateCaptureFilter, TypeOK, SocketTypes, NpcapTypes, ControllerTypes
  <2>2. filter' = [filter EXCEPT ![h] = WantedFilter(h, Mac[device[h]])]
    BY <1>6 DEF UpdateCaptureFilter, FiltersSucceed, BindingInv
  <2>3. Range(to_visit) = Range(to_visit') \cup {h}
    BY <2>1, TailElements
  <2>4. UNCHANGED <<socketVars, groupVars, device>>
    BY <1>6 DEF UpdateCaptureFilter
  <2>5. Listed \subseteq Handles
    BY <2>1 DEF Range
  <2>6. \A k \in Listed \ Range(to_visit') : filter'[k] = WantedFilter(k, Mac[device[k]])
    BY <1>6, <2>1, <2>2, <2>3, <2>5
  <2> QED
    BY <2>1, <2>4, <2>6
<1>7. CASE FiltersUpdated
  <2>1. to_visit = <<>> /\ cpc = "filter" /\ UNCHANGED <<socketVars, multicast_groups_,
          multicast_loopback_enabled_, device, filter>>
    BY <1>7 DEF FiltersUpdated
  <2>2. Range(to_visit) = {}
    BY <2>1 DEF Range
  <2>3. cpc' = "idle"
    BY <1>7 DEF FiltersUpdated
  <2> QED
    BY <2>1, <2>2, <2>3
<1>8. CASE MarkClosed \/ PcapClose \/ HandlesClosed \/ ClearLists \/ ResetBinding
  BY <1>8 DEF MarkClosed, PcapClose, HandlesClosed, ClearLists, ResetBinding
<1>9. ASSUME UpdateCaptureFilter, ~bound_state_
      PROVE  FiltersInv'
  BY <1>9 DEF UpdateCaptureFilter
<1> QED
  BY <1>1, <1>2, <1>3, <1>4, <1>5, <1>6, <1>7, <1>8, <1>9 DEF Next, ControllerStep

\* A filter update leaves the right filter on each handle it has been at.
THEOREM FiltersCorrect ==
  ASSUME FiltersSucceed
  PROVE  Spec => []FiltersInv
<1>1. TypeOK /\ BindingInv /\ FiltersInv /\ [Next]_vars => FiltersInv'
  BY FiltersStep
<1> QED
  BY <1>1, FiltersInit, TypeCorrect, BindingCorrect, PTL DEF Spec

\* Between two calls each handle has the filter of the settings in force, with any
\* number of devices and groups, as long as filters can be set.
THEOREM FiltersStayCurrent ==
  ASSUME FiltersSucceed
  PROVE  Spec => []FiltersAreCurrent
<1>1. FiltersInv => FiltersAreCurrent
  BY DEF FiltersInv, FiltersAreCurrent, Settled
<1> QED
  BY <1>1, FiltersCorrect, PTL

-----------------------------------------------------------------------------
(* Queues *)

LEMMA QueuesInit == Init => QueuesInv
  BY DEF Init, QueuesInv

\* A packet taken from the head of a queue leaves packets that were there before.
LEMMA QueuesTail ==
  ASSUME TypeOK, QueuesInv, NEW h \in Handles, queue[h] # <<>>,
         queue' = [queue EXCEPT ![h] = Tail(@)], UNCHANGED filter
  PROVE  QueuesInv'
<1>1. queue \in [Handles -> Seq(Packets)]
  BY DEF TypeOK, NpcapTypes
<1>2. \A i \in 1..Len(Tail(queue[h])) : i + 1 \in 1..Len(queue[h])
                                        /\ Tail(queue[h])[i] = queue[h][i + 1]
  BY <1>1
<1> QED
  BY <1>1, <1>2 DEF QueuesInv

LEMMA QueuesArrive ==
  ASSUME TypeOK, QueuesInv, NEW h \in Handles, NEW p \in Packets, Arrive(h, p)
  PROVE  QueuesInv'
<1>1. queue \in [Handles -> Seq(Packets)]
  BY DEF TypeOK, NpcapTypes
<1>2. queue' = [queue EXCEPT ![h] = Append(@, p)] /\ filter' = filter /\ Captures(filter[h], p)
  BY DEF Arrive
<1>3. \A i \in 1..Len(queue'[h]) :
         queue'[h][i] = p \/ (i \in 1..Len(queue[h]) /\ queue'[h][i] = queue[h][i])
  BY <1>1, <1>2
<1>4. \A k \in Handles \ {h} : queue'[k] = queue[k]
  BY <1>1, <1>2
<1> QED
  BY <1>2, <1>3, <1>4 DEF QueuesInv

\* A new filter, a new handle and a closed one begin with an empty queue.
LEMMA QueuesEmptied ==
  ASSUME TypeOK, QueuesInv, NEW h \in Handles, NEW f,
         queue' = [queue EXCEPT ![h] = <<>>], filter' = [filter EXCEPT ![h] = f]
  PROVE  QueuesInv'
  BY DEF QueuesInv, TypeOK, NpcapTypes

LEMMA QueuesStep == TypeOK /\ QueuesInv /\ [Next]_vars => QueuesInv'
<1> SUFFICES ASSUME TypeOK, QueuesInv, [Next]_vars PROVE QueuesInv'
  OBVIOUS
<1> USE DEF socketVars, groupVars, npcapVars, lockVars, receiverVars, controllerVars
<1>1. ASSUME UNCHANGED <<queue, filter>>
      PROVE  QueuesInv'
  BY <1>1 DEF QueuesInv
<1>2. CASE ReceiverCall \/ (ReceiverStep /\ ~PollDatagram /\ ~PollDiscard) \/ UNCHANGED vars
  BY <1>1, <1>2
  DEF ReceiverCall, ReceiveDatagram, ReceiverStep, ReceiveLockLists, ReceiveClosed,
      ReceiveNotBound, StartPass, PollEmpty, PollFragment, PollError, NextPass, OutOfTime,
      BeginWait, WaitSignalled, WaitFailed, ContinueLoop, WaitTimeout, vars
<1>3. CASE PollDatagram \/ PollDiscard
  <2>1. Polled \in Handles
    BY <1>3 DEF PollDatagram, PollDiscard, Polling, Polled, TypeOK, SocketTypes, ReceiverTypes
  <2> QED
    BY <1>3, <2>1, QueuesTail DEF PollDatagram, PollDiscard
<1>4. ASSUME NEW h \in Handles, NEW p \in Packets, Arrive(h, p)
      PROVE  QueuesInv'
  BY <1>4, QueuesArrive
<1>5. ASSUME NEW h \in Handles, OpenPcapDevice(h)
      PROVE  QueuesInv'
  BY <1>5, QueuesEmptied DEF OpenPcapDevice
<1>6. CASE UpdateCaptureFilter \/ PcapClose
  <2>1. Head(to_visit) \in Handles
    BY <1>6 DEF UpdateCaptureFilter, PcapClose, TypeOK, ControllerTypes
  <2> QED
    BY <1>1, <1>6, <2>1, QueuesEmptied DEF UpdateCaptureFilter, PcapClose
<1>7. CASE    ControllerCall \/ OpenPcapDeviceFails \/ BindCommit \/ FiltersUpdated
           \/ MarkClosed \/ HandlesClosed \/ ClearLists \/ ResetBinding
  BY <1>1, <1>7
  DEF ControllerCall, Bind, JoinMulticastGroup, LeaveMulticastGroup,
      SetMulticastLoopbackEnabled, SetReceiveBufferSize, Close, OpenPcapDeviceFails,
      BindCommit, FiltersUpdated, MarkClosed, HandlesClosed, ClearLists, ResetBinding
<1> QED
  BY <1>2, <1>3, <1>4, <1>5, <1>6, <1>7 DEF Next, ReceiverStep, ControllerStep, Capture

\* No handle ever holds a packet that its own filter would refuse, whichever calls
\* fail and however close, join and leave overlap a receive.
THEOREM QueuesFitFilters == Spec => []QueuesInv
  BY QueuesInit, QueuesStep, TypeCorrect, PTL DEF Spec

\* What was captured before the filter was set, or for a group since left, is gone
\* when the call that set the filter returns.
THEOREM NothingUnwantedIsQueued ==
  ASSUME FiltersSucceed
  PROVE  Spec => []OnlyWantedTrafficIsQueued
<1>1. TypeOK /\ FiltersAreCurrent /\ QueuesInv => OnlyWantedTrafficIsQueued
  BY DEF TypeOK, SocketTypes, FiltersAreCurrent, QueuesInv, OnlyWantedTrafficIsQueued,
         Listed, Range
<1> QED
  BY <1>1, TypeCorrect, FiltersStayCurrent, QueuesFitFilters, PTL

-----------------------------------------------------------------------------
(* What comes out *)

\* A filter that is current lets through only what the application has asked for.
LEMMA CurrentFilterIsWanted ==
  ASSUME NEW h, NEW p, NEW mac, Captures(WantedFilter(h, mac), p)
  PROVE  Wanted(h, p)
<1> DEFINE f == WantedFilter(h, mac)
<1>1. /\ f.installed
      /\ f.unicast = UnicastClause(bound_address_)
      /\ f.groups = MulticastClause(is_loopback_(h), multicast_groups_,
                                    multicast_loopback_enabled_)
  BY DEF WantedFilter, createFilterString
<1>2. CASE IpMulticast(p.dst)
  <2>1. p.dst \in f.groups
    BY <1>1, <1>2 DEF Captures
  <2> QED
    BY <1>1, <1>2, <2>1 DEF Wanted, MulticastClause
<1>3. CASE ~IpMulticast(p.dst)
  <2>1. f.unicast = {} \/ p.dst \in f.unicast
    BY <1>1, <1>3 DEF Captures
  <2> QED
    BY <1>1, <1>3, <2>1 DEF Wanted, UnicastClause
<1> QED
  BY <1>2, <1>3

\* Once join, leave or a loopback switch has returned, receiveDatagram returns only
\* what the settings in force ask for, whatever was captured before.
THEOREM OnlyWantedIsDelivered ==
  ASSUME FiltersSucceed
  PROVE  Spec => DeliveredIsWanted
<1>1. ASSUME TypeOK, HandleInv, FiltersInv, QueuesInv, PollDatagram, cpc # "filter"
      PROVE  Wanted(Polled, datagram')
  <2>1. /\ rpc = "poll" /\ Polled \in Listed /\ Polled \in Handles
        /\ queue[Polled] # <<>> /\ datagram' = Head(queue[Polled])
    BY <1>1 DEF PollDatagram, Polling, Polled, Listed, Range, TypeOK, SocketTypes,
                ReceiverTypes
  <2>2. bound_state_ /\ cpc \in {"idle", "lock_callback"}
    BY <1>1, <2>1 DEF HandleInv, MutexOwners, BindRunsAlone, ClosingIsMarked,
                      PolledHandlesAreOpen, TypeOK, ControllerTypes
  <2>3. filter[Polled] = WantedFilter(Polled, Mac[device[Polled]])
    BY <1>1, <2>1, <2>2 DEF FiltersInv
  <2>4. 1 \in 1..Len(queue[Polled]) /\ Head(queue[Polled]) = queue[Polled][1]
    BY <1>1, <2>1 DEF TypeOK, NpcapTypes
  <2>5. Captures(WantedFilter(Polled, Mac[device[Polled]]), datagram')
    BY <1>1, <2>1, <2>3, <2>4 DEF QueuesInv
  <2> QED
    BY <2>5, CurrentFilterIsWanted
<1>2. TypeOK /\ HandleInv /\ FiltersInv /\ QueuesInv /\ [Next]_vars
        => [PollDatagram /\ cpc # "filter" => Wanted(Polled, datagram')]_vars
  BY <1>1
<1> QED
  BY <1>2, TypeCorrect, HandlesCorrect, FiltersCorrect, QueuesFitFilters, PTL
  DEF Spec, DeliveredIsWanted

-----------------------------------------------------------------------------
(* Kickstarts *)

LEMMA KickstartInit == Init => KickstartInv
  BY DEF Init, KickstartInv

LEMMA KickstartStep ==
  ASSUME KickstartsSucceed
  PROVE  KickstartInv /\ [Next]_vars => KickstartInv'
<1> SUFFICES ASSUME KickstartInv, [Next]_vars PROVE KickstartInv'
  OBVIOUS
<1> USE DEF KickstartInv, socketVars, groupVars, npcapVars, controllerVars
<1>1. CASE ReceiverCall \/ ReceiverStep \/ Capture \/ UNCHANGED vars
  BY <1>1, SettingsFrame DEF Settings
<1>2. ASSUME NEW address \in BindAddresses, NEW port \in Ports, Bind(address, port)
      PROVE  KickstartInv'
  BY <1>2 DEF Bind
<1>3. ASSUME NEW group \in Groups, JoinMulticastGroup(group)
      PROVE  KickstartInv'
  BY <1>3 DEF JoinMulticastGroup, UpdateAllCaptureFilters
<1>4. ASSUME NEW group \in Groups, LeaveMulticastGroup(group)
      PROVE  KickstartInv'
  BY <1>4 DEF LeaveMulticastGroup, UpdateAllCaptureFilters
<1>5. ASSUME NEW enabled \in BOOLEAN, SetMulticastLoopbackEnabled(enabled)
      PROVE  KickstartInv'
  BY <1>5 DEF SetMulticastLoopbackEnabled, UpdateAllCaptureFilters, KickstartOnEnable,
              KickstartLoopbackMulticast, KickstartsSucceed
<1>6. CASE (\E size \in BufferSizes : SetReceiveBufferSize(size)) \/ Close
  BY <1>6 DEF SetReceiveBufferSize, Close
<1>7. CASE FiltersUpdated
  BY <1>7 DEF FiltersUpdated, KickstartLoopbackMulticast, KickstartsSucceed
<1>8. CASE    (\E h \in Handles : OpenPcapDevice(h)) \/ OpenPcapDeviceFails \/ BindCommit
           \/ UpdateCaptureFilter \/ MarkClosed \/ PcapClose \/ HandlesClosed \/ ClearLists
           \/ ResetBinding
  BY <1>8
  DEF OpenPcapDevice, OpenPcapDeviceFails, BindCommit, UpdateCaptureFilter, MarkClosed,
      PcapClose, HandlesClosed, ClearLists, ResetBinding
<1> QED
  BY <1>1, <1>2, <1>3, <1>4, <1>5, <1>6, <1>7, <1>8 DEF Next, ControllerCall, ControllerStep

\* Only a join in progress may be behind with its kickstart.
THEOREM KickstartsCorrect ==
  ASSUME KickstartsSucceed
  PROVE  Spec => []KickstartInv
<1>1. KickstartInv /\ [Next]_vars => KickstartInv'
  BY KickstartStep
<1> QED
  BY <1>1, KickstartInit, PTL DEF Spec

\* While multicast loopback is on, the traffic of every joined group reaches localhost,
\* in whatever order groups were joined and loopback was switched, also before a bind.
THEOREM GroupsStayKickstarted ==
  ASSUME KickstartsSucceed
  PROVE  Spec => []GroupsAreKickstarted
<1>1. KickstartInv => GroupsAreKickstarted
  BY DEF KickstartInv, GroupsAreKickstarted
<1> QED
  BY <1>1, KickstartsCorrect, PTL

-----------------------------------------------------------------------------
(* Devices *)

\* What EnoughHandles says of a finite set of handles: two, and one for each device.
LEMMA EnoughToCount ==
  ASSUME IsFiniteSet(Handles), Cardinality(Handles) >= 2,
         Cardinality(Handles) >= Len(DeviceList)
  PROVE  EnoughHandles
<1>1. Cardinality(Handles) \in Nat /\ Len(DeviceList) \in Nat
  BY FS_CardinalityType, DevicesAssumption
<1>2. SUFFICES ASSUME NEW s \in Seq(Handles), Range(s) = Handles
               PROVE  Len(s) >= Cardinality(Handles)
  <2>1. \A s \in Seq(Handles) : Len(s) \in Nat
    OBVIOUS
  <2> QED
    BY <1>1, <1>2, <2>1 DEF EnoughHandles
<1>3. Len(s) \in Nat /\ DOMAIN s = 1..Len(s) /\ s \in [1..Len(s) -> Handles]
  BY ElementOfSeq
<1>4. ExistsSurjection(1..Len(s), Handles)
  BY <1>2, <1>3 DEF ExistsSurjection, Surjection, Range
<1> QED
  BY <1>3, <1>4, FS_SurjCardinalityBound

LEMMA DevicesInit == Init => DevicesInv
  BY DEF Init, DevicesInv

LEMMA DevicesOf ==
  ASSUME NEW handles \in Seq(Handles), NEW dev \in [Handles -> Devices]
  PROVE  LET devices == [i \in 1..Len(handles) |-> dev[handles[i]]]
         IN  /\ devices \in Seq(Devices)
             /\ Len(devices) = Len(handles)
             /\ \A i \in 1..Len(handles) : devices[i] = dev[handles[i]]
<1> DEFINE devices == [i \in 1..Len(handles) |-> dev[handles[i]]]
<1>1. Len(handles) \in Nat /\ devices \in [1..Len(handles) -> Devices]
  OBVIOUS
<1>2. devices \in Seq(Devices) /\ Len(devices) = Len(handles)
  BY <1>1
<1> QED
  BY <1>2

LEMMA ListensOnType ==
  ASSUME TypeOK
  PROVE  /\ ListensOn \in Seq(Devices)
         /\ Len(ListensOn) = Len(pcap_devices_)
         /\ \A i \in 1..Len(pcap_devices_) : ListensOn[i] = device[pcap_devices_[i]]
  BY DevicesOf DEF TypeOK, SocketTypes, NpcapTypes, ListensOn

\* bind looks up one device, two, or all there are.
LEMMA DevicesToOpenLength ==
  ASSUME NEW address, NEW devices \in DevicesToOpen(address)
  PROVE  Len(devices) \in {1, 2} \/ devices = DeviceList
  BY DEF DevicesToOpen

\* While there is a device left to open there is a handle left for it.
LEMMA NoOpenFails ==
  ASSUME DevicesOpen, TypeOK, HandleInv, DevicesInv
  PROVE  ~OpenPcapDeviceFails
<1> SUFFICES ASSUME OpenPcapDeviceFails PROVE FALSE
  OBVIOUS
<1>1. cpc = "open" /\ to_open # <<>> /\ live = Handles
  BY DEF OpenPcapDeviceFails, DevicesOpen
<1>2. /\ pcap_devices_ \in Seq(Handles) /\ to_open \in Seq(Devices)
      /\ DeviceList \in Seq(Devices)
  BY DevicesAssumption DEF TypeOK, SocketTypes, ControllerTypes
<1>3. Range(pcap_devices_) = Handles
  BY <1>1 DEF HandleInv, OpenHandlesAreTracked, Listed
<1>4. ~(Len(pcap_devices_) < 2) /\ ~(Len(pcap_devices_) < Len(DeviceList))
  BY <1>2, <1>3 DEF DevicesOpen, EnoughHandles
<1>5. Len(ListensOn \o to_open) = Len(pcap_devices_) + Len(to_open)
  <2>1. ListensOn \in Seq(Devices) /\ Len(ListensOn) = Len(pcap_devices_)
    BY ListensOnType
  <2> QED
    BY <1>2, <2>1
<1>6. Len(to_open) \in Nat \ {0} /\ Len(pcap_devices_) \in Nat /\ Len(DeviceList) \in Nat
  BY <1>1, <1>2
<1>7. Len(ListensOn \o to_open) \in {1, 2} \/ Len(ListensOn \o to_open) = Len(DeviceList)
  BY <1>1, DevicesToOpenLength DEF DevicesInv
<1> QED
  BY <1>4, <1>5, <1>6, <1>7

\* The next device moves from what is left to open to what is open.
LEMMA DevicesOpened ==
  ASSUME TypeOK, TypeOK', HandleInv, BindingInv, DevicesInv, NEW h \in Handles, OpenPcapDevice(h)
  PROVE  DevicesInv'
<1>1. /\ cpc = "open" /\ cpc' = "open" /\ to_open # <<>> /\ h \notin live
      /\ device' = [device EXCEPT ![h] = Head(to_open)]
      /\ pcap_devices_' = Append(pcap_devices_, h) /\ to_open' = Tail(to_open)
      /\ UNCHANGED <<bound_state_, to_bind>>
  BY DEF OpenPcapDevice, controllerVars
<1>2. /\ pcap_devices_ \in Seq(Handles) /\ to_open \in Seq(Devices)
      /\ device \in [Handles -> Devices]
  BY DEF TypeOK, SocketTypes, ControllerTypes, NpcapTypes
<1>3. \A i \in 1..Len(pcap_devices_) : pcap_devices_[i] \in Handles \ {h}
  BY <1>1, <1>2 DEF HandleInv, OpenHandlesAreTracked, Listed, Range
<1>4. ListensOn' = Append(ListensOn, Head(to_open))
  <2> DEFINE n == Len(pcap_devices_)
  <2>1. n \in Nat /\ Len(pcap_devices_') = n + 1
    BY <1>1, <1>2
  <2>2. \A i \in 1..n : pcap_devices_'[i] = pcap_devices_[i]
    BY <1>1, <1>2
  <2>3. pcap_devices_'[n + 1] = h
    BY <1>1, <1>2
  <2>4. \A i \in 1..n : device'[pcap_devices_'[i]] = device[pcap_devices_[i]]
    BY <1>1, <1>2, <1>3, <2>2
  <2>5. device'[pcap_devices_'[n + 1]] = Head(to_open)
    BY <1>1, <1>2, <2>3
  <2>6. /\ ListensOn \in Seq(Devices) /\ Len(ListensOn) = n
        /\ \A i \in 1..n : ListensOn[i] = device[pcap_devices_[i]]
    BY ListensOnType
  <2>7. /\ ListensOn' \in Seq(Devices) /\ Len(ListensOn') = n + 1
        /\ \A i \in 1..(n + 1) : ListensOn'[i] = device'[pcap_devices_'[i]]
    BY <2>1, TypeOK', DevicesOf DEF TypeOK, SocketTypes, NpcapTypes, ListensOn
  <2>8. Head(to_open) \in Devices
    BY <1>1, <1>2
  <2>9. /\ Append(ListensOn, Head(to_open)) \in Seq(Devices)
        /\ Len(Append(ListensOn, Head(to_open))) = n + 1
        /\ \A i \in 1..n : Append(ListensOn, Head(to_open))[i] = ListensOn[i]
        /\ Append(ListensOn, Head(to_open))[n + 1] = Head(to_open)
    BY <2>1, <2>6, <2>8, AppendProperties
  <2>10. \A i \in 1..(n + 1) : ListensOn'[i] = Append(ListensOn, Head(to_open))[i]
    BY <2>1, <2>4, <2>5, <2>6, <2>7, <2>9
  <2> QED
    BY <2>1, <2>7, <2>9, <2>10, SeqEqual
<1>5. Append(ListensOn, Head(to_open)) \o Tail(to_open) = ListensOn \o to_open
  BY <1>1, <1>2, ListensOnType
<1>6. ListensOn' \o to_open' \in DevicesToOpen(to_bind.address)
  BY <1>1, <1>4, <1>5 DEF DevicesInv
<1> QED
  BY <1>1, <1>6 DEF DevicesInv, BindingInv

LEMMA DevicesStep ==
  ASSUME DevicesOpen
  PROVE  TypeOK /\ TypeOK' /\ HandleInv /\ BindingInv /\ DevicesInv /\ [Next]_vars
           => DevicesInv'
<1> SUFFICES ASSUME TypeOK, TypeOK', HandleInv, BindingInv, DevicesInv, [Next]_vars
             PROVE  DevicesInv'
  OBVIOUS
<1> USE DEF DevicesInv, Closing, ListensOn, socketVars, groupVars, npcapVars, controllerVars
<1>1. CASE ReceiverCall \/ ReceiverStep \/ Capture \/ UNCHANGED vars
  BY <1>1, SettingsFrame DEF Settings
<1>2. ASSUME NEW address \in BindAddresses, NEW port \in Ports, Bind(address, port)
      PROVE  DevicesInv'
  <2>1. /\ pcap_devices_ = <<>> /\ UNCHANGED <<pcap_devices_, device, bound_state_>>
        /\ cpc' = "open" /\ ~bound_state_
        /\ to_open' \in DevicesToOpen(to_bind'.address)
    BY <1>2 DEF Bind
  <2>2. to_open' \in Seq(Devices)
    BY DEF TypeOK, ControllerTypes
  <2>3. ListensOn' = <<>>
    BY <2>1
  <2>4. <<>> \o to_open' = to_open'
    BY <2>2
  <2> QED
    BY <2>1, <2>3, <2>4
<1>3. CASE    (\E group \in Groups : JoinMulticastGroup(group))
           \/ (\E group \in Groups : LeaveMulticastGroup(group))
           \/ (\E enabled \in BOOLEAN : SetMulticastLoopbackEnabled(enabled))
           \/ (\E size \in BufferSizes : SetReceiveBufferSize(size))
           \/ Close
  BY <1>3 DEF JoinMulticastGroup, LeaveMulticastGroup, SetMulticastLoopbackEnabled,
              UpdateAllCaptureFilters, SetReceiveBufferSize, Close
<1>4. ASSUME NEW h \in Handles, OpenPcapDevice(h)
      PROVE  DevicesInv'
  BY <1>4, DevicesOpened
<1>5. CASE OpenPcapDeviceFails
  BY <1>5, NoOpenFails
<1>6. CASE BindCommit
  <2>1. /\ cpc = "open" /\ cpc' = "filter" /\ to_open = <<>> /\ bound_state_'
        /\ bound_address_' = to_bind.address
        /\ UNCHANGED <<pcap_devices_, device>>
    BY <1>6 DEF BindCommit
  <2>2. ListensOn \o <<>> = ListensOn
    BY ListensOnType
  <2> QED
    BY <2>1, <2>2
<1>7. CASE UpdateCaptureFilter \/ FiltersUpdated
  BY <1>7 DEF UpdateCaptureFilter, FiltersUpdated
<1>8. CASE MarkClosed \/ PcapClose \/ HandlesClosed
  BY <1>8 DEF MarkClosed, PcapClose, HandlesClosed
<1>9. CASE ClearLists \/ ResetBinding
  BY <1>9 DEF ClearLists, ResetBinding, ClearedLists
<1> QED
  BY <1>1, <1>2, <1>3, <1>4, <1>5, <1>6, <1>7, <1>8, <1>9
  DEF Next, ControllerCall, ControllerStep

\* What bind opens and what is left to open is always the list it looked up, and an
\* unbound socket has no handle, as long as every device can be opened.
THEOREM DevicesCorrect ==
  ASSUME DevicesOpen
  PROVE  Spec => []DevicesInv
<1>1. TypeOK /\ TypeOK' /\ HandleInv /\ BindingInv /\ DevicesInv /\ [Next]_vars
        => DevicesInv'
  BY DevicesStep
<1> QED
  BY <1>1, DevicesInit, TypeCorrect, HandlesCorrect, BindingCorrect, PTL DEF Spec

\* A bound socket listens on the devices of the address it is bound to, each of them
\* as often as pcap_findalldevs names it, however often it was bound and closed before.
THEOREM SocketListensWhereBound ==
  ASSUME DevicesOpen
  PROVE  Spec => []ListensWhereBound
<1>1. DevicesInv => ListensWhereBound
  BY DEF DevicesInv, ListensWhereBound, Settled, Closing
<1> QED
  BY <1>1, DevicesCorrect, PTL

-----------------------------------------------------------------------------
(* Buffer sizes *)

LEMMA SizesInit == Init => SizesInv
  BY DEF Init, SizesInv, Listed, Range

LEMMA SizesStep ==
  TypeOK /\ DevicesInv /\ SizesInv /\ [Next]_vars => SizesInv'
<1> SUFFICES ASSUME TypeOK, DevicesInv, SizesInv, [Next]_vars PROVE SizesInv'
  OBVIOUS
<1> USE DEF SizesInv, Closing, Listed, ActivatedSize, socketVars, groupVars, npcapVars,
            controllerVars
<1>1. CASE ReceiverCall \/ ReceiverStep \/ Capture \/ UNCHANGED vars
  BY <1>1, SettingsFrame DEF Settings
<1>2. CASE    (\E address \in BindAddresses, port \in Ports : Bind(address, port))
           \/ (\E group \in Groups : JoinMulticastGroup(group))
           \/ (\E group \in Groups : LeaveMulticastGroup(group))
           \/ (\E enabled \in BOOLEAN : SetMulticastLoopbackEnabled(enabled))
           \/ Close
  BY <1>2 DEF Bind, JoinMulticastGroup, LeaveMulticastGroup, SetMulticastLoopbackEnabled,
              UpdateAllCaptureFilters, Close
<1>3. ASSUME NEW size \in BufferSizes, SetReceiveBufferSize(size)
      PROVE  SizesInv'
  <2>1. pcap_devices_' = <<>>
    BY <1>3 DEF SetReceiveBufferSize, DevicesInv
  <2> QED
    BY <2>1 DEF Range
<1>4. ASSUME NEW h \in Handles, OpenPcapDevice(h)
      PROVE  SizesInv'
  <2>1. /\ pcap_devices_ \in Seq(Handles) /\ buffer_size \in [Handles -> BufferSizesInUse]
        /\ pcap_devices_' = Append(pcap_devices_, h) /\ cpc = "open"
        /\ buffer_size' = [buffer_size EXCEPT ![h] = ActivatedSize]
        /\ UNCHANGED receive_buffer_size_
    BY <1>4 DEF OpenPcapDevice, TypeOK, SocketTypes, NpcapTypes
  <2>2. Range(pcap_devices_') = Range(pcap_devices_) \cup {h}
    BY <2>1 DEF Range
  <2>3. Range(pcap_devices_) \subseteq Handles
    BY <2>1 DEF Range
  <2> QED
    BY <2>1, <2>2, <2>3
<1>5. CASE    OpenPcapDeviceFails \/ BindCommit \/ UpdateCaptureFilter \/ FiltersUpdated
           \/ MarkClosed \/ PcapClose \/ HandlesClosed \/ ClearLists
  BY <1>5 DEF OpenPcapDeviceFails, BindCommit, UpdateCaptureFilter, FiltersUpdated,
              MarkClosed, PcapClose, HandlesClosed, ClearLists
<1>6. CASE ResetBinding
  <2>1. pcap_devices_' = <<>>
    BY <1>6 DEF ResetBinding, DevicesInv
  <2> QED
    BY <2>1 DEF Range
<1> QED
  BY <1>1, <1>2, <1>3, <1>4, <1>5, <1>6 DEF Next, ControllerCall, ControllerStep

\* No handle has a buffer of another size than the next bind would ask for.
THEOREM SizesCorrect ==
  ASSUME DevicesOpen
  PROVE  Spec => []SizesInv
<1>1. TypeOK /\ DevicesInv /\ SizesInv /\ [Next]_vars => SizesInv'
  BY SizesStep
<1> QED
  BY <1>1, SizesInit, TypeCorrect, DevicesCorrect, PTL DEF Spec

\* What setReceiveBufferSize accepted is the size of each handle of a bound socket,
\* also after a close and a new bind.
THEOREM BufferSizeStaysInForce ==
  ASSUME DevicesOpen
  PROVE  Spec => []BufferSizeIsInForce
<1>1. SizesInv => BufferSizeIsInForce
  BY DEF SizesInv, BufferSizeIsInForce, Settled, Closing, ActivatedSize
<1> QED
  BY <1>1, SizesCorrect, PTL

\* The invariant from which all of this follows, wherever the two threads are, as long
\* as no call into Npcap but a read fails.
THEOREM SettingsCorrect ==
  ASSUME FiltersSucceed, KickstartsSucceed, DevicesOpen
  PROVE  Spec => []SettingsInv
  BY FiltersCorrect, QueuesFitFilters, KickstartsCorrect, DevicesCorrect, SizesCorrect, PTL
  DEF SettingsInv

-----------------------------------------------------------------------------
(* Local multicast *)

\* Whatever bind opens contains the loopback device, once.
LEMMA OneLoopbackToOpen ==
  ASSUME AdaptersAreDistinct, NEW address, NEW devices \in DevicesToOpen(address)
  PROVE  \E n \in 1..Len(devices) : \A i \in 1..Len(devices) :
           devices[i] = Loopback <=> i = n
<1>1. CASE devices = <<Loopback>>
  BY <1>1
<1>2. ASSUME NEW d \in DevicesByIp(address), devices = <<d, Loopback>>
      PROVE  \A i \in 1..Len(devices) : devices[i] = Loopback <=> i = 2
  BY <1>2 DEF DevicesByIp, HasAddress, AdaptersAreDistinct
<1>3. CASE devices = DeviceList
  <2>1. DeviceList \in Seq(Devices) /\ Loopback \in Range(DeviceList)
    BY DevicesAssumption DEF Devices
  <2>2. PICK n \in 1..Len(DeviceList) : DeviceList[n] = Loopback
    BY <2>1 DEF Range
  <2>3. \A i \in 1..Len(DeviceList) : DeviceList[i] = Loopback => i = n
    BY <2>1, <2>2 DEF AdaptersAreDistinct, IsInjective
  <2> QED
    BY <1>3, <2>2, <2>3
<1>4. CASE \E d \in DevicesByIp(address) : devices = <<d, Loopback>>
  <2>1. 2 \in 1..Len(devices)
    BY <1>4
  <2> QED
    BY <1>2, <1>4, <2>1
<1> QED
  BY <1>1, <1>3, <1>4 DEF DevicesToOpen

LEMMA OneLoopbackHandle ==
  ASSUME AdaptersAreDistinct, TypeOK, DevicesInv, Settled
  PROVE  \E h \in Listed : \A k \in Listed : is_loopback_(k) <=> k = h
<1>1. ListensOn \in DevicesToOpen(bound_address_)
  BY DEF DevicesInv, Settled, Closing
<1>2. PICK n \in 1..Len(ListensOn) : \A i \in 1..Len(ListensOn) :
               ListensOn[i] = Loopback <=> i = n
  BY <1>1, OneLoopbackToOpen
<1>3. /\ Len(ListensOn) = Len(pcap_devices_)
      /\ \A i \in 1..Len(pcap_devices_) : ListensOn[i] = device[pcap_devices_[i]]
  BY ListensOnType
<1>4. Listed = {pcap_devices_[i] : i \in 1..Len(pcap_devices_)}
  BY DEF Listed, Range, TypeOK, SocketTypes
<1>5. pcap_devices_[n] \in Listed
  BY <1>2, <1>3, <1>4
<1>6. \A k \in Listed : is_loopback_(k) <=> k = pcap_devices_[n]
  BY <1>2, <1>3, <1>4 DEF is_loopback_, AdaptersAreDistinct
<1> QED
  BY <1>5, <1>6

\* Under the filter in force only the loopback device hears what this host sends to a
\* group, and only while the group is joined and loopback is on.
LEMMA HearsOnLoopback ==
  ASSUME AdaptersAreDistinct, TypeOK, FiltersAreCurrent, Settled,
         NEW h \in Listed, NEW group \in Groups
  PROVE  Hears(h, group) <=>
           is_loopback_(h) /\ multicast_loopback_enabled_ /\ group \in multicast_groups_
<1>1. IpMulticast(group)
  <2>1. isMulticast(group)
    BY AddressesAssumption
  <2>2. group.ipv4_[1] \in 224..239
    BY <2>1 DEF isMulticast
  <2> QED
    BY <2>2 DEF IpMulticast
<1>2. filter[h] = WantedFilter(h, Mac[device[h]])
  BY DEF FiltersAreCurrent
<1>3. device[h] \in Devices
  BY DEF Listed, Range, TypeOK, SocketTypes, NpcapTypes
<1>4. CASE is_loopback_(h)
  BY <1>1, <1>2, <1>4
  DEF Hears, Captures, LocalCopy, WantedFilter, createFilterString, MulticastClause
<1>5. CASE ~is_loopback_(h)
  <2>1. Mac[device[h]] # NoMac
    BY <1>3, <1>5 DEF AdaptersAreDistinct, is_loopback_
  <2>2. filter[h].installed /\ filter[h].notFrom = Mac[device[h]]
    BY <1>2, <1>5 DEF WantedFilter, createFilterString
  <2> QED
    BY <1>5, <2>1, <2>2 DEF Hears, Captures, LocalCopy
<1> QED
  BY <1>4, <1>5

\* What this host sends to a joined group comes in once while loopback is on, and not
\* at all otherwise, with any number of adapters that each see a copy of it.
THEOREM LocalMulticastIsHeardOnce ==
  ASSUME FiltersSucceed, DevicesOpen, AdaptersAreDistinct
  PROVE  Spec => []LocalMulticastArrivesOnce
<1>1. ASSUME TypeOK, FiltersAreCurrent, DevicesInv
      PROVE  LocalMulticastArrivesOnce
  <2> SUFFICES ASSUME Settled, NEW group \in Groups
               PROVE  IF group \in multicast_groups_ /\ multicast_loopback_enabled_
                      THEN \E h \in Listed : \A k \in Listed : Hears(k, group) <=> k = h
                      ELSE \A h \in Listed : ~Hears(h, group)
    BY DEF LocalMulticastArrivesOnce
  <2>1. \A h \in Listed : Hears(h, group) <=>
           is_loopback_(h) /\ multicast_loopback_enabled_ /\ group \in multicast_groups_
    BY <1>1, HearsOnLoopback
  <2>2. \E h \in Listed : \A k \in Listed : is_loopback_(k) <=> k = h
    BY <1>1, OneLoopbackHandle
  <2> QED
    BY <2>1, <2>2
<1>2. Spec => [](TypeOK /\ FiltersAreCurrent /\ DevicesInv)
  BY TypeCorrect, FiltersStayCurrent, DevicesCorrect, PTL
<1> QED
  BY <1>1, <1>2, PTL

=============================================================================
