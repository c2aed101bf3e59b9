------------------------- MODULE UdpcapSocketProofs -------------------------
(***************************************************************************)
(* Theorems about UdpcapSocket, for every list of devices, every set of    *)
(* handles, groups, buffer sizes and timeouts, and all faults.             *)
(***************************************************************************)
EXTENDS UdpcapSocketProperties, TLAPS

LEMMA FilterType ==
  ASSUME TypeOK, NEW h \in Handles, NEW mac \in {Mac[device[h]], NoMac}
  PROVE  WantedFilter(h, mac) \in Filters
<1>1. device[h] \in Devices
  BY DEF TypeOK, NpcapTypes
<1>2. (IF is_loopback_(h) THEN NoMac ELSE mac) \in {NoMac} \cup {Mac[d] : d \in Devices}
  BY <1>1
<1>3. UnicastClause(bound_address_) \in SUBSET BoundAddresses
  BY DEF TypeOK, SocketTypes, UnicastClause
<1>4. MulticastClause(is_loopback_(h), multicast_groups_, multicast_loopback_enabled_)
        \in SUBSET Groups
  BY DEF TypeOK, GroupTypes, MulticastClause
<1>5. bound_port_ \in BoundPorts
  BY DEF TypeOK, SocketTypes
<1> QED
  BY <1>2, <1>3, <1>4, <1>5 DEF WantedFilter, createFilterString, Filters

LEMMA NoFilterType == NoFilter \in Filters
  BY DEF NoFilter, Filters, BoundPorts

LEMMA DevicesToOpenType ==
  ASSUME NEW address \in BindAddresses, NEW devices \in DevicesToOpen(address)
  PROVE  devices \in Seq(Devices)
<1>1. Loopback \in Devices /\ DeviceList \in Seq(Devices)
  BY DevicesAssumption
<1>2. CASE isLoopback(address)
  <2>1. devices = <<Loopback>>
    BY <1>2 DEF DevicesToOpen
  <2> QED
    BY <1>1, <2>1
<1>3. CASE ~isLoopback(address) /\ address = Any
  <2>1. devices = DeviceList
    BY <1>3 DEF DevicesToOpen
  <2> QED
    BY <1>1, <2>1
<1>4. CASE ~isLoopback(address) /\ address # Any
  <2>1. PICK d \in DevicesByIp(address) : devices = <<d, Loopback>>
    BY <1>4 DEF DevicesToOpen
  <2>2. d \in Devices
    BY <2>1 DEF DevicesByIp, Devices, Range
  <2> QED
    BY <1>1, <2>1, <2>2
<1> QED
  BY <1>2, <1>3, <1>4

LEMMA TypeInit == Init => TypeOK
<1> SUFFICES ASSUME Init PROVE TypeOK
  OBVIOUS
<1>1. SocketTypes
  <2>1. bound_address_ \in BoundAddresses /\ bound_port_ \in BoundPorts
    BY DEF Init, BoundAddresses, BoundPorts
  <2>2. pcap_devices_ \in Seq(Handles) /\ receive_buffer_size_ \in {-1} \cup BufferSizesInUse
    BY DEF Init
  <2> QED
    BY <2>1, <2>2 DEF Init, SocketTypes
<1>2. GroupTypes /\ LockTypes
  BY DEF Init, GroupTypes, LockTypes
<1>3. NpcapTypes
  BY NoFilterType, DevicesAssumption DEF Init, NpcapTypes, BufferSizesInUse
<1>4. ReceiverTypes
  <2>1. error \in Errors
    BY DEF Init, Errors, Codes
  <2>2. timeout \in Timeouts \cup {"zero"} /\ datagram \in Packets \cup {NoDatagram}
    BY DEF Init
  <2>3. next_dev \in Nat \ {0}
    BY DEF Init
  <2> QED
    BY <2>1, <2>2, <2>3 DEF Init, ReceiverTypes
<1>5. ControllerTypes
  BY DEF Init, ControllerTypes, NoBind, BoundAddresses, BoundPorts
<1> QED
  BY <1>1, <1>2, <1>3, <1>4, <1>5 DEF TypeOK

\* A step that leaves a group of variables alone leaves their types alone.
LEMMA FrameTypes ==
  ASSUME TypeOK
  PROVE  /\ UNCHANGED socketVars => SocketTypes'
         /\ UNCHANGED groupVars => GroupTypes'
         /\ UNCHANGED lockVars => LockTypes'
         /\ UNCHANGED npcapVars => NpcapTypes'
         /\ UNCHANGED receiverVars => ReceiverTypes'
         /\ UNCHANGED controllerVars => ControllerTypes'
<1>1. UNCHANGED socketVars => SocketTypes'
  BY DEF TypeOK, SocketTypes, socketVars
<1>2. UNCHANGED groupVars => GroupTypes'
  BY DEF TypeOK, GroupTypes, groupVars
<1>3. UNCHANGED lockVars => LockTypes'
  BY DEF TypeOK, LockTypes, lockVars
<1>4. UNCHANGED npcapVars => NpcapTypes'
  BY DEF TypeOK, NpcapTypes, npcapVars
<1>5. UNCHANGED receiverVars => ReceiverTypes'
  BY DEF TypeOK, ReceiverTypes, receiverVars
<1>6. UNCHANGED controllerVars => ControllerTypes'
  BY DEF TypeOK, ControllerTypes, controllerVars
<1> QED
  BY <1>1, <1>2, <1>3, <1>4, <1>5, <1>6

LEMMA PlainType ==
  ASSUME TypeOK, NEW code \in Codes
  PROVE  Plain(code) \in Errors
  BY DEF Plain, Errors, TypeOK, ReceiverTypes

\* Every way out of receiveDatagram.
LEMMA ReturnType ==
  ASSUME TypeOK, NEW e \in Errors, Return(e), datagram' \in Packets \cup {NoDatagram}
  PROVE  ReceiverTypes' /\ listsReaders' \in SUBSET ListsHolders
<1>1. next_dev' \in Nat \ {0}
  BY DEF Return
<1>2. listsReaders' \in SUBSET ListsHolders
  BY DEF Return, TypeOK, LockTypes
<1> QED
  BY <1>1, <1>2 DEF Return, TypeOK, ReceiverTypes

LEMMA TypeStep == TypeOK /\ [Next]_vars => TypeOK'
<1> SUFFICES ASSUME TypeOK, [Next]_vars PROVE TypeOK'
  OBVIOUS
<1>1. ASSUME NEW t \in Timeouts, ReceiveDatagram(t)
      PROVE  TypeOK'
  <2>1. SocketTypes' /\ GroupTypes' /\ LockTypes' /\ NpcapTypes' /\ ControllerTypes'
    BY <1>1, FrameTypes DEF ReceiveDatagram
  <2>2. ReceiverTypes'
    BY <1>1, PlainType DEF TypeOK, ReceiverTypes, ReceiveDatagram, Codes
  <2> QED
    BY <2>1, <2>2 DEF TypeOK
<1>2. CASE ReceiveLockLists
  <2>1. SocketTypes' /\ GroupTypes' /\ NpcapTypes' /\ ControllerTypes'
    BY <1>2, FrameTypes DEF ReceiveLockLists
  <2>2. LockTypes'
    BY <1>2 DEF TypeOK, LockTypes, ReceiveLockLists, ListsHolders
  <2>3. ReceiverTypes'
    BY <1>2 DEF TypeOK, ReceiverTypes, ReceiveLockLists
  <2> QED
    BY <2>1, <2>2, <2>3 DEF TypeOK
<1>3. CASE ReceiveClosed
  <2>1. SocketTypes' /\ GroupTypes' /\ NpcapTypes' /\ ControllerTypes'
    BY <1>3, FrameTypes DEF ReceiveClosed
  <2>2. Plain("SOCKET_CLOSED") \in Errors
    BY PlainType DEF Codes
  <2>3. datagram' \in Packets \cup {NoDatagram}
    BY <1>3 DEF ReceiveClosed, TypeOK, ReceiverTypes
  <2>4. ReceiverTypes' /\ listsReaders' \in SUBSET ListsHolders
    BY <1>3, <2>2, <2>3, ReturnType DEF ReceiveClosed
  <2>5. LockTypes'
    BY <1>3, <2>4 DEF TypeOK, LockTypes, ReceiveClosed, Return
  <2> QED
    BY <2>1, <2>4, <2>5 DEF TypeOK
<1>4. CASE ReceiveNotBound
  <2>1. SocketTypes' /\ GroupTypes' /\ NpcapTypes' /\ ControllerTypes'
    BY <1>4, FrameTypes DEF ReceiveNotBound
  <2>2. Plain("NOT_BOUND") \in Errors
    BY PlainType DEF Codes
  <2>3. datagram' \in Packets \cup {NoDatagram}
    BY <1>4 DEF ReceiveNotBound, TypeOK, ReceiverTypes
  <2>4. ReceiverTypes' /\ listsReaders' \in SUBSET ListsHolders
    BY <1>4, <2>2, <2>3, ReturnType DEF ReceiveNotBound
  <2>5. LockTypes'
    BY <1>4, <2>4 DEF TypeOK, LockTypes, ReceiveNotBound, Return
  <2> QED
    BY <2>1, <2>4, <2>5 DEF TypeOK
<1>5. CASE StartPass
  <2>1. SocketTypes' /\ GroupTypes' /\ NpcapTypes' /\ ControllerTypes'
    BY <1>5, FrameTypes DEF StartPass
  <2>2. LockTypes'
    BY <1>5 DEF TypeOK, LockTypes, StartPass, ListsHolders
  <2>3. next_dev' \in Nat \ {0}
    BY <1>5 DEF StartPass, FirstDevice
  <2>4. ReceiverTypes'
    BY <1>5, <2>3 DEF TypeOK, ReceiverTypes, StartPass
  <2> QED
    BY <2>1, <2>2, <2>4 DEF TypeOK
<1>6. CASE PollEmpty
  <2>1. SocketTypes' /\ GroupTypes' /\ LockTypes' /\ NpcapTypes' /\ ControllerTypes'
    BY <1>6, FrameTypes DEF PollEmpty, NextDevice
  <2>2. ReceiverTypes'
    BY <1>6 DEF TypeOK, ReceiverTypes, PollEmpty, NextDevice
  <2> QED
    BY <2>1, <2>2 DEF TypeOK
<1>7. CASE PollDatagram
  <2>1. Polled \in Handles /\ queue[Polled] \in Seq(Packets) /\ queue[Polled] # <<>>
    BY <1>7 DEF PollDatagram, Polling, Polled, TypeOK, SocketTypes, NpcapTypes, ReceiverTypes
  <2>2. SocketTypes' /\ GroupTypes' /\ ControllerTypes'
    BY <1>7, FrameTypes DEF PollDatagram
  <2>3. Plain("OK") \in Errors
    BY PlainType DEF Codes
  <2>4. datagram' \in Packets \cup {NoDatagram}
    BY <1>7, <2>1 DEF PollDatagram, TypeOK, ReceiverTypes
  <2>5. ReceiverTypes' /\ listsReaders' \in SUBSET ListsHolders
    BY <1>7, <2>3, <2>4, ReturnType DEF PollDatagram
  <2>6. LockTypes'
    BY <1>7, <2>5 DEF TypeOK, LockTypes, PollDatagram, Return
  <2>7. NpcapTypes'
    BY <1>7, <2>1 DEF TypeOK, NpcapTypes, PollDatagram
  <2> QED
    BY <2>2, <2>5, <2>6, <2>7 DEF TypeOK
<1>8. CASE PollDiscard
  <2>1. Polled \in Handles /\ queue[Polled] \in Seq(Packets) /\ queue[Polled] # <<>>
    BY <1>8 DEF PollDiscard, Polling, Polled, TypeOK, SocketTypes, NpcapTypes, ReceiverTypes
  <2>2. SocketTypes' /\ GroupTypes' /\ LockTypes' /\ ControllerTypes'
    BY <1>8, FrameTypes DEF PollDiscard, NextDevice
  <2>3. NpcapTypes'
    BY <1>8, <2>1 DEF TypeOK, NpcapTypes, PollDiscard, NextDevice
  <2>4. ReceiverTypes'
    BY <1>8 DEF TypeOK, ReceiverTypes, PollDiscard, NextDevice
  <2> QED
    BY <2>2, <2>3, <2>4 DEF TypeOK
<1>9. CASE PollFragment
  <2>1. SocketTypes' /\ GroupTypes' /\ LockTypes' /\ NpcapTypes' /\ ControllerTypes'
    BY <1>9, FrameTypes DEF PollFragment
  <2>2. ReceiverTypes'
    BY <1>9 DEF TypeOK, ReceiverTypes, PollFragment
  <2> QED
    BY <2>1, <2>2 DEF TypeOK
<1>10. CASE PollError
  <2>1. SocketTypes' /\ GroupTypes' /\ NpcapTypes' /\ ControllerTypes'
    BY <1>10, FrameTypes DEF PollError
  <2>2. [code |-> "GENERIC_ERROR", message |-> "pcap_geterr"] \in Errors
    BY DEF Errors, Codes
  <2>3. datagram' \in Packets \cup {NoDatagram}
    BY <1>10 DEF PollError, TypeOK, ReceiverTypes
  <2>4. ReceiverTypes' /\ listsReaders' \in SUBSET ListsHolders
    BY <1>10, <2>2, <2>3, ReturnType DEF PollError
  <2>5. LockTypes'
    BY <1>10, <2>4 DEF TypeOK, LockTypes, PollError, Return
  <2> QED
    BY <2>1, <2>4, <2>5 DEF TypeOK
<1>11. CASE NextPass
  <2>1. SocketTypes' /\ GroupTypes' /\ NpcapTypes' /\ ControllerTypes'
    BY <1>11, FrameTypes DEF NextPass
  <2>2. LockTypes'
    BY <1>11 DEF TypeOK, LockTypes, NextPass
  <2>3. ReceiverTypes'
    BY <1>11 DEF TypeOK, ReceiverTypes, NextPass
  <2> QED
    BY <2>1, <2>2, <2>3 DEF TypeOK
<1>12. CASE OutOfTime
  <2>1. SocketTypes' /\ GroupTypes' /\ NpcapTypes' /\ ControllerTypes'
    BY <1>12, FrameTypes DEF OutOfTime
  <2>2. Plain("TIMEOUT") \in Errors
    BY PlainType DEF Codes
  <2>3. datagram' \in Packets \cup {NoDatagram}
    BY <1>12 DEF OutOfTime, TypeOK, ReceiverTypes
  <2>4. ReceiverTypes' /\ listsReaders' \in SUBSET ListsHolders
    BY <1>12, <2>2, <2>3, ReturnType DEF OutOfTime
  <2>5. LockTypes'
    BY <1>12, <2>4 DEF TypeOK, LockTypes, OutOfTime, Return
  <2> QED
    BY <2>1, <2>4, <2>5 DEF TypeOK
<1>13. CASE BeginWait
  <2>1. SocketTypes' /\ GroupTypes' /\ NpcapTypes' /\ ControllerTypes'
    BY <1>13, FrameTypes DEF BeginWait
  <2>2. LockTypes'
    BY <1>13 DEF TypeOK, LockTypes, BeginWait
  <2>3. ReceiverTypes'
    BY <1>13 DEF TypeOK, ReceiverTypes, BeginWait
  <2> QED
    BY <2>1, <2>2, <2>3 DEF TypeOK
<1>14. CASE WaitSignalled
  <2>1. SocketTypes' /\ GroupTypes' /\ LockTypes' /\ ControllerTypes'
    BY <1>14, FrameTypes DEF WaitSignalled, ContinueLoop
  <2>2. NpcapTypes'
    BY <1>14 DEF TypeOK, NpcapTypes, WaitSignalled, ContinueLoop
  <2>3. ReceiverTypes'
    BY <1>14 DEF TypeOK, ReceiverTypes, WaitSignalled, ContinueLoop
  <2> QED
    BY <2>1, <2>2, <2>3 DEF TypeOK
<1>15. CASE WaitFailed
  <2>1. SocketTypes' /\ GroupTypes' /\ LockTypes' /\ ControllerTypes'
    BY <1>15, FrameTypes DEF WaitFailed, ContinueLoop
  <2>2. NpcapTypes'
    BY <1>15 DEF TypeOK, NpcapTypes, WaitFailed, ContinueLoop
  <2>3. ReceiverTypes'
    BY <1>15 DEF TypeOK, ReceiverTypes, WaitFailed, ContinueLoop
  <2> QED
    BY <2>1, <2>2, <2>3 DEF TypeOK
<1>16. CASE WaitTimeout
  <2>1. SocketTypes' /\ GroupTypes' /\ NpcapTypes' /\ ControllerTypes'
    BY <1>16, FrameTypes DEF WaitTimeout
  <2>2. Plain("TIMEOUT") \in Errors
    BY PlainType DEF Codes
  <2>3. datagram' \in Packets \cup {NoDatagram}
    BY <1>16 DEF WaitTimeout, TypeOK, ReceiverTypes
  <2>4. ReceiverTypes' /\ listsReaders' \in SUBSET ListsHolders
    BY <1>16, <2>2, <2>3, ReturnType DEF WaitTimeout
  <2>5. LockTypes'
    BY <1>16, <2>4 DEF TypeOK, LockTypes, WaitTimeout, Return
  <2> QED
    BY <2>1, <2>4, <2>5 DEF TypeOK
<1>17. ASSUME NEW address \in BindAddresses, NEW port \in Ports, Bind(address, port)
      PROVE  TypeOK'
  <2>1. SocketTypes' /\ GroupTypes' /\ NpcapTypes' /\ ReceiverTypes'
    BY <1>17, FrameTypes DEF Bind
  <2>2. LockTypes'
    BY <1>17 DEF TypeOK, LockTypes, Bind
  <2>3. ControllerTypes'
    BY <1>17, DevicesToOpenType DEF TypeOK, ControllerTypes, Bind, BoundAddresses, BoundPorts
  <2> QED
    BY <2>1, <2>2, <2>3 DEF TypeOK
<1>18. ASSUME NEW group \in Groups, JoinMulticastGroup(group)
      PROVE  TypeOK'
  <2>1. SocketTypes' /\ LockTypes' /\ NpcapTypes' /\ ReceiverTypes'
    BY <1>18, FrameTypes DEF JoinMulticastGroup, UpdateAllCaptureFilters
  <2>2. GroupTypes'
    BY <1>18 DEF TypeOK, GroupTypes, JoinMulticastGroup, UpdateAllCaptureFilters
  <2>3. ControllerTypes'
    BY <1>18 DEF TypeOK, ControllerTypes, JoinMulticastGroup, UpdateAllCaptureFilters, FiltersToUpdate, SocketTypes
  <2> QED
    BY <2>1, <2>2, <2>3 DEF TypeOK
<1>19. ASSUME NEW group \in Groups, LeaveMulticastGroup(group)
      PROVE  TypeOK'
  <2>1. SocketTypes' /\ LockTypes' /\ NpcapTypes' /\ ReceiverTypes'
    BY <1>19, FrameTypes DEF LeaveMulticastGroup, UpdateAllCaptureFilters
  <2>2. GroupTypes'
    BY <1>19 DEF TypeOK, GroupTypes, LeaveMulticastGroup, UpdateAllCaptureFilters
  <2>3. ControllerTypes'
    BY <1>19 DEF TypeOK, ControllerTypes, LeaveMulticastGroup, UpdateAllCaptureFilters, FiltersToUpdate, SocketTypes
  <2> QED
    BY <2>1, <2>2, <2>3 DEF TypeOK
<1>20. ASSUME NEW enabled \in BOOLEAN, SetMulticastLoopbackEnabled(enabled)
      PROVE  TypeOK'
  <2>1. SocketTypes' /\ LockTypes' /\ NpcapTypes' /\ ReceiverTypes'
    BY <1>20, FrameTypes DEF SetMulticastLoopbackEnabled, UpdateAllCaptureFilters
  <2>2. GroupTypes'
    BY <1>20 DEF TypeOK, GroupTypes, SetMulticastLoopbackEnabled, UpdateAllCaptureFilters, KickstartOnEnable, KickstartLoopbackMulticast
  <2>3. ControllerTypes'
    BY <1>20 DEF TypeOK, ControllerTypes, SetMulticastLoopbackEnabled, UpdateAllCaptureFilters, FiltersToUpdate, SocketTypes
  <2> QED
    BY <2>1, <2>2, <2>3 DEF TypeOK
<1>21. ASSUME NEW size \in BufferSizes, SetReceiveBufferSize(size)
      PROVE  TypeOK'
  <2>1. GroupTypes' /\ LockTypes' /\ NpcapTypes' /\ ReceiverTypes' /\ ControllerTypes'
    BY <1>21, FrameTypes DEF SetReceiveBufferSize
  <2>2. SocketTypes'
    BY <1>21 DEF TypeOK, SocketTypes, SetReceiveBufferSize, Acceptable, BufferSizesInUse
  <2> QED
    BY <2>1, <2>2 DEF TypeOK
<1>22. CASE Close
  <2>1. SocketTypes' /\ GroupTypes' /\ NpcapTypes' /\ ReceiverTypes'
    BY <1>22, FrameTypes DEF Close
  <2>2. LockTypes'
    BY <1>22 DEF TypeOK, LockTypes, Close, ListsHolders
  <2>3. ControllerTypes'
    BY <1>22 DEF TypeOK, ControllerTypes, Close
  <2> QED
    BY <2>1, <2>2, <2>3 DEF TypeOK
<1>23. ASSUME NEW h \in Handles, OpenPcapDevice(h)
      PROVE  TypeOK'
  <2>1. GroupTypes' /\ LockTypes' /\ ReceiverTypes'
    BY <1>23, FrameTypes DEF OpenPcapDevice
  <2>2. SocketTypes'
    BY <1>23 DEF TypeOK, SocketTypes, OpenPcapDevice
  <2>3. NpcapTypes'
    BY <1>23, NoFilterType DEF TypeOK, NpcapTypes, OpenPcapDevice, ControllerTypes, SocketTypes, ActivatedSize, BufferSizesInUse
  <2>4. ControllerTypes'
    BY <1>23 DEF TypeOK, ControllerTypes, OpenPcapDevice
  <2> QED
    BY <2>1, <2>2, <2>3, <2>4 DEF TypeOK
<1>24. CASE OpenPcapDeviceFails
  <2>1. SocketTypes' /\ GroupTypes' /\ NpcapTypes' /\ ReceiverTypes'
    BY <1>24, FrameTypes DEF OpenPcapDeviceFails
  <2>2. LockTypes'
    BY <1>24 DEF TypeOK, LockTypes, OpenPcapDeviceFails, lockVars
  <2>3. ControllerTypes'
    <3>1. to_open' \in Seq(Devices)
      <4>1. to_open # <<>> /\ (to_open' = Tail(to_open) \/ to_open' = <<>>)
        BY <1>24 DEF OpenPcapDeviceFails
      <4>2. to_open \in Seq(Devices)
        BY DEF TypeOK, ControllerTypes
      <4>3. Tail(to_open) \in Seq(Devices)
        BY <4>1, <4>2
      <4>4. <<>> \in Seq(Devices)
        OBVIOUS
      <4> QED
        BY <4>1, <4>3, <4>4
    <3>2. to_bind' \in [address : BoundAddresses, port : BoundPorts]
      BY <1>24 DEF TypeOK, ControllerTypes, OpenPcapDeviceFails, NoBind, BoundAddresses, BoundPorts
    <3>3. /\ cpc' \in {"idle", "open"} /\ call' \in {"none", call}
          /\ to_visit' = to_visit
      BY <1>24 DEF OpenPcapDeviceFails
    <3> QED
      BY <3>1, <3>2, <3>3 DEF TypeOK, ControllerTypes
  <2> QED
    BY <2>1, <2>2, <2>3 DEF TypeOK
<1>25. CASE BindCommit
  <2>1. GroupTypes' /\ LockTypes' /\ NpcapTypes' /\ ReceiverTypes'
    BY <1>25, FrameTypes DEF BindCommit
  <2>2. SocketTypes'
    BY <1>25 DEF TypeOK, SocketTypes, BindCommit, ControllerTypes
  <2>3. ControllerTypes'
    BY <1>25 DEF TypeOK, ControllerTypes, BindCommit, SocketTypes, NoBind, BoundAddresses, BoundPorts
  <2> QED
    BY <2>1, <2>2, <2>3 DEF TypeOK
<1>26. CASE UpdateCaptureFilter
  <2>1. SocketTypes' /\ GroupTypes' /\ LockTypes' /\ ReceiverTypes'
    BY <1>26, FrameTypes DEF UpdateCaptureFilter
  <2>2. NpcapTypes'
    <3> DEFINE h == Head(to_visit)
    <3>1. h \in Handles
      BY <1>26 DEF UpdateCaptureFilter, TypeOK, ControllerTypes
    <3>2. CASE UNCHANGED <<filter, queue>>
      BY <1>26, <3>2 DEF UpdateCaptureFilter, TypeOK, NpcapTypes
    <3>3. ASSUME NEW mac \in {Mac[device[h]], NoMac},
                 filter' = [filter EXCEPT ![h] = WantedFilter(h, mac)],
                 queue' = [queue EXCEPT ![h] = <<>>]
          PROVE  NpcapTypes'
      <4>1. filter' \in [Handles -> Filters]
        BY <3>1, <3>3, FilterType DEF TypeOK, NpcapTypes
      <4>2. queue' \in [Handles -> Seq(Packets)]
        BY <3>1, <3>3 DEF TypeOK, NpcapTypes
      <4> QED
        BY <1>26, <4>1, <4>2 DEF UpdateCaptureFilter, TypeOK, NpcapTypes
    <3> QED
      BY <1>26, <3>2, <3>3 DEF UpdateCaptureFilter
  <2>3. ControllerTypes'
    BY <1>26 DEF TypeOK, ControllerTypes, UpdateCaptureFilter
  <2> QED
    BY <2>1, <2>2, <2>3 DEF TypeOK
<1>27. CASE FiltersUpdated
  <2>1. SocketTypes' /\ NpcapTypes' /\ ReceiverTypes'
    BY <1>27, FrameTypes DEF FiltersUpdated
  <2>2. GroupTypes'
    BY <1>27 DEF TypeOK, GroupTypes, FiltersUpdated, KickstartLoopbackMulticast
  <2>3. LockTypes'
    BY <1>27 DEF TypeOK, LockTypes, FiltersUpdated
  <2>4. ControllerTypes'
    BY <1>27 DEF TypeOK, ControllerTypes, FiltersUpdated
  <2> QED
    BY <2>1, <2>2, <2>3, <2>4 DEF TypeOK
<1>28. CASE MarkClosed
  <2>1. GroupTypes' /\ NpcapTypes' /\ ReceiverTypes'
    BY <1>28, FrameTypes DEF MarkClosed
  <2>2. SocketTypes'
    BY <1>28 DEF TypeOK, SocketTypes, MarkClosed
  <2>3. LockTypes'
    BY <1>28 DEF TypeOK, LockTypes, MarkClosed, ListsHolders
  <2>4. ControllerTypes'
    BY <1>28 DEF TypeOK, ControllerTypes, MarkClosed, HandlesToClose, SocketTypes
  <2> QED
    BY <2>1, <2>2, <2>3, <2>4 DEF TypeOK
<1>29. CASE PcapClose
  <2>1. SocketTypes' /\ GroupTypes' /\ LockTypes' /\ ReceiverTypes'
    BY <1>29, FrameTypes DEF PcapClose
  <2>2. NpcapTypes'
    BY <1>29, NoFilterType, DevicesAssumption DEF TypeOK, NpcapTypes, PcapClose, BufferSizesInUse, ControllerTypes
  <2>3. ControllerTypes'
    BY <1>29 DEF TypeOK, ControllerTypes, PcapClose
  <2> QED
    BY <2>1, <2>2, <2>3 DEF TypeOK
<1>30. CASE HandlesClosed
  <2>1. SocketTypes' /\ GroupTypes' /\ NpcapTypes' /\ ReceiverTypes'
    BY <1>30, FrameTypes DEF HandlesClosed, ReadersAfterClosing, OwnerAfterClosing
  <2>2. LockTypes'
    BY <1>30 DEF TypeOK, LockTypes, HandlesClosed, ReadersAfterClosing, OwnerAfterClosing
  <2>3. ControllerTypes'
    BY <1>30 DEF TypeOK, ControllerTypes, HandlesClosed, ReadersAfterClosing, OwnerAfterClosing
  <2> QED
    BY <2>1, <2>2, <2>3 DEF TypeOK
<1>31. CASE ClearLists
  <2>1. GroupTypes' /\ LockTypes' /\ NpcapTypes' /\ ReceiverTypes'
    BY <1>31, FrameTypes DEF ClearLists, ClearedLists
  <2>2. SocketTypes'
    BY <1>31 DEF TypeOK, SocketTypes, ClearLists, ClearedLists
  <2>3. ControllerTypes'
    BY <1>31 DEF TypeOK, ControllerTypes, ClearLists, ClearedLists
  <2> QED
    BY <2>1, <2>2, <2>3 DEF TypeOK
<1>32. CASE ResetBinding
  <2>1. GroupTypes' /\ LockTypes' /\ NpcapTypes' /\ ReceiverTypes'
    BY <1>32, FrameTypes DEF ResetBinding
  <2>2. SocketTypes'
    BY <1>32 DEF TypeOK, SocketTypes, ResetBinding, BoundAddresses, BoundPorts
  <2>3. ControllerTypes'
    BY <1>32 DEF TypeOK, ControllerTypes, ResetBinding
  <2> QED
    BY <2>1, <2>2, <2>3 DEF TypeOK
<1>33. ASSUME NEW h \in Handles, NEW p \in Packets, Arrive(h, p)
      PROVE  TypeOK'
  <2>1. SocketTypes' /\ GroupTypes' /\ LockTypes' /\ ReceiverTypes' /\ ControllerTypes'
    BY <1>33, FrameTypes DEF Arrive
  <2>2. NpcapTypes'
    BY <1>33 DEF TypeOK, NpcapTypes, Arrive
  <2> QED
    BY <2>1, <2>2 DEF TypeOK
<1>34. CASE UNCHANGED vars
  BY <1>34, FrameTypes DEF vars, TypeOK
<1> QED
  BY <1>1, <1>2, <1>3, <1>4, <1>5, <1>6, <1>7, <1>8, <1>9, <1>10, <1>11, <1>12, <1>13,
     <1>14, <1>15, <1>16, <1>17, <1>18, <1>19, <1>20, <1>21, <1>22, <1>23, <1>24,
     <1>25, <1>26, <1>27, <1>28, <1>29, <1>30, <1>31, <1>32, <1>33, <1>34
  DEF Next, ReceiverCall, ReceiverStep, ControllerCall, ControllerStep, Capture

\* Type correctness: no call, in whatever order and interleaving, takes over a
\* buffer size below MAX_PACKET_SIZE or leaves a variable outside its range.
THEOREM TypeCorrect == Spec => []TypeOK
  BY TypeInit, TypeStep, PTL DEF Spec

-----------------------------------------------------------------------------
(* Handles, mutexes and wake-ups: HandleInv is inductive. *)

\* What Tail leaves of the elements of a list, and of their being distinct.
LEMMA TailElements ==
  ASSUME NEW S, NEW s \in Seq(S), s # <<>>
  PROVE  /\ Range(Tail(s)) \subseteq Range(s)
         /\ Range(s) = Range(Tail(s)) \cup {Head(s)}
         /\ IsInjective(s) => IsInjective(Tail(s)) /\ Head(s) \notin Range(Tail(s))
<1>1. /\ Len(s) \in Nat \ {0} /\ Len(Tail(s)) = Len(s) - 1
      /\ DOMAIN s = 1..Len(s) /\ DOMAIN Tail(s) = 1..Len(Tail(s))
      /\ Head(s) = s[1]
      /\ \A i \in 1..Len(Tail(s)) : Tail(s)[i] = s[i + 1]
  OBVIOUS
<1>2. Range(Tail(s)) \subseteq Range(s)
  BY <1>1 DEF Range
<1>3. Range(s) \subseteq Range(Tail(s)) \cup {Head(s)}
  <2> SUFFICES ASSUME NEW i \in 1..Len(s), s[i] # Head(s)
               PROVE  s[i] \in Range(Tail(s))
    BY <1>1 DEF Range
  <2>1. i - 1 \in 1..Len(Tail(s)) /\ Tail(s)[i - 1] = s[i]
    BY <1>1
  <2> QED
    BY <1>1, <2>1 DEF Range
<1>4. Head(s) \in Range(s)
  BY <1>1 DEF Range
<1>5. IsInjective(s) => IsInjective(Tail(s)) /\ Head(s) \notin Range(Tail(s))
  BY <1>1 DEF Range, IsInjective
<1> QED
  BY <1>2, <1>3, <1>4, <1>5

LEMMA UpdateCaptureFilterTracked ==
  ASSUME TypeOK, OpenHandlesAreTracked, UpdateCaptureFilter
  PROVE  OpenHandlesAreTracked'
<1>1. to_visit \in Seq(Handles) /\ to_visit # <<>> /\ to_visit' = Tail(to_visit)
  BY DEF UpdateCaptureFilter, TypeOK, ControllerTypes
<1>2. Range(to_visit') \subseteq Range(to_visit)
  BY <1>1, TailElements
<1>3. UNCHANGED <<cpc, live, pcap_devices_>> /\ cpc = "filter"
  BY DEF UpdateCaptureFilter, socketVars
<1> QED
  BY <1>2, <1>3 DEF OpenHandlesAreTracked, Listed

LEMMA PcapCloseTracked ==
  ASSUME TypeOK, OpenHandlesAreTracked, ClosesOnce, PcapClose
  PROVE  OpenHandlesAreTracked' /\ ClosesOnce'
<1>1. /\ to_visit \in Seq(Handles) /\ to_visit # <<>> /\ to_visit' = Tail(to_visit)
      /\ live' = live \ {Head(to_visit)}
  BY DEF PcapClose, TypeOK, ControllerTypes
<1>2. cpc = "pcap_close" /\ UNCHANGED <<cpc, pcap_devices_>>
  BY DEF PcapClose, socketVars
<1>3. IsInjective(to_visit)
  BY <1>2 DEF ClosesOnce
<1>4. Range(to_visit') = Range(to_visit) \ {Head(to_visit)} /\ IsInjective(to_visit')
  BY <1>1, <1>3, TailElements
<1> QED
  BY <1>1, <1>2, <1>4 DEF OpenHandlesAreTracked, ClosesOnce

LEMMA OpenPcapDeviceTracked ==
  ASSUME TypeOK, OpenHandlesAreTracked, NEW h \in Handles, OpenPcapDevice(h)
  PROVE  OpenHandlesAreTracked'
<1>1. /\ pcap_devices_ \in Seq(Handles) /\ pcap_devices_' = Append(pcap_devices_, h)
      /\ live' = live \cup {h} /\ h \notin live
      /\ cpc = "open" /\ cpc' = "open"
  BY DEF OpenPcapDevice, TypeOK, SocketTypes
<1>2. Listed = live
  BY <1>1 DEF OpenHandlesAreTracked
<1>3. Listed' = Listed \cup {h}
  BY <1>1 DEF Listed, Range
<1>4. IsInjective(pcap_devices_')
  BY <1>1, <1>2 DEF OpenHandlesAreTracked, Listed, Range, IsInjective
<1> QED
  BY <1>1, <1>2, <1>3, <1>4 DEF OpenHandlesAreTracked

LEMMA MutexOwnersStep == TypeOK /\ HandleInv /\ [Next]_vars => MutexOwners'
<1> SUFFICES ASSUME TypeOK, HandleInv, [Next]_vars PROVE MutexOwners'
  OBVIOUS
<1> USE DEF HandleInv, MutexOwners, BindRunsAlone, socketVars, groupVars,
            npcapVars, lockVars, receiverVars, controllerVars
<1>1. CASE    PollEmpty \/ PollDiscard \/ PollFragment
           \/ (\E size \in BufferSizes : SetReceiveBufferSize(size))
           \/ UpdateCaptureFilter \/ PcapClose
           \/ (\E h \in Handles : \E p \in Packets : Arrive(h, p))
           \/ (\E h \in Handles : OpenPcapDevice(h))
  BY <1>1 DEF PollEmpty, NextDevice, Polling, Polled, PollDiscard, PollFragment,
              SetReceiveBufferSize, UpdateCaptureFilter, PcapClose, Arrive,
              OpenPcapDevice
<1>2. ASSUME NEW t \in Timeouts, ReceiveDatagram(t)
      PROVE  MutexOwners'
  BY <1>2 DEF ReceiveDatagram
<1>3. CASE ReceiveLockLists
  BY <1>3 DEF ReceiveLockLists
<1>4. CASE ReceiveClosed
  BY <1>4 DEF ReceiveClosed, Return
<1>5. CASE ReceiveNotBound
  BY <1>5 DEF ReceiveNotBound, Return
<1>6. CASE StartPass
  BY <1>6 DEF StartPass
<1>7. CASE PollDatagram
  BY <1>7 DEF PollDatagram, Return, Polling, Polled
<1>8. CASE PollError
  BY <1>8 DEF PollError, Return, Polling
<1>9. CASE NextPass
  BY <1>9 DEF NextPass, EndOfPass, NothingReceived
<1>10. CASE OutOfTime
  BY <1>10 DEF OutOfTime, Return, EndOfPass
<1>11. CASE BeginWait
  BY <1>11 DEF BeginWait, EndOfPass, NothingReceived
<1>12. CASE WaitSignalled
  BY <1>12 DEF WaitSignalled, ContinueLoop
<1>13. CASE WaitFailed
  BY <1>13 DEF WaitFailed, ContinueLoop
<1>14. CASE WaitTimeout
  BY <1>14 DEF WaitTimeout, Return
<1>15. ASSUME NEW address \in BindAddresses, NEW port \in Ports, Bind(address, port)
      PROVE  MutexOwners'
  BY <1>15 DEF Bind
<1>16. ASSUME NEW group \in Groups, JoinMulticastGroup(group)
      PROVE  MutexOwners'
  BY <1>16 DEF JoinMulticastGroup, UpdateAllCaptureFilters, FiltersToUpdate
<1>17. ASSUME NEW group \in Groups, LeaveMulticastGroup(group)
      PROVE  MutexOwners'
  BY <1>17 DEF LeaveMulticastGroup, UpdateAllCaptureFilters, FiltersToUpdate
<1>18. ASSUME NEW enabled \in BOOLEAN, SetMulticastLoopbackEnabled(enabled)
      PROVE  MutexOwners'
  BY <1>18 DEF SetMulticastLoopbackEnabled, UpdateAllCaptureFilters, FiltersToUpdate
<1>19. CASE Close
  BY <1>19 DEF Close
<1>20. CASE OpenPcapDeviceFails
  BY <1>20 DEF OpenPcapDeviceFails
<1>21. CASE BindCommit
  BY <1>21 DEF BindCommit
<1>22. CASE FiltersUpdated
  BY <1>22 DEF FiltersUpdated
<1>23. CASE MarkClosed
  BY <1>23 DEF MarkClosed, CallbackMutexFree, HandlesToClose
<1>24. CASE HandlesClosed
  BY <1>24 DEF HandlesClosed, ReadersAfterClosing, OwnerAfterClosing
<1>25. CASE ClearLists
  BY <1>25 DEF ClearLists, ClearedLists, ListsUnread
<1>26. CASE ResetBinding
  BY <1>26 DEF ResetBinding
<1>27. CASE UNCHANGED vars
  BY <1>27 DEF vars
<1> QED
  BY <1>1, <1>2, <1>3, <1>4, <1>5, <1>6, <1>7, <1>8, <1>9, <1>10, <1>11, <1>12,
     <1>13, <1>14, <1>15, <1>16, <1>17, <1>18, <1>19, <1>20, <1>21, <1>22, <1>23,
     <1>24, <1>25, <1>26, <1>27
  DEF Next, ReceiverCall, ReceiverStep, ControllerCall, ControllerStep, Capture

LEMMA BindRunsAloneStep == TypeOK /\ HandleInv /\ [Next]_vars => BindRunsAlone'
<1> SUFFICES ASSUME TypeOK, HandleInv, [Next]_vars PROVE BindRunsAlone'
  OBVIOUS
<1> USE DEF HandleInv, BindRunsAlone, OutsideBind, socketVars, groupVars,
            npcapVars, lockVars, receiverVars, controllerVars
<1>1. CASE    PollEmpty \/ PollDiscard \/ PollFragment \/ WaitSignalled
           \/ WaitFailed \/ (\E size \in BufferSizes : SetReceiveBufferSize(size))
           \/ UpdateCaptureFilter \/ PcapClose
           \/ (\E h \in Handles : \E p \in Packets : Arrive(h, p))
  BY <1>1 DEF PollEmpty, NextDevice, Polling, Polled, PollDiscard, PollFragment,
              WaitSignalled, ContinueLoop, WaitFailed, SetReceiveBufferSize,
              UpdateCaptureFilter, PcapClose, Arrive
<1>2. ASSUME NEW t \in Timeouts, ReceiveDatagram(t)
      PROVE  BindRunsAlone'
  BY <1>2 DEF ReceiveDatagram
<1>3. CASE ReceiveLockLists
  BY <1>3 DEF ReceiveLockLists
<1>4. CASE ReceiveClosed
  BY <1>4 DEF ReceiveClosed, Return
<1>5. CASE ReceiveNotBound
  BY <1>5 DEF ReceiveNotBound, Return
<1>6. CASE StartPass
  BY <1>6 DEF StartPass
<1>7. CASE PollDatagram
  BY <1>7 DEF PollDatagram, Return, Polling, Polled
<1>8. CASE PollError
  BY <1>8 DEF PollError, Return, Polling
<1>9. CASE NextPass
  BY <1>9 DEF NextPass, EndOfPass, NothingReceived
<1>10. CASE OutOfTime
  BY <1>10 DEF OutOfTime, Return, EndOfPass
<1>11. CASE BeginWait
  BY <1>11 DEF BeginWait, EndOfPass, NothingReceived
<1>12. CASE WaitTimeout
  BY <1>12 DEF WaitTimeout, Return
<1>13. ASSUME NEW address \in BindAddresses, NEW port \in Ports, Bind(address, port)
      PROVE  BindRunsAlone'
  BY <1>13 DEF Bind
<1>14. ASSUME NEW group \in Groups, JoinMulticastGroup(group)
      PROVE  BindRunsAlone'
  BY <1>14 DEF JoinMulticastGroup, UpdateAllCaptureFilters, FiltersToUpdate
<1>15. ASSUME NEW group \in Groups, LeaveMulticastGroup(group)
      PROVE  BindRunsAlone'
  BY <1>15 DEF LeaveMulticastGroup, UpdateAllCaptureFilters, FiltersToUpdate
<1>16. ASSUME NEW enabled \in BOOLEAN, SetMulticastLoopbackEnabled(enabled)
      PROVE  BindRunsAlone'
  BY <1>16 DEF SetMulticastLoopbackEnabled, UpdateAllCaptureFilters, FiltersToUpdate
<1>17. CASE Close
  BY <1>17 DEF Close
<1>18. ASSUME NEW h \in Handles, OpenPcapDevice(h)
      PROVE  BindRunsAlone'
  BY <1>18 DEF OpenPcapDevice
<1>19. CASE OpenPcapDeviceFails
  BY <1>19 DEF OpenPcapDeviceFails
<1>20. CASE BindCommit
  BY <1>20 DEF BindCommit
<1>21. CASE FiltersUpdated
  BY <1>21 DEF FiltersUpdated
<1>22. CASE MarkClosed
  BY <1>22 DEF MarkClosed, CallbackMutexFree, HandlesToClose
<1>23. CASE HandlesClosed
  BY <1>23 DEF HandlesClosed, ReadersAfterClosing, OwnerAfterClosing
<1>24. CASE ClearLists
  BY <1>24 DEF ClearLists, ClearedLists, ListsUnread
<1>25. CASE ResetBinding
  BY <1>25 DEF ResetBinding
<1>26. CASE UNCHANGED vars
  BY <1>26 DEF vars
<1> QED
  BY <1>1, <1>2, <1>3, <1>4, <1>5, <1>6, <1>7, <1>8, <1>9, <1>10, <1>11, <1>12,
     <1>13, <1>14, <1>15, <1>16, <1>17, <1>18, <1>19, <1>20, <1>21, <1>22, <1>23,
     <1>24, <1>25, <1>26
  DEF Next, ReceiverCall, ReceiverStep, ControllerCall, ControllerStep, Capture

LEMMA ClosingIsMarkedStep == TypeOK /\ HandleInv /\ [Next]_vars => ClosingIsMarked'
<1> SUFFICES ASSUME TypeOK, HandleInv, [Next]_vars PROVE ClosingIsMarked'
  OBVIOUS
<1> USE DEF HandleInv, ClosingIsMarked, socketVars, groupVars, npcapVars, lockVars,
            receiverVars, controllerVars
<1>1. CASE    (\E t \in Timeouts : ReceiveDatagram(t)) \/ ReceiveLockLists
           \/ ReceiveClosed \/ ReceiveNotBound \/ StartPass \/ PollEmpty
           \/ PollDatagram \/ PollDiscard
  BY <1>1 DEF ReceiveDatagram, ReceiveLockLists, ReceiveClosed, Return,
              ReceiveNotBound, StartPass, PollEmpty, NextDevice, Polling, Polled,
              PollDatagram, PollDiscard
<1>2. CASE    PollFragment \/ PollError \/ NextPass \/ OutOfTime \/ BeginWait
           \/ WaitSignalled \/ WaitFailed \/ WaitTimeout
  BY <1>2 DEF PollFragment, Polling, PollError, Return, NextPass, EndOfPass,
              NothingReceived, OutOfTime, BeginWait, WaitSignalled, ContinueLoop,
              WaitFailed, WaitTimeout
<1>3. CASE    (\E size \in BufferSizes : SetReceiveBufferSize(size))
           \/ UpdateCaptureFilter
           \/ (\E h \in Handles : \E p \in Packets : Arrive(h, p))
           \/ (\E h \in Handles : OpenPcapDevice(h))
  BY <1>3 DEF SetReceiveBufferSize, UpdateCaptureFilter, Arrive, OpenPcapDevice
<1>4. ASSUME NEW address \in BindAddresses, NEW port \in Ports, Bind(address, port)
      PROVE  ClosingIsMarked'
  BY <1>4 DEF Bind
<1>5. ASSUME NEW group \in Groups, JoinMulticastGroup(group)
      PROVE  ClosingIsMarked'
  BY <1>5 DEF JoinMulticastGroup, UpdateAllCaptureFilters, FiltersToUpdate
<1>6. ASSUME NEW group \in Groups, LeaveMulticastGroup(group)
      PROVE  ClosingIsMarked'
  BY <1>6 DEF LeaveMulticastGroup, UpdateAllCaptureFilters, FiltersToUpdate
<1>7. ASSUME NEW enabled \in BOOLEAN, SetMulticastLoopbackEnabled(enabled)
      PROVE  ClosingIsMarked'
  BY <1>7 DEF SetMulticastLoopbackEnabled, UpdateAllCaptureFilters, FiltersToUpdate
<1>8. CASE Close
  BY <1>8 DEF Close
<1>9. CASE OpenPcapDeviceFails
  BY <1>9 DEF OpenPcapDeviceFails
<1>10. CASE BindCommit
  BY <1>10 DEF BindCommit
<1>11. CASE FiltersUpdated
  BY <1>11 DEF FiltersUpdated
<1>12. CASE MarkClosed
  BY <1>12 DEF MarkClosed, CallbackMutexFree, HandlesToClose
<1>13. CASE PcapClose
  BY <1>13 DEF PcapClose
<1>14. CASE HandlesClosed
  BY <1>14 DEF HandlesClosed, ReadersAfterClosing, OwnerAfterClosing
<1>15. CASE ClearLists
  BY <1>15 DEF ClearLists, ClearedLists, ListsUnread
<1>16. CASE ResetBinding
  BY <1>16 DEF ResetBinding
<1>17. CASE UNCHANGED vars
  BY <1>17 DEF vars
<1> QED
  BY <1>1, <1>2, <1>3, <1>4, <1>5, <1>6, <1>7, <1>8, <1>9, <1>10, <1>11, <1>12,
     <1>13, <1>14, <1>15, <1>16, <1>17
  DEF Next, ReceiverCall, ReceiverStep, ControllerCall, ControllerStep, Capture

LEMMA PolledHandlesAreOpenStep == TypeOK /\ HandleInv /\ [Next]_vars => PolledHandlesAreOpen'
<1> SUFFICES ASSUME TypeOK, HandleInv, [Next]_vars PROVE PolledHandlesAreOpen'
  OBVIOUS
<1> USE DEF HandleInv, MutexOwners, BindRunsAlone, ClosingIsMarked,
            PolledHandlesAreOpen, OpenHandlesAreTracked, MayPoll, Listed,
            socketVars, groupVars, npcapVars, lockVars, receiverVars, controllerVars
<1>1. CASE    (\E group \in Groups : JoinMulticastGroup(group))
           \/ (\E group \in Groups : LeaveMulticastGroup(group))
           \/ (\E enabled \in BOOLEAN : SetMulticastLoopbackEnabled(enabled))
           \/ (\E size \in BufferSizes : SetReceiveBufferSize(size))
           \/ UpdateCaptureFilter \/ FiltersUpdated
           \/ (\E h \in Handles : \E p \in Packets : Arrive(h, p))
  BY <1>1 DEF JoinMulticastGroup, UpdateAllCaptureFilters, FiltersToUpdate,
              LeaveMulticastGroup, SetMulticastLoopbackEnabled,
              SetReceiveBufferSize, UpdateCaptureFilter, FiltersUpdated, Arrive
<1>2. ASSUME NEW t \in Timeouts, ReceiveDatagram(t)
      PROVE  PolledHandlesAreOpen'
  BY <1>2 DEF ReceiveDatagram
<1>3. CASE ReceiveLockLists
  BY <1>3 DEF ReceiveLockLists
<1>4. CASE ReceiveClosed
  BY <1>4 DEF ReceiveClosed, Return
<1>5. CASE ReceiveNotBound
  BY <1>5 DEF ReceiveNotBound, Return
<1>6. CASE StartPass
  BY <1>6 DEF StartPass
<1>7. CASE PollEmpty
  BY <1>7 DEF PollEmpty, NextDevice, Polling, Polled
<1>8. CASE PollDatagram
  BY <1>8 DEF PollDatagram, Return, Polling, Polled
<1>9. CASE PollDiscard
  BY <1>9 DEF PollDiscard, NextDevice, Polling, Polled
<1>10. CASE PollFragment
  BY <1>10 DEF PollFragment, Polling
<1>11. CASE PollError
  BY <1>11 DEF PollError, Return, Polling
<1>12. CASE NextPass
  BY <1>12 DEF NextPass, EndOfPass, NothingReceived
<1>13. CASE OutOfTime
  BY <1>13 DEF OutOfTime, Return, EndOfPass
<1>14. CASE BeginWait
  BY <1>14 DEF BeginWait, EndOfPass, NothingReceived
<1>15. CASE WaitSignalled
  BY <1>15 DEF WaitSignalled, ContinueLoop
<1>16. CASE WaitFailed
  BY <1>16 DEF WaitFailed, ContinueLoop
<1>17. CASE WaitTimeout
  BY <1>17 DEF WaitTimeout, Return
<1>18. ASSUME NEW address \in BindAddresses, NEW port \in Ports, Bind(address, port)
      PROVE  PolledHandlesAreOpen'
  BY <1>18 DEF Bind
<1>19. CASE Close
  BY <1>19 DEF Close
<1>20. ASSUME NEW h \in Handles, OpenPcapDevice(h)
      PROVE  PolledHandlesAreOpen'
  BY <1>20 DEF OpenPcapDevice
<1>21. CASE OpenPcapDeviceFails
  BY <1>21 DEF OpenPcapDeviceFails
<1>22. CASE BindCommit
  BY <1>22 DEF BindCommit
<1>23. CASE MarkClosed
  BY <1>23 DEF MarkClosed, CallbackMutexFree, HandlesToClose
<1>24. CASE PcapClose
  BY <1>24 DEF PcapClose
<1>25. CASE HandlesClosed
  BY <1>25 DEF HandlesClosed, ReadersAfterClosing, OwnerAfterClosing
<1>26. CASE ClearLists
  BY <1>26 DEF ClearLists, ClearedLists, ListsUnread
<1>27. CASE ResetBinding
  BY <1>27 DEF ResetBinding
<1>28. CASE UNCHANGED vars
  BY <1>28 DEF vars
<1> QED
  BY <1>1, <1>2, <1>3, <1>4, <1>5, <1>6, <1>7, <1>8, <1>9, <1>10, <1>11, <1>12,
     <1>13, <1>14, <1>15, <1>16, <1>17, <1>18, <1>19, <1>20, <1>21, <1>22, <1>23,
     <1>24, <1>25, <1>26, <1>27, <1>28
  DEF Next, ReceiverCall, ReceiverStep, ControllerCall, ControllerStep, Capture

LEMMA OpenHandlesAreTrackedStep == TypeOK /\ HandleInv /\ [Next]_vars => OpenHandlesAreTracked'
<1> SUFFICES ASSUME TypeOK, HandleInv, [Next]_vars PROVE OpenHandlesAreTracked'
  OBVIOUS
<1> USE DEF HandleInv, MutexOwners, BindRunsAlone, ClosingIsMarked,
            OpenHandlesAreTracked, Listed, TypeOK, SocketTypes, ControllerTypes,
            socketVars, groupVars, npcapVars, lockVars, receiverVars, controllerVars
<1>1. CASE    (\E t \in Timeouts : ReceiveDatagram(t)) \/ ReceiveLockLists
           \/ ReceiveClosed \/ ReceiveNotBound \/ StartPass \/ PollEmpty
           \/ PollDatagram \/ PollDiscard
  BY <1>1 DEF ReceiveDatagram, ReceiveLockLists, ReceiveClosed, Return,
              ReceiveNotBound, StartPass, PollEmpty, NextDevice, Polled,
              PollDatagram, PollDiscard
<1>2. CASE    PollFragment \/ PollError \/ NextPass \/ OutOfTime \/ BeginWait
           \/ WaitSignalled \/ WaitFailed \/ WaitTimeout
  BY <1>2 DEF PollFragment, PollError, Return, NextPass,
              NothingReceived, OutOfTime, BeginWait, WaitSignalled, ContinueLoop,
              WaitFailed, WaitTimeout
<1>3. CASE    (\E size \in BufferSizes : SetReceiveBufferSize(size))
           \/ (\E h \in Handles : \E p \in Packets : Arrive(h, p))
  BY <1>3 DEF SetReceiveBufferSize, Arrive
<1>4. ASSUME NEW address \in BindAddresses, NEW port \in Ports, Bind(address, port)
      PROVE  OpenHandlesAreTracked'
  BY <1>4 DEF Bind
<1>5. ASSUME NEW group \in Groups, JoinMulticastGroup(group)
      PROVE  OpenHandlesAreTracked'
  BY <1>5 DEF JoinMulticastGroup, UpdateAllCaptureFilters, FiltersToUpdate
<1>6. ASSUME NEW group \in Groups, LeaveMulticastGroup(group)
      PROVE  OpenHandlesAreTracked'
  BY <1>6 DEF LeaveMulticastGroup, UpdateAllCaptureFilters, FiltersToUpdate
<1>7. ASSUME NEW enabled \in BOOLEAN, SetMulticastLoopbackEnabled(enabled)
      PROVE  OpenHandlesAreTracked'
  BY <1>7 DEF SetMulticastLoopbackEnabled, UpdateAllCaptureFilters, FiltersToUpdate
<1>8. CASE Close
  BY <1>8 DEF Close
<1>9. ASSUME NEW h \in Handles, OpenPcapDevice(h)
      PROVE  OpenHandlesAreTracked'
  BY <1>9, OpenPcapDeviceTracked
<1>10. CASE OpenPcapDeviceFails
  BY <1>10 DEF OpenPcapDeviceFails
<1>11. CASE BindCommit
  BY <1>11 DEF BindCommit
<1>12. CASE UpdateCaptureFilter
  BY <1>12, UpdateCaptureFilterTracked
<1>13. CASE FiltersUpdated
  BY <1>13 DEF FiltersUpdated
<1>14. CASE MarkClosed
  BY <1>14 DEF MarkClosed, CallbackMutexFree, HandlesToClose
<1>15. CASE PcapClose
  BY <1>15, PcapCloseTracked
<1>16. CASE HandlesClosed
  BY <1>16 DEF HandlesClosed, ReadersAfterClosing, OwnerAfterClosing, Range
<1>17. CASE ClearLists
  BY <1>17 DEF ClearLists, ClearedLists, ListsUnread, Range, IsInjective
<1>18. CASE ResetBinding
  BY <1>18 DEF ResetBinding
<1>19. CASE UNCHANGED vars
  BY <1>19 DEF vars
<1> QED
  BY <1>1, <1>2, <1>3, <1>4, <1>5, <1>6, <1>7, <1>8, <1>9, <1>10, <1>11, <1>12,
     <1>13, <1>14, <1>15, <1>16, <1>17, <1>18, <1>19
  DEF Next, ReceiverCall, ReceiverStep, ControllerCall, ControllerStep, Capture

LEMMA ClosesOnceStep == TypeOK /\ HandleInv /\ [Next]_vars => ClosesOnce'
<1> SUFFICES ASSUME TypeOK, HandleInv, [Next]_vars PROVE ClosesOnce'
  OBVIOUS
<1> USE DEF HandleInv, OpenHandlesAreTracked, ClosesOnce, socketVars, groupVars,
            npcapVars, lockVars, receiverVars, controllerVars
<1>1. CASE    (\E t \in Timeouts : ReceiveDatagram(t)) \/ ReceiveLockLists
           \/ ReceiveClosed \/ ReceiveNotBound \/ StartPass \/ PollEmpty
           \/ PollDatagram \/ PollDiscard
  BY <1>1 DEF ReceiveDatagram, ReceiveLockLists, ReceiveClosed, Return,
              ReceiveNotBound, StartPass, PollEmpty, NextDevice, Polling, Polled,
              PollDatagram, PollDiscard
<1>2. CASE    PollFragment \/ PollError \/ NextPass \/ OutOfTime \/ BeginWait
           \/ WaitSignalled \/ WaitFailed \/ WaitTimeout
  BY <1>2 DEF PollFragment, Polling, PollError, Return, NextPass,
              NothingReceived, OutOfTime, BeginWait, WaitSignalled, ContinueLoop,
              WaitFailed, WaitTimeout
<1>3. CASE    (\E size \in BufferSizes : SetReceiveBufferSize(size))
           \/ (\E address \in BindAddresses, port \in Ports : Bind(address, port))
           \/ (\E h \in Handles : \E p \in Packets : Arrive(h, p))
           \/ (\E h \in Handles : OpenPcapDevice(h))
  BY <1>3 DEF SetReceiveBufferSize, Bind, Arrive, OpenPcapDevice
<1>4. ASSUME NEW group \in Groups, JoinMulticastGroup(group)
      PROVE  ClosesOnce'
  BY <1>4 DEF JoinMulticastGroup, UpdateAllCaptureFilters, FiltersToUpdate
<1>5. ASSUME NEW group \in Groups, LeaveMulticastGroup(group)
      PROVE  ClosesOnce'
  BY <1>5 DEF LeaveMulticastGroup, UpdateAllCaptureFilters, FiltersToUpdate
<1>6. ASSUME NEW enabled \in BOOLEAN, SetMulticastLoopbackEnabled(enabled)
      PROVE  ClosesOnce'
  BY <1>6 DEF SetMulticastLoopbackEnabled, UpdateAllCaptureFilters, FiltersToUpdate
<1>7. CASE Close
  BY <1>7 DEF Close
<1>8. CASE OpenPcapDeviceFails
  BY <1>8 DEF OpenPcapDeviceFails
<1>9. CASE BindCommit
  BY <1>9 DEF BindCommit
<1>10. CASE UpdateCaptureFilter
  BY <1>10 DEF UpdateCaptureFilter
<1>11. CASE FiltersUpdated
  BY <1>11 DEF FiltersUpdated
<1>12. CASE MarkClosed
  BY <1>12 DEF MarkClosed, CallbackMutexFree, HandlesToClose
<1>13. CASE PcapClose
  BY <1>13, PcapCloseTracked DEF TypeOK
<1>14. CASE HandlesClosed
  BY <1>14 DEF HandlesClosed, ReadersAfterClosing, OwnerAfterClosing
<1>15. CASE ClearLists
  BY <1>15 DEF ClearLists, ClearedLists, ListsUnread
<1>16. CASE ResetBinding
  BY <1>16 DEF ResetBinding
<1>17. CASE UNCHANGED vars
  BY <1>17 DEF vars
<1> QED
  BY <1>1, <1>2, <1>3, <1>4, <1>5, <1>6, <1>7, <1>8, <1>9, <1>10, <1>11, <1>12,
     <1>13, <1>14, <1>15, <1>16, <1>17
  DEF Next, ReceiverCall, ReceiverStep, ControllerCall, ControllerStep, Capture

LEMMA SeenEmptyStep == TypeOK /\ HandleInv /\ [Next]_vars => SeenEmpty'
<1> SUFFICES ASSUME TypeOK, HandleInv, [Next]_vars PROVE SeenEmpty'
  OBVIOUS
<1> USE DEF HandleInv, MutexOwners, BindRunsAlone, ClosingIsMarked, SeenEmpty,
            Wakes, TypeOK, SocketTypes, NpcapTypes, ReceiverTypes, socketVars,
            groupVars, npcapVars, lockVars, receiverVars, controllerVars
<1>1. ASSUME NEW t \in Timeouts, ReceiveDatagram(t)
      PROVE  SeenEmpty'
  BY <1>1 DEF ReceiveDatagram
<1>2. CASE ReceiveLockLists
  BY <1>2 DEF ReceiveLockLists
<1>3. CASE ReceiveClosed
  BY <1>3 DEF ReceiveClosed, Return
<1>4. CASE ReceiveNotBound
  BY <1>4 DEF ReceiveNotBound, Return
<1>5. CASE StartPass
  BY <1>5 DEF StartPass, FirstDevice
<1>6. CASE PollEmpty
  BY <1>6 DEF PollEmpty, NextDevice, Polling, Polled
<1>7. CASE PollDatagram
  BY <1>7 DEF PollDatagram, Return, Polling, Polled
<1>8. CASE PollDiscard
  BY <1>8 DEF PollDiscard, NextDevice, Polling, Polled
<1>9. CASE PollFragment
  BY <1>9 DEF PollFragment, Polling
<1>10. CASE PollError
  BY <1>10 DEF PollError, Return, Polling
<1>11. CASE NextPass
  BY <1>11 DEF NextPass, EndOfPass, NothingReceived
<1>12. CASE OutOfTime
  BY <1>12 DEF OutOfTime, Return, EndOfPass
<1>13. CASE BeginWait
  BY <1>13 DEF BeginWait, EndOfPass, NothingReceived
<1>14. CASE WaitSignalled
  BY <1>14 DEF WaitSignalled, ContinueLoop
<1>15. CASE WaitFailed
  BY <1>15 DEF WaitFailed, ContinueLoop
<1>16. CASE WaitTimeout
  BY <1>16 DEF WaitTimeout, Return
<1>17. ASSUME NEW address \in BindAddresses, NEW port \in Ports, Bind(address, port)
      PROVE  SeenEmpty'
  BY <1>17 DEF Bind
<1>18. ASSUME NEW group \in Groups, JoinMulticastGroup(group)
      PROVE  SeenEmpty'
  BY <1>18 DEF JoinMulticastGroup, UpdateAllCaptureFilters, FiltersToUpdate
<1>19. ASSUME NEW group \in Groups, LeaveMulticastGroup(group)
      PROVE  SeenEmpty'
  BY <1>19 DEF LeaveMulticastGroup, UpdateAllCaptureFilters, FiltersToUpdate
<1>20. ASSUME NEW enabled \in BOOLEAN, SetMulticastLoopbackEnabled(enabled)
      PROVE  SeenEmpty'
  BY <1>20 DEF SetMulticastLoopbackEnabled, UpdateAllCaptureFilters, FiltersToUpdate
<1>21. ASSUME NEW size \in BufferSizes, SetReceiveBufferSize(size)
      PROVE  SeenEmpty'
  BY <1>21 DEF SetReceiveBufferSize
<1>22. CASE Close
  BY <1>22 DEF Close
<1>23. ASSUME NEW h \in Handles, OpenPcapDevice(h)
      PROVE  SeenEmpty'
  BY <1>23 DEF OpenPcapDevice
<1>24. CASE OpenPcapDeviceFails
  BY <1>24 DEF OpenPcapDeviceFails
<1>25. CASE BindCommit
  BY <1>25 DEF BindCommit
<1>26. CASE UpdateCaptureFilter
  BY <1>26 DEF UpdateCaptureFilter
<1>27. CASE FiltersUpdated
  BY <1>27 DEF FiltersUpdated
<1>28. CASE MarkClosed
  BY <1>28 DEF MarkClosed, CallbackMutexFree, HandlesToClose
<1>29. CASE PcapClose
  BY <1>29 DEF PcapClose
<1>30. CASE HandlesClosed
  BY <1>30 DEF HandlesClosed, ReadersAfterClosing, OwnerAfterClosing
<1>31. CASE ClearLists
  BY <1>31 DEF ClearLists, ClearedLists, ListsUnread
<1>32. CASE ResetBinding
  BY <1>32 DEF ResetBinding
<1>33. ASSUME NEW h \in Handles, NEW p \in Packets, Arrive(h, p)
      PROVE  SeenEmpty'
  BY <1>33 DEF Arrive
<1>34. CASE UNCHANGED vars
  BY <1>34 DEF vars
<1> QED
  BY <1>1, <1>2, <1>3, <1>4, <1>5, <1>6, <1>7, <1>8, <1>9, <1>10, <1>11, <1>12,
     <1>13, <1>14, <1>15, <1>16, <1>17, <1>18, <1>19, <1>20, <1>21, <1>22, <1>23,
     <1>24, <1>25, <1>26, <1>27, <1>28, <1>29, <1>30, <1>31, <1>32, <1>33, <1>34
  DEF Next, ReceiverCall, ReceiverStep, ControllerCall, ControllerStep, Capture

LEMMA HandleInit == Init => HandleInv
<1> SUFFICES ASSUME Init PROVE HandleInv
  OBVIOUS
<1>1. MutexOwners /\ BindRunsAlone /\ ClosingIsMarked /\ PolledHandlesAreOpen
  BY DEF Init, MutexOwners, BindRunsAlone, ClosingIsMarked, PolledHandlesAreOpen
<1>2. OpenHandlesAreTracked
  BY DEF Init, OpenHandlesAreTracked, Listed, Range, IsInjective
<1>3. ClosesOnce /\ SeenEmpty
  BY DEF Init, ClosesOnce, SeenEmpty
<1> QED
  BY <1>1, <1>2, <1>3 DEF HandleInv

\* The invariant all that follows rests on: who holds which mutex, which handles are
\* open and listed, and what a pass over the devices has seen so far.
THEOREM HandlesCorrect == Spec => []HandleInv
<1>1. TypeOK /\ HandleInv /\ [Next]_vars => HandleInv'
  BY MutexOwnersStep, BindRunsAloneStep, ClosingIsMarkedStep, PolledHandlesAreOpenStep,
     OpenHandlesAreTrackedStep, ClosesOnceStep, SeenEmptyStep
  DEF HandleInv
<1> QED
  BY <1>1, HandleInit, TypeCorrect, PTL DEF Spec

\* receiveDatagram never passes pcap_next_ex a handle that close() has closed, with
\* any number of devices and under any interleaving the thread contract allows.
THEOREM NoUseAfterClose == Spec => []PolledHandlesAreOpen
  BY HandlesCorrect, PTL DEF HandleInv

\* No handle leaks and none is closed twice, also when devices fail to open.
THEOREM NoHandleLeaks == Spec => []OpenHandlesAreTracked
  BY HandlesCorrect, PTL DEF HandleInv

\* A receiver that waits has its wake-up call before it, on however many devices.
THEOREM NoWakeupIsLost == Spec => []NoLostWakeup
<1>1. TypeOK /\ HandleInv => NoLostWakeup
  BY DEF TypeOK, SocketTypes, HandleInv, SeenEmpty, Wakes, NoLostWakeup, Waited
<1> QED
  BY <1>1, TypeCorrect, HandlesCorrect, PTL

\* close() and bind() leave the lists alone while a receiver polls or waits: the
\* array of event handles WaitForMultipleObjects reads stays where it is.
THEOREM ListsAreStable == Spec => ListsStayUnderReceiver
<1> DEFINE Receiving == rpc \in {"loop", "poll", "wait"}
<1>1. ASSUME HandleInv, [Next]_vars, Receiving
      PROVE  UNCHANGED pcap_devices_
  <2> USE <1>1 DEF socketVars, groupVars, npcapVars, lockVars, receiverVars,
                   controllerVars
  <2>1. "receiver" \in listsReaders /\ call # "bind" /\ cpc # "open"
    BY DEF HandleInv, MutexOwners, BindRunsAlone
  <2>2. ASSUME NEW h \in Handles, OpenPcapDevice(h) PROVE FALSE
    BY <2>1, <2>2 DEF OpenPcapDevice
  <2>3. CASE ClearLists
    BY <2>1, <2>3 DEF ClearLists, ListsUnread
  <2>4. CASE ReceiverCall \/ ReceiverStep \/ Capture
    BY <2>4 DEF ReceiverCall, ReceiverStep, Capture, ReceiveDatagram,
                ReceiveLockLists, ReceiveClosed, ReceiveNotBound, StartPass,
                PollEmpty, PollDatagram, PollDiscard, PollFragment, PollError,
                NextPass, OutOfTime, BeginWait, WaitSignalled, WaitFailed,
                ContinueLoop, WaitTimeout, Arrive
  <2>5. CASE ControllerCall
    BY <2>5 DEF ControllerCall, Bind, JoinMulticastGroup, LeaveMulticastGroup,
                SetMulticastLoopbackEnabled, SetReceiveBufferSize, Close
  <2>6. CASE    OpenPcapDeviceFails \/ BindCommit \/ UpdateCaptureFilter
             \/ FiltersUpdated \/ MarkClosed \/ PcapClose \/ HandlesClosed
             \/ ResetBinding
    BY <2>6 DEF OpenPcapDeviceFails, BindCommit, UpdateCaptureFilter, FiltersUpdated,
                MarkClosed, PcapClose, HandlesClosed, ResetBinding
  <2>7. CASE UNCHANGED vars
    BY <2>7 DEF vars
  <2> QED
    BY <2>2, <2>3, <2>4, <2>5, <2>6, <2>7 DEF Next, ControllerStep
<1>2. HandleInv /\ [Next]_vars => [Receiving => UNCHANGED pcap_devices_]_vars
  BY <1>1
<1> QED
  BY <1>2, HandlesCorrect, PTL DEF Spec, ListsStayUnderReceiver

-----------------------------------------------------------------------------
(* What HandleInv does not say of the binding *)

LEMMA BindingInvInit == Init => BindingInv
  BY DEF Init, BindingInv, Invalid

LEMMA BindingInvStep == HandleInv /\ BindingInv /\ [Next]_vars => BindingInv'
<1> SUFFICES ASSUME HandleInv, BindingInv, [Next]_vars PROVE BindingInv'
  OBVIOUS
<1> USE DEF BindingInv, socketVars, groupVars, npcapVars, lockVars, receiverVars,
            controllerVars
<1>1. CASE \E t \in Timeouts : ReceiveDatagram(t)
  BY <1>1 DEF ReceiveDatagram
<1>2. CASE ReceiverStep /\ ~BeginWait
  BY <1>2
  DEF ReceiverStep, ReceiveLockLists, ReceiveClosed, ReceiveNotBound, StartPass, PollEmpty,
      PollDatagram, PollDiscard, PollFragment, PollError, NextPass, OutOfTime,
      WaitSignalled, WaitFailed, ContinueLoop, WaitTimeout, Return, NextDevice, Polling,
      EndOfPass
<1>3. CASE BeginWait
  BY <1>3 DEF BeginWait, EndOfPass, HandleInv, PolledHandlesAreOpen
<1>4. ASSUME NEW address \in BindAddresses, NEW port \in Ports, Bind(address, port)
      PROVE  BindingInv'
  BY <1>4 DEF Bind
<1>5. CASE    (\E group \in Groups : JoinMulticastGroup(group))
           \/ (\E group \in Groups : LeaveMulticastGroup(group))
           \/ (\E enabled \in BOOLEAN : SetMulticastLoopbackEnabled(enabled))
           \/ (\E size \in BufferSizes : SetReceiveBufferSize(size))
           \/ Close
  BY <1>5 DEF JoinMulticastGroup, LeaveMulticastGroup, SetMulticastLoopbackEnabled,
              UpdateAllCaptureFilters, SetReceiveBufferSize, Close, HandleInv,
              BindRunsAlone
<1>6. ASSUME NEW h \in Handles, OpenPcapDevice(h)
      PROVE  BindingInv'
  BY <1>6 DEF OpenPcapDevice
<1>7. CASE OpenPcapDeviceFails
  BY <1>7 DEF OpenPcapDeviceFails
<1>8. CASE BindCommit
  BY <1>8, AddressesAssumption DEF BindCommit
<1>9. CASE    UpdateCaptureFilter \/ FiltersUpdated \/ MarkClosed \/ PcapClose
           \/ HandlesClosed \/ ClearLists
  BY <1>9 DEF UpdateCaptureFilter, FiltersUpdated, MarkClosed, PcapClose, HandlesClosed,
              ClearLists
<1>10. CASE ResetBinding
  BY <1>10 DEF ResetBinding, HandleInv, BindRunsAlone, ClosingIsMarked, Invalid
<1>11. CASE Capture \/ UNCHANGED vars
  BY <1>11 DEF Capture, Arrive, vars
<1> QED
  BY <1>1, <1>2, <1>3, <1>4, <1>5, <1>6, <1>7, <1>8, <1>9, <1>10, <1>11
  DEF Next, ReceiverCall, ReceiverStep, ControllerCall, ControllerStep

\* A receiver does not outlast the binding it waits under, what bind has looked at
\* before it opens devices still holds when it commits, and a socket has an address
\* exactly as long as it is bound, at every moment of a run.
THEOREM BindingCorrect == Spec => []BindingInv
  BY BindingInvInit, BindingInvStep, HandlesCorrect, PTL DEF Spec

\* Whenever close() waits for one of the two mutexes, the receiver that has it can go
\* on: no order of the two threads' steps ends with both of them stuck.
THEOREM NeverDeadlocked == Spec => []NoDeadlock
<1>1. ASSUME TypeOK, HandleInv, BindingInv, ReceiverBlocked, ControllerBlocked
      PROVE  FALSE
  <2> USE <1>1 DEF HandleInv, MutexOwners, BindRunsAlone
  <2>1. CASE cpc = "lock_callback" /\ callbackOwner # "none"
    <3>1. callbackOwner = "receiver"
      BY <2>1 DEF TypeOK, LockTypes, ListsHolders
    <3> QED
      BY <2>1, <3>1 DEF ReceiverBlocked
  <2>2. CASE cpc = "clear" /\ listsReaders # {}
    <3>1. ~listsWriter /\ callbackOwner # "controller" /\ live = {}
      BY <2>2 DEF BindingInv, OpenHandlesAreTracked
    <3>2. pcap_devices_ # <<>> /\ Waited = {}
      BY <3>1 DEF ReceiverBlocked
    <3>3. Len(pcap_devices_) >= 1 /\ 1 <= MAXIMUM_WAIT_OBJECTS
      BY <3>2, LimitsAssumption DEF TypeOK, SocketTypes
    <3>4. pcap_devices_[1] \in Waited
      BY <3>3 DEF Waited, TypeOK, SocketTypes
    <3> QED
      BY <3>2, <3>4
  <2> QED
    BY <2>1, <2>2 DEF ControllerBlocked
<1>2. TypeOK /\ HandleInv /\ BindingInv => NoDeadlock
  BY <1>1 DEF NoDeadlock
<1> QED
  BY <1>2, TypeCorrect, HandlesCorrect, BindingCorrect, PTL

=============================================================================
