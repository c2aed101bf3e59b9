----------------------- MODULE UdpSocketPromiseProofs -----------------------
(***************************************************************************)
(* UdpcapSocket implements UdpSocketPromise, the socket its header file    *)
(* describes: each step is a step of the promise, or none it can see.      *)
(***************************************************************************)
EXTENDS UdpcapSocketProofs

-----------------------------------------------------------------------------
(* The refinement *)

\* What the promise sees of the socket.
Seen == <<is_valid_, bound_state_, pcap_devices_closed_, bound_port_, queue, datagram,
          error, rpc = "idle", timeout>>

\* Whatever else a step does, the promise does not notice it.
LEMMA Unseen ==
  ASSUME UNCHANGED Seen
  PROVE  UNCHANGED Promise!vars
  BY DEF Seen, Promise!vars, phase

LEMMA PromiseInit == Init => Promise!Init
  BY DEF Init, Promise!Init, phase

LEMMA PendingTimeout ==
  ASSUME NEW t \in Timeouts
  PROVE  t \in {"forever", "zero", "finite"} /\ t # "none"
<1>1. t \in {"forever", "zero", "finite"}
  BY TimeoutsAssumption
<1>2. t # "none"
  BY <1>1
<1> QED
  BY <1>1, <1>2

\* The receiver: a call and its outcome.
LEMMA ReceiverPromise ==
  ASSUME TypeOK, HandleInv, BindingInv, ReceiverCall \/ ReceiverStep
  PROVE  [Promise!Next]_Promise!vars
<1> USE DEF socketVars, groupVars, npcapVars, lockVars, receiverVars, controllerVars
<1>1. /\ error \in Errors
      /\ timeout \in {"forever", "zero", "finite"}
  BY PendingTimeout DEF TypeOK, ReceiverTypes
<1>2. \A c \in Codes : Plain(c).code = c
  BY <1>1 DEF Plain, Errors
<1>3. ASSUME NEW t \in Timeouts, ReceiveDatagram(t)
      PROVE  Promise!Next
  <2>1. t \in {"forever", "zero", "finite"}
    BY PendingTimeout
  <2>2. CASE is_valid_
    <3>1. Promise!Receive(t)
      BY <1>3, <2>2 DEF ReceiveDatagram, Promise!Receive, phase
    <3> QED
      BY <2>1, <3>1 DEF Promise!Next
  <2>3. CASE ~is_valid_
    <3>1. error'.code = "NPCAP_NOT_INITIALIZED"
      BY <1>2, <1>3, <2>3 DEF ReceiveDatagram, Codes
    <3>2. Promise!ReceiveOnInvalid
      BY <1>3, <2>3, <3>1 DEF ReceiveDatagram, Promise!ReceiveOnInvalid, phase
    <3> QED
      BY <3>2 DEF Promise!Next
  <2> QED
    BY <2>2, <2>3
<1>4. CASE    ReceiveLockLists \/ StartPass \/ PollEmpty \/ PollFragment \/ NextPass
           \/ BeginWait \/ WaitSignalled \/ WaitFailed
  <2>1. UNCHANGED Seen
    BY <1>4
    DEF Seen, ReceiveLockLists, StartPass, PollEmpty, PollFragment, NextPass, BeginWait,
        WaitSignalled, WaitFailed, ContinueLoop, NextDevice, Polling, EndOfPass
  <2> QED
    BY <2>1, Unseen
<1>5. ASSUME NEW c \in {"SOCKET_CLOSED", "NOT_BOUND", "TIMEOUT", "GENERIC_ERROR"},
             rpc # "idle", rpc' = "idle", error'.code = c, Promise!MayEndWith(c),
             UNCHANGED <<is_valid_, bound_state_, pcap_devices_closed_, bound_port_,
                         queue, datagram>>
      PROVE  Promise!Next
  <2>1. Promise!ReturnError(c)
    BY <1>1, <1>5 DEF Promise!ReturnError, phase
  <2> QED
    BY <2>1 DEF Promise!Next
<1>6. CASE ReceiveClosed
  <2>1. error'.code = "SOCKET_CLOSED"
    BY <1>2, <1>6 DEF ReceiveClosed, Return, Codes
  <2>2. Promise!MayEndWith("SOCKET_CLOSED")
    BY <1>6 DEF ReceiveClosed, Promise!MayEndWith, phase
  <2> QED
    BY <1>5, <1>6, <2>1, <2>2 DEF ReceiveClosed, Return
<1>7. CASE ReceiveNotBound
  <2>1. error'.code = "NOT_BOUND"
    BY <1>2, <1>7 DEF ReceiveNotBound, Return, Codes
  <2>2. Promise!MayEndWith("NOT_BOUND")
    BY <1>7 DEF ReceiveNotBound, NotYetBound, Promise!MayEndWith, phase
  <2> QED
    BY <1>5, <1>7, <2>1, <2>2 DEF ReceiveNotBound, Return
<1>8. CASE PollError
  <2>1. phase = "bound"
    BY <1>8 DEF PollError, Polling, HandleInv, PolledHandlesAreOpen, phase
  <2>2. Promise!MayEndWith("GENERIC_ERROR")
    BY <2>1 DEF Promise!MayEndWith
  <2> QED
    BY <1>5, <1>8, <2>2 DEF PollError, Polling, Return
<1>9. CASE OutOfTime \/ WaitTimeout
  <2>1. error'.code = "TIMEOUT" /\ timeout # "forever" /\ rpc \in {"poll", "wait"}
    BY <1>2, <1>9 DEF OutOfTime, WaitTimeout, MayTimeOut, EndOfPass, Return, Codes
  <2>2. phase # "unbound"
    BY <2>1 DEF HandleInv, PolledHandlesAreOpen, BindingInv, phase
  <2>3. Promise!MayEndWith("TIMEOUT")
    BY <2>1, <2>2 DEF Promise!MayEndWith
  <2> QED
    BY <1>5, <1>9, <2>1, <2>3 DEF OutOfTime, WaitTimeout, Return
<1>10. CASE PollDatagram \/ PollDiscard
  <2>1. Polled \in Handles /\ queue[Polled] # <<>> /\ rpc = "poll" /\ phase = "bound"
    BY <1>10
    DEF PollDatagram, PollDiscard, Polling, Polled, TypeOK, SocketTypes, ReceiverTypes,
        HandleInv, PolledHandlesAreOpen, phase
  <2>2. CASE PollDatagram
    <3>1. Head(queue[Polled]).dport = bound_port_
      BY <2>2 DEF PollDatagram, Delivers, IsForBoundPort
    <3>2. error'.code = "OK"
      BY <1>2, <2>2 DEF PollDatagram, Return, Codes
    <3>3. Promise!ReturnDatagram(Polled)
      BY <1>1, <2>1, <2>2, <3>1, <3>2 DEF PollDatagram, Return, Promise!ReturnDatagram, phase
    <3> QED
      BY <2>1, <3>3 DEF Promise!Next
  <2>3. CASE PollDiscard
    <3>1. Promise!Skip(Polled)
      BY <1>1, <2>1, <2>3 DEF PollDiscard, NextDevice, Promise!Skip, phase
    <3> QED
      BY <2>1, <3>1 DEF Promise!Next
  <2> QED
    BY <1>10, <2>2, <2>3
<1> QED
  BY <1>3, <1>4, <1>6, <1>7, <1>8, <1>9, <1>10 DEF ReceiverCall, ReceiverStep

\* The controller and Npcap: bind, close, and what becomes of the inboxes.
LEMMA ControllerPromise ==
  ASSUME TypeOK, HandleInv, BindingInv, ControllerCall \/ ControllerStep \/ Capture
  PROVE  [Promise!Next]_Promise!vars
<1> USE DEF socketVars, groupVars, npcapVars, lockVars, receiverVars, controllerVars
<1>1. CASE    ControllerCall \/ OpenPcapDeviceFails \/ FiltersUpdated \/ HandlesClosed
           \/ ClearLists
  <2>1. UNCHANGED Seen
    BY <1>1
    DEF Seen, ControllerCall, Bind, JoinMulticastGroup, LeaveMulticastGroup,
        SetMulticastLoopbackEnabled, SetReceiveBufferSize, Close, OpenPcapDeviceFails,
        FiltersUpdated, HandlesClosed, ClearLists
  <2> QED
    BY <2>1, Unseen
<1>2. ASSUME NEW h \in Handles, queue' = [queue EXCEPT ![h] = <<>>],
             UNCHANGED <<is_valid_, bound_state_, pcap_devices_closed_, bound_port_,
                         receiverVars>>
      PROVE  Promise!Next
  <2>1. Promise!Discard(h)
    BY <1>2 DEF Promise!Discard, phase
  <2> QED
    BY <2>1 DEF Promise!Next
<1>3. ASSUME NEW h \in Handles, OpenPcapDevice(h)
      PROVE  Promise!Next
  BY <1>2, <1>3 DEF OpenPcapDevice
<1>4. CASE UpdateCaptureFilter \/ PcapClose
  <2>1. Head(to_visit) \in Handles
    BY <1>4 DEF UpdateCaptureFilter, PcapClose, TypeOK, ControllerTypes
  <2>2. CASE queue' = [queue EXCEPT ![Head(to_visit)] = <<>>]
    BY <1>2, <1>4, <2>1, <2>2 DEF UpdateCaptureFilter, PcapClose
  <2>3. CASE UNCHANGED queue
    <3>1. UNCHANGED Seen
      BY <1>4, <2>3 DEF Seen, UpdateCaptureFilter, PcapClose
    <3> QED
      BY <3>1, Unseen
  <2> QED
    BY <1>4, <2>2, <2>3 DEF UpdateCaptureFilter, PcapClose
<1>5. CASE BindCommit
  <2>1. is_valid_ /\ ~bound_state_ /\ to_bind.port \in Ports /\ rpc = "idle"
    BY <1>5 DEF BindCommit, BindingInv, HandleInv, BindRunsAlone
  <2>2. phase # "bound" /\ phase' = "bound"
    BY <1>5, <2>1 DEF BindCommit, phase
  <2>3. Promise!Bind(to_bind.port)
    BY <1>5, <2>1, <2>2 DEF BindCommit, Promise!Bind
  <2> QED
    BY <2>1, <2>3 DEF Promise!Next
<1>6. CASE MarkClosed
  <2>1. phase' = "closed"
    BY <1>6 DEF MarkClosed, phase
  <2>2. Promise!Close
    BY <1>6, <2>1 DEF MarkClosed, Promise!Close
  <2> QED
    BY <2>2 DEF Promise!Next
<1>7. CASE ResetBinding
  <2>1. pcap_devices_closed_ /\ UNCHANGED pcap_devices_closed_
    BY <1>7 DEF ResetBinding, HandleInv, ClosingIsMarked
  <2>2. Promise!ForgetPort
    BY <1>7, <2>1 DEF ResetBinding, Promise!ForgetPort, phase
  <2> QED
    BY <2>2 DEF Promise!Next
<1>8. ASSUME NEW h \in Handles, NEW p \in Packets, Arrive(h, p)
      PROVE  Promise!Next
  <2>1. Promise!Capture(h, p)
    BY <1>8 DEF Arrive, Promise!Capture, phase
  <2> QED
    BY <2>1 DEF Promise!Next
<1> QED
  BY <1>1, <1>3, <1>4, <1>5, <1>6, <1>7, <1>8 DEF ControllerStep, Capture

\* What udpcap_socket.h promises of bind, receiveDatagram and close is what the code
\* does, with any number of devices, under any interleaving the thread contract
\* allows, and whichever of Npcap's calls fail.
THEOREM SocketKeepsItsPromise == Spec => ImplementsPromise
<1>1. ASSUME TypeOK, HandleInv, BindingInv, [Next]_vars
      PROVE  [Promise!Next]_Promise!vars
  <2>1. CASE UNCHANGED vars
    <3>1. UNCHANGED Seen
      BY <2>1 DEF vars, socketVars, npcapVars, receiverVars, Seen
    <3> QED
      BY <3>1, Unseen
  <2> QED
    BY <1>1, <2>1, ReceiverPromise, ControllerPromise DEF Next
<1> QED
  BY <1>1, PromiseInit, TypeCorrect, HandlesCorrect, BindingCorrect, PTL
  DEF Spec, ImplementsPromise, Promise!Spec
=============================================================================
