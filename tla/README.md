# udpcap in TLA+

udpcap is a receive-only UDP socket for Windows on top of Npcap: it opens one
capture handle per network adapter, sets a kernel filter on each, and copies the
datagrams that pass to the application.  This directory models it, checks it with
TLC and proves part of what is checked with TLAPS.  File names and line numbers
refer to the repository; `private.cpp` stands for
`udpcap/src/udpcap_socket_private.cpp`, `socket.h` for
`udpcap/include/udpcap/udpcap_socket.h`.

## 1. The system

| Component | State | Operations | Interacts with |
|---|---|---|---|
| `UdpcapSocketPrivate` | bound state, address, port; groups and the loopback switch; buffer size; three parallel lists (pcap handles, their Win32 events, reassembly objects); a closed flag; a shared mutex for the lists, a mutex for callbacks | `bind`, `setReceiveBufferSize`, `receiveDatagram`, `joinMulticastGroup`, `leaveMulticastGroup`, `setMulticastLoopbackEnabled`, `close` | Npcap calls, `WaitForMultipleObjects`, asio for the kickstart, PcapPlusPlus to parse |
| Capture filters (part of it) | none; the filter of a handle lives in Npcap | `createFilterString`, `updateCaptureFilter` | `HostAddress`, the MAC of the adapter |
| `UdpcapSocket` | a pointer to the private socket | forwards each call | the application; its header is the documentation |
| `HostAddress` | `valid_`, `ipv4_` | classification, order, text | key of `std::set` in the socket |
| `Error` | code and message | construction, assignment of a code | out-parameter of `receiveDatagram` |
| `IpReassembly` | `timestamp_map_` beside the fragments PcapPlusPlus keeps | `processPacket`, ageing, the callback of PcapPlusPlus | meant for the packet handler, never handed to it |
| Npcap helpers | `is_initialized`, the loopback UUID, whether it was read, the status text; one mutex | `Initialize`, `IsLoopbackDevice`, `GetLoopbackDeviceName`, ... | registry, DLL loader, every socket |

Samples, tests, build scripts and third-party code are not modelled.

What is hard in it:

* Two threads.  `socket.h:67-71` and `153-160` let one thread sit in
  `receiveDatagram` while another one calls `close`, `joinMulticastGroup`,
  `leaveMulticastGroup` or `setMulticastLoopbackEnabled`.  The receiver polls under
  the callback mutex but *waits without it*, on handles `close` is about to close,
  holding the lists only in read mode.
* Wake-ups.  The wait resets an event regardless of how many packets are queued, so
  the code polls every handle until all are empty before it waits again.
* Partial failure.  `bind` opens several adapters and may stop in between; filters,
  MAC lookups and kickstarts fail silently.
* Time.  A deadline is computed once, in ticks of a 64-bit clock; each wait is given
  what is left of it, in milliseconds of 32 bits.
* Long sequences.  Groups outlive `close`, loopback can be switched while groups
  are joined, a buffer size can be set between two binds.

What makes a component correct, and hence the properties below:

* the socket: no handle is used after it was closed, none leaks, `close` and
  `receiveDatagram` always return, a datagram that is there is delivered, the error
  code is the truth, a timeout is what the caller asked for, and the settings of
  finished calls are in force;
* filters and addresses: the filter is the one for the current settings, and the
  order of addresses never confuses two groups;
* reassembly: the two maps of fragments agree, and old fragments go;
* Npcap helpers: initialization succeeds as soon as it can, and all sockets get the
  same answer to what the loopback device is.

## 2. Modules

| Module | What it is |
|---|---|
| `HostAddress` | addresses, their classes, the comparisons |
| `HostAddressProofs` | the theorems about the comparisons |
| `CaptureFilter` | filters and packets as records, `createFilterString`, and what Npcap captures under a filter |
| `UdpcapSocket` | the socket, its two threads, Npcap: the core |
| `UdpSocketPromise` | the abstract socket `socket.h` describes: unbound, bound or closed, an inbox per source, at most one pending receive |
| `UdpcapSocketProperties` | type invariant, safety, action and liveness properties, the refinement mapping |
| `UdpcapSocketProofs` | the theorems about the socket: types, mutexes, handles, waiting |
| `UdpSocketPromiseProofs` | the theorem that the socket implements its promise |
| `UdpcapSettingsProofs` | the theorems about what finished calls have put into force |
| `UdpcapSocketClaims` | statements of the documentation that the code does not keep |
| `ReceiveTimeout` | `UdpcapSocket` with a clock: deadlines, what is left of them, the argument of the wait; fairness, and that finite timeouts end |
| `ReceiveTimeoutProofs`, `MCReceiveTimeout` | its theorems and its small instances |
| `MCUdpcapSocket` | the constants of its small instances |
| `IpReassembly`, `IpReassemblyProofs`, `MCIpReassembly` | `timestamp_map_` beside the fragments PcapPlusPlus keeps; properties and theorems |
| `NpcapHelpers`, `NpcapHelpersProofs`, `MCNpcapHelpers` | initialization and the loopback device's name; properties and theorem |

`UdpcapSocket` extends `CaptureFilter`, which extends `HostAddress`;
`ReceiveTimeout` extends the socket and conjoins each of its steps with what the code
computes about time.  `IpReassembly`
stands alone, as in the program, where no datagram reaches it; of `NpcapHelpers` the
socket uses the outcome: a socket that is valid, and the constants `Loopback`, the name
`GetLoopbackDeviceName` returns, and `LoopbackDevices`, the names `IsLoopbackDevice`
accepts.

### From code to model

An action of `UdpcapSocket` is one step between two points where the other thread
or the network can be observed: taking or releasing a mutex, a call into Npcap, a
wait.  `rpc` is where the receiver is, `cpc` and `call` where the controller is.

| Code | Actions |
|---|---|
| `bind` (`private.cpp:76-176`) | `Bind`, then per device `OpenPcapDevice` or `OpenPcapDeviceFails`, `BindCommit`, per handle `UpdateCaptureFilter`, `FiltersUpdated` |
| `joinMulticastGroup`, `leaveMulticastGroup`, `setMulticastLoopbackEnabled` | one action each, then `UpdateCaptureFilter` per handle, `FiltersUpdated` (with the kickstart of a join) |
| `setReceiveBufferSize` | `SetReceiveBufferSize` |
| `close` (`520-553`) | `Close` takes the read lock, `MarkClosed` the callback mutex, `PcapClose` per handle, `HandlesClosed`, `ClearLists`, `ResetBinding`.  The destructor is a `close`. |
| `receiveDatagram` (`221-417`) | `ReceiveDatagram`, `ReceiveLockLists`; top of the loop `ReceiveClosed`, `ReceiveNotBound` or `StartPass`; per device `PollEmpty`, `PollDatagram`, `PollDiscard`, `PollFragment`, `PollError`; end of a pass `NextPass`, `OutOfTime` or `BeginWait`; the wait `WaitSignalled`, `WaitFailed`, `WaitTimeout` |
| a packet on an adapter | `Arrive` |

* The three parallel lists are one sequence of handles, `pcap_devices_`: they are
  filled and cleared together.
* A call that returns early without a change is a stuttering step.
* In `UdpcapSocket` a timeout is "zero", "finite" or "forever".  A finite one may
  expire whenever the code looks at the clock, and while it waits.
* A filter is the record of the choices its text encodes; a packet is the record
  of the header fields a filter and the packet handler look at.
* `to_open`, `to_visit` and `to_bind` are the loop variables and locals of the
  controller's call, `next_dev` and `received_any_data` those of the receiver's.
* `kickstarted` and the fields of handles are state of Windows and Npcap.
* `aborted` is set by the one null pointer the receiver can dereference; no step
  follows it.  Because of its self-loop, and because the application may always
  make another call, deadlock is checked in every run.
* Operators named `MUTANT_...` are plausible bugs.  No specification uses them:
  each stands in for the operator after it to see that a property notices.

`ReceiveTimeout` (`private.cpp:228-237`, `356-405`): `TimedReceiveDatagram` reads the
clock and sets `wait_until`, at the start of a call, before it looks at anything else;
`TimedOutOfTime` is the return at `361`, `TimedBeginWait` computes the argument of
`WaitForMultipleObjects` and `wake`, when that gives up, and `TimedWaitTimeout` is the
return at `400-405`, which does not look at the clock again.  `UntimedStep`,
`UntimedReturn`, `EndWait` and `OtherStep` are the remaining steps of the socket.
`Tick` advances the clock at any point of a call.

* `TICKS`, `REP_MAX` and `DWORD` are the resolution and the range of the clock and the
  number of values of an `unsigned long`.  Signed overflow wraps (`Wrapped`), as the
  builds do; the language leaves it undefined.
* Nobody reads the clock between two calls, so a call begins at a reading in `Starts`
  and the variables of time are reset when it returns.
* No time passes between the reading of the clock at `359` and the beginning of the
  wait: what passes there makes the wait end that much later.  A wait does not time out
  early.

`IpReassembly` (`ip_reassembly.cpp`): a call of `processPacket` is `ProcessPacket`,
then the loop of `removeOldPackages`, one step per entry (`KeepPackage`,
`RemoveOldAndSkip`, `RemoveLastOld`), then `IgnorePacket`, `KeepFragment` or
`CompletePacket`.  Time passes at any moment (`Tick`).  The loop increments the
iterator that `erase` returned: in the middle it skips an entry, at the end it
increments `end()`.  That is undefined; the model allows what the builds do, starting
over (the list behind MSVC's `unordered_map` is circular) or ending the process (a
checked iterator).  The order of the entries is any order.

`NpcapHelpers` (`npcap_helpers.cpp`): every function holds `npcap_mutex` throughout,
so calls do not overlap, and the short ones are one step: `LookUpUntilRead` is
`IsLoopbackDevice` and `GetLoopbackDeviceUuidString`, which change the same state.
`Initialize` is one step per look at the system, as `SystemChanges` may come in between:
`Initialize` reads the registry, `LoadNpcapDlls` loads the library, `TestLoopbackDevice`
(or `TestLoopbackDeviceFails`) lists the adapters, and `TestAdapter` compares one of them,
reading the registry again while it has not been read (`ReadUntilRead`); `TestEnds` is
the result.

### What is assumed of code outside the repository

* `pcap_setfilter` and `pcap_next_ex` are atomic with respect to each other, and
  setting a filter discards what was captured under the old one (libpcap on Npcap
  clears the kernel buffer).
* `WaitForMultipleObjects` returns for the first signalled handle and resets that
  event; on a handle that is closed under it, it comes back with `WAIT_FAILED`.
  Windows leaves this undefined; the code (`private.cpp:406-413`) counts on it.  It fails
  as well when it has nothing to wait on, and times out only when nothing is signalled.
* A filter text without an address after `ip dst` does not compile; it is what
  `createFilterString` makes of an invalid `bound_address_`.
* libpcap's `ip multicast` is a first octet of at least 224, without upper limit.
* PcapPlusPlus finds no IPv4 layer in a frame it is given with the wrong link type.
* The pcap errors the code marks "should never happen" (not activated, an unknown
  code, `WAIT_ABANDONED`) do not happen.
* PcapPlusPlus keeps the fragments of at most `max_packets_to_store` packets, drops
  any one of them when it needs room, calls back for it, forgets a packet it has
  completed or is told to remove, and a key is as good as its hash.
* No mutex is fair.

## 3. What is checked

| Run | Instance | Shows |
|---|---|---|
| `threads` | 2 adapters, 2 handles, 1 port, all three kinds of timeout, buffers of 1 and 2 packets | with datagrams, packets of other ports and fragments: types, the inductive invariant, no use after close, no leak, no lost wake-up, no deadlock, stable lists, and that the socket implements `UdpSocketPromise` |
| `faults` | 2 adapters, 2 handles of which 1 can be waited on, 1 group, multicast on both adapters, packets of other ports, every kind of fault | the same hazards when Npcap fails anywhere |
| `settings` | 2 adapters, bound to Any or to either of them, 2 groups, 3 sizes | filters, queues, kickstarts, devices and buffer sizes agree with the settings between two calls, only what was asked for is delivered, and local multicast is captured once; the inductive invariant behind all this |
| `progress` | 1 adapter that may fail to open, buffer of 2 packets; a millisecond of 2 ticks, an `unsigned long` of 2 bits, a clock up to 6, timeouts of 0, 1 and 2 ms and none; fairness | the invariant of the time variables, the time spent waiting, no TIMEOUT a millisecond early, and liveness |
| `reassembly` | 3 packets of 2 fragments, room for 2, a clock up to 3 with a maximum age of 1 | the maps agree and stay within the capacity, and expired packets go |
| `npcap` | one legacy UUID, any registry, library and list of adapters, changing at any time | initialization recovers; the name is stable |

The bounds.  Two adapters are enough for every order in which one handle can be
open, closed, empty or signalled while another is not, and for a `bind` that fails
between two devices; with as many handles as adapters, a handle left behind by a
failed `bind` also exhausts them, which is one more way to fail.  One port of the
socket and one other port tell the packet handler's cases apart; with two groups one
can be joined while the other is not.  In
`faults` one handle of two can be waited on, the limit of `WaitForMultipleObjects`
exceeded: the list begins with the loopback adapter when the socket is bound to Any, with
the Ethernet adapter when it is bound to that one's address, and with a handle of either
that a failed `bind` left behind; both capture, so that the handle waited on and the one
beyond the limit may each hold a packet.  A queue of one or two packets contains the
case that matters, an event that is reset while a packet remains, and a full buffer.
In the runs without a clock timeouts carry no numbers, so a bound on time is not
needed.  In `progress` a call that starts at 1 with 2 ms has its deadline at 5, and the
clock goes one tick past it; 2 ms is the longest wait two bits can express beside
`INFINITE`, and a tick of half a millisecond is what truncation loses.  The number of
calls is not bounded.  Handles are symmetric except under fairness.  In
`reassembly` three packets and room for two make evictions, and a clock of three
ticks with an age of one lets two packets grow old together and a third stay young,
what the ageing loop has to tell apart; `MaxTime` is the only bound, and time that
stands still at it is one way time may pass.  In `npcap` one UUID beside the empty
one gives both kinds of Npcap.

The main properties (in `UdpcapSocketProperties` unless another module is named):

* `PolledHandlesAreOpen`, `OpenHandlesAreTracked`, `ListsStayUnderReceiver`: the
  two mutexes and the closed flag do their work.  `close` marks the socket closed
  before it closes the first handle, and does so under the mutex a receiver polls
  under; it clears the lists only when no receiver is left in them.
* `NoLostWakeup`: a receiver waits only when each handle it waits on is empty or
  has its event set.
* `NoDeadlock`: when `close` waits for the callback mutex, or for the lists in write
  mode, the receiver it waits for can go on.  The lists are the harder case: the
  receiver may sit in a wait without a timeout, and comes out of it because `close`
  has closed its handles *before* it asks for the lists.
* `ImplementsPromise`: each step of the socket is a step, or a stutter, of
  `UdpSocketPromise`.  The mapping takes the Npcap queues for the inboxes, derives
  the phase from `pcap_devices_closed_` and `bound_state_`, and forgets the lists,
  mutexes, events and program counters.  It decides, for example, that a receive
  racing `close` never reports `NOT_BOUND`, although `close` resets `bound_state_`
  and `bound_port_` without any mutex.
* `FiltersAreCurrent`, `OnlyWantedTrafficIsQueued`, `GroupsAreKickstarted`,
  `BufferSizeIsInForce`, `ListensWhereBound`: what finished calls have set is in
  force, on exactly the devices of the address bound to.  They hold when Npcap's calls
  succeed; with the faults above they cannot, as the code only prints such errors.
  The run `settings` therefore has none.
* `DeliveredIsWanted`: what `receiveDatagram` returns was sent to the bound address or
  to a joined group, and through localhost only while loopback is on.  Nothing in
  `receiveDatagram` looks at the destination address: it relies on every filter being
  up to date, and on no queue holding a packet from before the filter was.
* `LocalMulticastArrivesOnce`: each adapter sees a copy of what this host sends to a
  group, and the filters together let exactly one of them through, or none, depending
  on the groups and the loopback switch; a statement about all filters of a socket,
  after any sequence of calls.
* `WaitEndsByDeadline`, `TimeoutIsNotAMillisecondEarly` (`ReceiveTimeout`): each wait of
  a call, also one that follows others that were interrupted, ends in the last
  millisecond of the time the *call* was given, and TIMEOUT is not reported before that,
  nor to a caller without a timeout.  `TimeoutIsNotEarly` is what the header and a test
  say, that the whole time has passed.  The code does not keep it; two runs show why.
* `FiniteCallsReturn` (`ReceiveTimeout`): a receive with a timeout returns, also on a
  socket whose adapters all failed to open, where the wait fails at once and
  `num_handles - 1` underflows, and also when less than a millisecond is left.
* `MapsAgree` (`IpReassembly`): the two maps have the same keys, through evictions,
  ageing and completion, although they are updated one after the other and the
  callback arrives in the middle of a call.  The message about maps "outof sync" is
  never printed.
* `CapacityIsKept` (`IpReassembly`): `timestamp_map_` stays within
  `max_packets_to_store`, which only PcapPlusPlus counts.
* `ExpiredPacketsGo` (`IpReassembly`): each call may skip expired packets, but calls
  that bring no new fragments get rid of them all.
* `InitializeRecovers`, `NameIsStable` (`NpcapHelpers`): what `GetLoopbackDeviceName`
  or a failed `Initialize` left behind never keeps a later `Initialize` from
  succeeding, and once Npcap is initialized and its name known, both stay.

### Fairness and liveness

`TimedFairSpec` assumes weak fairness of a running call of each thread (a thread that
can take its next step eventually does) and of the clock.  It assumes nothing of new
calls, of the network, or of mutexes: a receiver that is called again and again may
always win the callback mutex against `close`.  Hence the premises.  `CloseReturns`
holds when the receiver is not called for ever, the traffic ceases and the socket has
an adapter: a receive without timeout on a socket without any never blocks, and may
keep the mutex from `close` for ever.  `FiniteCallsReturn` holds when the traffic
ceases, because the deadline is only looked at after a pass without any packet
(`private.cpp:356`), and the controller makes no further calls.
`ReceiveReturnsOnClose` and `DatagramEndsWait` need neither.  In `IpReassembly` and
`NpcapHelpers` a call that has begun runs on; that calls are made, that Npcap works,
and that its registry key is not exchanged for ever are premises of the properties.

### Where the documentation and the code differ

| Run | Statement | The code |
|---|---|---|
| `fragment` | README:20, `socket.h:49`: fragmented IPv4 traffic is handled | `ip_reassembly_` of the callback arguments is always null, and dereferenced for a fragment (`private.cpp:958`) |
| `ethernet` | `socket.h:101`: once bound, ready to receive data | every packet is parsed as loopback traffic (`private.cpp:295`); datagrams of Ethernet adapters are dropped |
| `broadcast` | `socket.h:101-103`: bound to Any, any traffic for the port is received | the filter takes 255.255.255.255 for multicast that was not joined |
| `early_timeout` | `socket.h:150`: TIMEOUT if the given timeout has elapsed | what is left of a timeout is cut to 32 bits of milliseconds (`private.cpp:375`), so that one of 49 days or more elapses after its remainder |
| `truncated` | `tests/udpcap_test/src/udpcap_test.cpp:478` asserts that the 100 ms it gave have passed ("TODO: This sometimes fails. Check why!"), as `socket.h:150` says | what is left is truncated to whole milliseconds (`private.cpp:375`), and the return after the wait does not look at the clock again (`400-405`): TIMEOUT comes up to a millisecond early |
| `old_fragments` | `ip_reassembly.h:44`: the maximum age a packet may have for being used | the ageing loop passes over the entry after each one it erases (`ip_reassembly.cpp:116-125`) |

Met while reading, without a run:

* What is left of a long timeout may be exactly 0xFFFFFFFF milliseconds, which is
  INFINITE: the wait then has no end.  A timeout whose deadline does not fit into the
  clock wraps, as a rule into the past, and then ends at once (`private.cpp:236`).
* A handle left open by a `bind` that failed on a later adapter keeps its buffer size
  when `setReceiveBufferSize` and another `bind` follow, and the adapter is then open
  twice (`private.cpp:158`).
* Bound to Any, `bind` succeeds without a single open adapter (`private.cpp:130`), and
  a receive without timeout then spins on `WAIT_FAILED`; `socket.h:101` says the socket
  is ready to receive.
* `leaveMulticastGroup` does not look at `bound_state_`; `socket.h:215` says it fails
  on a socket that is not bound.
* Assigning a plain code to an `Error` keeps the message of an earlier one
  (`error.h:107-111`), so that a reused object reports OK with an old pcap message.
* With a legacy Npcap, `GetLoopbackDeviceName` returns `\device\npcap_{uuid}` and
  `IsLoopbackDevice` compares with `\device\{uuid}` (`npcap_helpers.cpp:325`, `185`): the
  device bound to localhost is then not treated as the loopback device.  The model has
  the two names apart, `Loopback` and `LoopbackDevices`; in the runs they agree, as with a
  current Npcap.
* `npcap_helpers.h:86` says that the text returned is the status.  Without a readable
  registry key, which a current Npcap does not need, every question for the loopback
  device replaces "Npcap is ready" by an error (`npcap_helpers.cpp:174-179`).
* `socket.h:137-150` says that a receive blocks until a packet arrives, and TIMEOUT that
  no datagram was available.  A packet on an adapter beyond `MAXIMUM_WAIT_OBJECTS` does
  not end the wait (`private.cpp:379`).
* A leave or a loopback switch on an unbound socket that a failed `bind` left with handles
  sets no filter, as `ip dst` without an address does not compile (`private.cpp:771`); the
  old filter stays.
* The comment at `private.cpp:228` says that a timeout of 0 waits for ever (only
  negative ones do); `host_address.h:59` says host byte order where the code uses
  network order; `operator<=` ignores validity, so that the invalid address and
  0.0.0.0 are each `<=` the other without being equal.

## 4. What is proved

`UdpcapSocketProofs` proves, for every list of devices, any number of handles, all
groups, sizes, timeouts and faults:

* `TypeCorrect`: `TypeOK` is an invariant.  It is inductive as it stands.
* `HandlesCorrect`: `HandleInv` is an invariant.  It conjoins
  `PolledHandlesAreOpen` and `OpenHandlesAreTracked` with what they need to be
  inductive:
  * `MutexOwners`: which thread holds which mutex follows from the two program
    counters; so a polling receiver and a closing controller exclude each other,
    and lists are not cleared under a reader;
  * `BindRunsAlone`: devices are opened only in `bind`, without a receiver;
  * `ClosingIsMarked`: from the first `pcap_close` to the end of `close` the closed
    flag is set, so no receiver starts a pass, although the lists still name
    closed handles;
  * `ClosesOnce`: what `close` has yet to close is free of duplicates;
  * `SeenEmpty`: during a pass without a packet, each handle behind the receiver is
    empty or has its event set since.
* `NoUseAfterClose`, `NoHandleLeaks`, `NoWakeupIsLost` follow from it, and so does
  the action property of `ListsAreStable`.
* `BindingCorrect`: `BindingInv`, inductive relative to `HandleInv`: what `bind` has
  checked before it opens devices still holds when it commits, a waiting receiver is
  bound or being closed, only `bind` keeps the lists in write mode, and a socket has an
  address just as long as it is bound, as a filter without one would not compile.
* `NeverDeadlocked`: `NoDeadlock` follows from the two.  `close` waits for the callback
  mutex only while the receiver polls; when it waits for the lists, `bind` does not hold
  them, and a receiver in its wait has only closed handles, as `OpenHandlesAreTracked`
  says that none is open then.

There is one lemma per conjunct, and in each one step per action that can disturb
it.

`UdpSocketPromiseProofs` proves `SocketKeepsItsPromise`, `Spec => ImplementsPromise`,
for all constants and with any faults.  Every action either leaves `Seen`, the part of
the state the mapping reads, as it was (lemma `Unseen`), or is shown to be one named
action of the promise: `ReceiverPromise` for a call and its outcomes,
`ControllerPromise` for the rest.  The two places that need an invariant are the ones
that are hard to see in the code: that a delivering receiver is bound and not closed
(`PolledHandlesAreOpen`), and that `WAIT_TIMEOUT`, which is reported without a look at
`bound_state_`, cannot come after the socket was unbound (`BindingInv`).

`UdpcapSettingsProofs` proves what finished calls have put into force.  The code
prints what goes wrong in these calls and carries on, so each theorem names, as a
hypothesis on the constants, the calls that have to succeed for it; the run `settings`
is an instance of all of them:

| Theorem | States | Hypotheses |
|---|---|---|
| `QueuesFitFilters` | `QueuesInv`: no queue holds a packet the filter of its handle refuses | none |
| `FiltersStayCurrent`, `NothingUnwantedIsQueued`, `OnlyWantedIsDelivered` | `FiltersAreCurrent`, `OnlyWantedTrafficIsQueued`, `DeliveredIsWanted` | `FiltersSucceed` |
| `GroupsStayKickstarted` | `GroupsAreKickstarted` | `KickstartsSucceed` |
| `SocketListensWhereBound`, `BufferSizeStaysInForce` | `ListensWhereBound`, `BufferSizeIsInForce` | `DevicesOpen` |
| `LocalMulticastIsHeardOnce` | `LocalMulticastArrivesOnce` | `FiltersSucceed`, `DevicesOpen`, `AdaptersAreDistinct` |
| `SettingsCorrect` | `SettingsInv` | `FiltersSucceed`, `KickstartsSucceed`, `DevicesOpen` |

* `FiltersSucceed`: filters can be compiled and set, and MACs read.
* `KickstartsSucceed`: the kickstart datagram is sent.
* `DevicesOpen`: `pcap_activate` succeeds, and there are `EnoughHandles`: at least two,
  and one for each device (lemma `EnoughToCount` says so of a finite set of them; an
  infinite one qualifies as well).  A `bind` that fails halfway leaves handles behind,
  which then have an old buffer size and a device opened twice.
* `AdaptersAreDistinct`: `pcap_findalldevs` names no device twice, `IsLoopbackDevice`
  accepts just the device `GetLoopbackDeviceName` returns, and each other one has a MAC.

The properties say what holds between two calls; `SettingsInv` adds what holds during
them, which is what makes it inductive:

* `FiltersInv`: an update leaves the right filter on each handle it has been at, and
  starts with all handles in front of it;
* `QueuesInv`: setting a filter discards what was captured before;
* `KickstartInv`: only a join in progress is behind with its kickstart;
* `DevicesInv`: what `bind` has opened and what it has yet to open are together the list
  it looked up, and an unbound socket has no handle, so nothing of an earlier binding
  is left over;
* `SizesInv`: the size changes only while there is no handle, which needs `DevicesInv`.

`OnlyWantedIsDelivered` needs the first two at the moment of delivery rather than between
calls: a `close` under way has not changed the settings, and an update of the filters
is what the property excepts.  `LocalMulticastIsHeardOnce` adds that each of the three
kinds of list `bind` looks up has the loopback device exactly once, and that a handle
hears a local multicast just if it is that device's (lemma `HearsOnLoopback`).

`ReceiveTimeoutProofs` proves `TimedSocketIsASocket`, that the socket with a clock
implements the one without: every theorem about `UdpcapSocket` holds of it too.  For
any resolution and range of the clock and any width of the argument, it proves
`WaitsEndByDeadline` and `NoEarlyTimeout` (`TimeoutIsNotAMillisecondEarly`), under the
hypothesis `Expressible` that a timeout is below INFINITE milliseconds and its deadline
within the clock; the run `early_timeout` shows that the hypothesis is needed, and
`truncated` that the millisecond is.  `TimeTypesCorrect` needs no such
hypothesis: also where the arithmetic wraps, a deadline stays in the range of the clock
and the argument of a wait in that of an `unsigned long`.  The invariant is `TimeInv` (theorem `TimeCorrect`): the
deadline is `started + TICKS * timeout_ms` exactly, nothing wrapped.  With it, the
quotient and the remainder of what is left bound the end of each wait.

`HostAddressProofs` proves `GroupsHaveDistinctKeys` for all addresses: the order of
four octets, read as a 32-bit number, is expanded into its four cases; and
`ComparisonsAgree`, that the other comparisons fit that order on valid addresses.

`IpReassemblyProofs` proves `TypeCorrect` and `MapsInStep` for any packets, fragments,
age and capacity.  Their conjunction is inductive: `MapsAgree` says of the ageing loop
that each entry it is still to visit exists, which is what a removal from both maps
needs.  Two lemmas say what erasing and emplacing do to a map.  `CapacityStays` counts:
a new packet takes the place of the one dropped for it, as the callback has removed its
entry by then.

`NpcapHelpersProofs` proves `NameStaysTheSame`, from the invariant that an initialized
Npcap has no `Initialize` under way.

The assumptions are those of `UdpcapSocket`: `DevicesAssumption` (a finite list that
contains the loopback device), `AddressesAssumption` (valid addresses, and groups that
are multicast, as the guards of `bind` and `joinMulticastGroup` see to),
`CallsAssumption` and `TimeoutsAssumption` (what the types of the parameters allow),
`LimitsAssumption`; of `IpReassembly`, `ReassemblyAssumption`, of `NpcapHelpers`, that a
UUID is not the empty string, and of `ReceiveTimeout`, `TimeAssumption` (the clock does
not reach its last reading) and `KindAssumption`.  Each proof names those it uses.

Only model-checked: liveness, which rests on fairness and so is beyond the prover
(`CloseReturns`, `ReceiveReturnsOnClose`, `DatagramEndsWait`, `FiniteCallsReturn`,
`ExpiredPacketsGo`, `InitializeRecovers`); and the statements that do not hold, whose
counterexamples are what their runs show.  Every invariant and every action property
of a passing run is a theorem, some of them under the hypotheses named above.

## 5. Plan

Done so far, in this order: the socket with its filters and addresses, its promise
and its theorems; the reassembly; the Npcap helpers; the arithmetic of timeouts, with
its theorems; local multicast; the refinement theorem; the theorems about settings and
about the capacity of the reassembly.  Left, in this order:

1. The settings with partial failures: which of them still hold when opening fails but
   filters can be set (an adapter passed over by a `bind` to Any, handles left behind by
   a failed `bind`), stated, checked and proved.
2. The safety half of the liveness properties: that a thread inside a call, unless it
   is blocked as `NoDeadlock` has it, has a next step, and that `close` has fewer
   handles in front of it after each one.

Not modelled, and why:

* `IpReassembly` behind the packet handler: the code never hands it a reassembly
  object, so there is no such composition to be faithful to.
* Moving a `UdpcapSocket`, whose moved-from pointer is null; text conversion of
  addresses and errors; logging; samples, tests and the build.
* Two controllers at once, which the thread contract of `socket.h:67-71` rules out.
