------------------------ MODULE ReceiveTimeoutProofs ------------------------
(***************************************************************************)
(* Theorems about ReceiveTimeout, for any clock, any width of the argument *)
(* of the wait, and any timeouts these have room for.                      *)
(***************************************************************************)
EXTENDS ReceiveTimeout, UdpcapSocketProofs

-----------------------------------------------------------------------------
(* A timed step is a step of UdpcapSocket, whatever the arithmetic comes   *)
(* to: what is proved of the socket holds of the timed one too.            *)

LEMMA TimedStepIsAStep == [TimedNext]_timedVars => [Next]_vars
<1> SUFFICES ASSUME [TimedNext]_timedVars PROVE [Next]_vars
  OBVIOUS
<1>1. CASE ~aborted /\ TimedReceiverCall
  <2>1. PICK ms \in Milliseconds : ReceiveDatagram(Kind(ms))
    BY <1>1 DEF TimedReceiverCall, TimedReceiveDatagram
  <2>2. Kind(ms) \in Timeouts
    BY KindAssumption
  <2> QED
    BY <1>1, <2>1, <2>2 DEF Next, ReceiverCall
<1>2. CASE ~aborted /\ TimedReceiverStep
  BY <1>2 DEF TimedReceiverStep, TimedOutOfTime, TimedBeginWait, TimedWaitTimeout,
              UntimedReturn, UntimedStep, EndWait, Next, ReceiverStep
<1>3. CASE ~aborted /\ OtherStep
  BY <1>3 DEF OtherStep, Next
<1>4. CASE Tick
  BY <1>4 DEF Tick
<1>5. CASE UNCHANGED timedVars
  BY <1>5 DEF timedVars
<1> QED
  BY <1>1, <1>2, <1>3, <1>4, <1>5 DEF TimedNext

\* ReceiveTimeout implements UdpcapSocket: the choices UdpcapSocket leaves open
\* contain all the clock can make of them.
THEOREM TimedSocketIsASocket == TimedSpec => Spec
<1>1. TimedInit => Init
  BY DEF TimedInit
<1> QED
  BY <1>1, TimedStepIsAStep, PTL DEF TimedSpec, Spec

-----------------------------------------------------------------------------
(* Arithmetic *)

LEMMA WholeMilliseconds ==
  ASSUME NEW d \in Nat, NEW t \in Nat \ {0}
  PROVE  /\ d \div t \in Nat
         /\ (d \div t) * t <= d
         /\ d < (d \div t) * t + t
  BY SMT

LEMMA WholeMillisecondsLeft ==
  ASSUME NEW d \in Nat, NEW t \in Nat \ {0}, NEW m \in Nat, d <= m * t
  PROVE  d \div t <= m
  BY SMT

LEMMA Fits ==
  ASSUME NEW x \in Nat, NEW n \in Nat, x < n
  PROVE  x % n = x
  BY SMT

\* What is in the range of the clock does not wrap.
LEMMA NoWrap ==
  ASSUME NEW n \in Int, -(REP_MAX + 1) <= n, n <= REP_MAX
  PROVE  Wrapped(n) = n
<1>1. REP_MAX \in Nat
  BY TimeAssumption
<1>2. n + REP_MAX + 1 \in Nat /\ 2 * (REP_MAX + 1) \in Nat /\ n + REP_MAX + 1 < 2 * (REP_MAX + 1)
  BY <1>1
<1>3. (n + REP_MAX + 1) % (2 * (REP_MAX + 1)) = n + REP_MAX + 1
  BY <1>2, Fits
<1> QED
  BY <1>1, <1>3 DEF Wrapped

LEMMA WrappedType ==
  ASSUME NEW n \in Int
  PROVE  Wrapped(n) \in -(REP_MAX + 1)..REP_MAX
<1>1. REP_MAX \in Nat
  BY TimeAssumption
<1>2. (n + REP_MAX + 1) % (2 * (REP_MAX + 1)) \in 0..(2 * (REP_MAX + 1) - 1)
  BY <1>1
<1> QED
  BY <1>1, <1>2 DEF Wrapped

\* A timeout the clock has room for is added without a wrap.
LEMMA ExactDeadline ==
  ASSUME Expressible, NEW start \in 0..MaxTime, NEW ms \in Milliseconds, ms >= 0
  PROVE  Deadline(start, ms) = start + TICKS * ms
<1>1. /\ TICKS \in Nat /\ REP_MAX \in Nat /\ MaxTime \in Nat /\ ms \in Int
      /\ MaxTime + ms * TICKS <= REP_MAX
  BY TimeAssumption DEF Expressible
<1>2. ms * TICKS \in Nat
  BY <1>1
<1>3. InTicks(ms) = ms * TICKS
  BY <1>1, <1>2, NoWrap DEF InTicks
<1>4. Wrapped(start + ms * TICKS) = start + ms * TICKS
  BY <1>1, <1>2, NoWrap
<1>5. ms * TICKS = TICKS * ms
  BY <1>1
<1> QED
  BY <1>1, <1>3, <1>4, <1>5 DEF Deadline

LEMMA DeadlineType ==
  ASSUME NEW start \in 0..MaxTime, NEW ms \in Milliseconds
  PROVE  Deadline(start, ms) \in -(REP_MAX + 1)..REP_MAX
<1>1. TICKS \in Nat /\ REP_MAX \in Nat /\ MaxTime \in Nat /\ ms \in Int
  BY TimeAssumption
<1>2. InTicks(ms) \in Int
  BY <1>1, WrappedType DEF InTicks
<1>3. Wrapped(start + InTicks(ms)) \in -(REP_MAX + 1)..REP_MAX
  BY <1>1, <1>2, WrappedType
<1> QED
  BY <1>1, <1>3 DEF Deadline

LEMMA GivesUpType ==
  ASSUME TimeTypeOK
  PROVE  GivesUpAt(WaitArgument) \in Nat
<1>1. /\ now \in Nat /\ wait_until \in Int /\ TICKS \in Nat \ {0}
      /\ DWORD \in Nat \ {0} /\ REP_MAX \in Nat
  BY TimeAssumption DEF TimeTypeOK
<1>2. (wait_until - now) \div TICKS \in Int
  BY <1>1
<1>3. RemainingMs \in Nat
  BY <1>1, <1>2 DEF RemainingMs
<1>4. WaitArgument \in Nat
  BY <1>1, <1>3 DEF WaitArgument, INFINITE
<1>5. WaitArgument * TICKS \in Nat
  BY <1>1, <1>4
<1> QED
  BY <1>1, <1>5 DEF GivesUpAt, Never

-----------------------------------------------------------------------------
(* Types: for every timeout, also one the arithmetic has no room for *)

LEMMA TimeTypesInit == TimedInit => TimeTypeOK
<1>1. MaxTime \in Nat /\ REP_MAX \in Nat
  BY TimeAssumption
<1> QED
  BY <1>1 DEF TimedInit, Init, TimeTypeOK, Never

LEMMA NoCallTypes ==
  ASSUME NoCall, rpc' = "idle"
  PROVE  TimeTypeOK'
<1>1. MaxTime \in Nat /\ REP_MAX \in Nat
  BY TimeAssumption
<1> QED
  BY <1>1 DEF NoCall, TimeTypeOK, Never

\* A receive that returns forgets its deadline.
LEMMA ReturnEndsCall ==
  ASSUME TimedOutOfTime \/ TimedWaitTimeout \/ UntimedReturn
  PROVE  NoCall /\ rpc' = "idle"
  BY DEF TimedOutOfTime, TimedWaitTimeout, UntimedReturn, OutOfTime, WaitTimeout,
         ReceiveClosed, ReceiveNotBound, PollDatagram, PollError, Return

LEMMA CallTypes ==
  ASSUME NEW ms \in Milliseconds, TimedReceiveDatagram(ms)
  PROVE  TimeTypeOK'
<1>1. CASE rpc' = "idle"
  BY <1>1, NoCallTypes DEF TimedReceiveDatagram
<1>2. CASE rpc' # "idle"
  <2>1. rpc' = "lock" /\ timeout' = Kind(ms)
    BY <1>2 DEF TimedReceiveDatagram, ReceiveDatagram
  <2>2. /\ now' \in 0..MaxTime /\ started' = now' /\ timeout_ms' = ms
        /\ wait_until' = Deadline(now', ms) /\ wake' = Never
    BY <1>2, TimeAssumption DEF TimedReceiveDatagram
  <2>3. MaxTime \in Nat /\ REP_MAX \in Nat
    BY TimeAssumption
  <2>4. wait_until' \in -(REP_MAX + 1)..REP_MAX
    BY <2>2, DeadlineType
  <2> QED
    BY <2>1, <2>2, <2>3, <2>4 DEF TimeTypeOK, Never
<1> QED
  BY <1>1, <1>2

\* What a step that does not look at the clock leaves alone.
LEMMA UntimedFrame ==
  /\ Tick => /\ now' = now + 1 /\ now < MaxTime
             /\ UNCHANGED <<rpc, timeout, started, timeout_ms, wait_until, wake>>
  /\ UntimedStep => /\ rpc # "idle" /\ rpc' # "wait"
                    /\ UNCHANGED <<timeout, now, started, timeout_ms, wait_until, wake>>
  /\ EndWait => /\ rpc # "idle" /\ rpc' = "loop" /\ wake' = Never
                /\ UNCHANGED <<timeout, now, started, timeout_ms, wait_until>>
  /\ OtherStep \/ UNCHANGED timedVars => UNCHANGED <<rpc, timeout, timeVars>>
<1>1. ASSUME Tick
      PROVE  /\ now' = now + 1 /\ now < MaxTime
             /\ UNCHANGED <<rpc, timeout, started, timeout_ms, wait_until, wake>>
  BY <1>1 DEF Tick, vars, receiverVars
<1>2. ASSUME UntimedStep
      PROVE  /\ rpc # "idle" /\ rpc' # "wait"
             /\ UNCHANGED <<timeout, now, started, timeout_ms, wait_until, wake>>
  BY <1>2 DEF UntimedStep, timeVars, ReceiveLockLists, StartPass, PollEmpty,
              PollDiscard, PollFragment, NextPass, Polling, EndOfPass
<1>3. ASSUME EndWait
      PROVE  /\ rpc # "idle" /\ rpc' = "loop" /\ wake' = Never
             /\ UNCHANGED <<timeout, now, started, timeout_ms, wait_until>>
  BY <1>3 DEF EndWait, WaitSignalled, WaitFailed, ContinueLoop
<1>4. ASSUME OtherStep \/ UNCHANGED timedVars
      PROVE  UNCHANGED <<rpc, timeout, timeVars>>
  BY <1>4
  DEF OtherStep, timedVars, vars, receiverVars, ControllerCall, ControllerStep, Capture,
      Bind, JoinMulticastGroup, LeaveMulticastGroup, SetMulticastLoopbackEnabled,
      SetReceiveBufferSize, Close, OpenPcapDevice, OpenPcapDeviceFails, BindCommit,
      UpdateCaptureFilter, FiltersUpdated, MarkClosed, PcapClose, HandlesClosed,
      ClearLists, ResetBinding, Arrive
<1> QED
  BY <1>1, <1>2, <1>3, <1>4

LEMMA TimeTypesStep == TimeTypeOK /\ [TimedNext]_timedVars => TimeTypeOK'
<1> SUFFICES ASSUME TimeTypeOK, [TimedNext]_timedVars PROVE TimeTypeOK'
  OBVIOUS
<1>0. MaxTime \in Nat /\ REP_MAX \in Nat
  BY TimeAssumption
<1>1. CASE TimedReceiverCall
  BY <1>1, CallTypes DEF TimedReceiverCall
<1>2. CASE TimedOutOfTime \/ TimedWaitTimeout \/ UntimedReturn
  BY <1>2, ReturnEndsCall, NoCallTypes
<1>3. CASE TimedBeginWait
  <2>1. /\ rpc = "poll" /\ rpc' = "wait" /\ wake' = GivesUpAt(WaitArgument)
        /\ UNCHANGED <<now, started, timeout_ms, wait_until, timeout>>
    BY <1>3 DEF TimedBeginWait, BeginWait, EndOfPass
  <2> QED
    BY <2>1, GivesUpType DEF TimeTypeOK
<1>4. CASE Tick
  BY <1>0, <1>4, UntimedFrame DEF TimeTypeOK
<1>5. CASE UntimedStep
  BY <1>5, UntimedFrame DEF TimeTypeOK
<1>6. CASE EndWait
  BY <1>0, <1>6, UntimedFrame DEF TimeTypeOK, Never
<1>7. CASE OtherStep \/ UNCHANGED timedVars
  BY <1>7, UntimedFrame DEF TimeTypeOK, timeVars
<1> QED
  BY <1>1, <1>2, <1>3, <1>4, <1>5, <1>6, <1>7 DEF TimedNext, TimedReceiverStep

\* Whatever the timeout, a wait is never told to end before the clock began, and a
\* pending call keeps the timeout it was given: a wrap or a cut to 32 bits leaves
\* numbers the code can go on with, if not the right ones.
THEOREM TimeTypesCorrect == TimedSpec => []TimeTypeOK
  BY TimeTypesInit, TimeTypesStep, PTL DEF TimedSpec

-----------------------------------------------------------------------------
(* Deadlines: an inductive invariant, for the timeouts there is room for *)

LEMMA DeadlineInit == TimedInit => DeadlineIsExact /\ WaitEndsByDeadline
  BY DEF TimedInit, Init, DeadlineIsExact, WaitEndsByDeadline

\* A call begins.
LEMMA CallInv ==
  ASSUME Expressible, NEW ms \in Milliseconds, TimedReceiveDatagram(ms)
  PROVE  DeadlineIsExact' /\ WaitEndsByDeadline'
<1>1. CASE rpc' = "idle"
  BY <1>1 DEF DeadlineIsExact, WaitEndsByDeadline
<1>2. CASE rpc' # "idle"
  <2>1. rpc' = "lock"
    BY <1>2 DEF TimedReceiveDatagram, ReceiveDatagram
  <2>2. /\ now' \in 0..MaxTime /\ started' = now' /\ timeout_ms' = ms
        /\ wait_until' = Deadline(now', ms)
    BY <1>2, TimeAssumption DEF TimedReceiveDatagram
  <2> QED
    BY <2>1, <2>2, ExactDeadline DEF DeadlineIsExact, WaitEndsByDeadline
<1> QED
  BY <1>1, <1>2

\* A wait begins: what is left, cut to 32 bits, is still what is left.
LEMMA BeginWaitInv ==
  ASSUME Expressible, TimeInv, TimedBeginWait
  PROVE  DeadlineIsExact' /\ WaitEndsByDeadline'
<1>1. /\ rpc = "poll" /\ rpc' = "wait" /\ now < wait_until
      /\ wake' = GivesUpAt(WaitArgument)
      /\ UNCHANGED <<now, started, timeout_ms, wait_until, timeout>>
  BY DEF TimedBeginWait, BeginWait, EndOfPass
<1>2. DeadlineIsExact'
  BY <1>1 DEF TimeInv, DeadlineIsExact
<1>3. ASSUME timeout_ms >= 0
      PROVE  /\ wake' > started + TICKS * (timeout_ms - 1)
             /\ wake' <= started + TICKS * timeout_ms
  <2> DEFINE left == wait_until - now
             whole == left \div TICKS
  <2>1. /\ now \in Nat /\ started \in Nat /\ started <= now /\ timeout_ms \in Milliseconds
        /\ timeout_ms \in Nat /\ TICKS \in Nat \ {0} /\ DWORD \in Nat \ {0}
    BY <1>1, <1>3, TimeAssumption DEF TimeInv, TimeTypeOK
  <2>2. wait_until = started + TICKS * timeout_ms /\ TICKS * timeout_ms \in Nat
    BY <1>1, <1>3, <2>1 DEF TimeInv, DeadlineIsExact
  <2>3. left \in Nat /\ left <= timeout_ms * TICKS
    BY <1>1, <2>1, <2>2
  <2>4. whole \in Nat /\ whole * TICKS <= left /\ left < whole * TICKS + TICKS
    BY <2>1, <2>3, WholeMilliseconds
  <2>5. whole <= timeout_ms
    BY <2>1, <2>3, WholeMillisecondsLeft
  <2>6. whole < INFINITE /\ whole < DWORD
    BY <2>1, <2>4, <2>5 DEF Expressible, INFINITE
  <2>7. WaitArgument = whole
    BY <1>3, <2>1, <2>4, <2>6, Fits DEF WaitArgument, RemainingMs
  <2>8. wake' = now + whole * TICKS
    BY <1>1, <2>1, <2>4, <2>6, <2>7 DEF GivesUpAt, INFINITE
  <2>9. TICKS * (timeout_ms - 1) = TICKS * timeout_ms - TICKS
    BY <2>1
  <2>10. whole * TICKS \in Nat
    BY <2>1, <2>4
  <2> HIDE DEF whole
  <2> QED
    BY <2>1, <2>2, <2>4, <2>8, <2>9, <2>10
<1>4. WaitEndsByDeadline'
  BY <1>1, <1>3 DEF WaitEndsByDeadline
<1> QED
  BY <1>2, <1>4

\* Time passes, or a step that does not look at the clock is taken.
LEMMA OtherInv ==
  ASSUME TimeInv, Tick \/ UntimedStep \/ EndWait \/ OtherStep \/ UNCHANGED timedVars
  PROVE  DeadlineIsExact' /\ WaitEndsByDeadline'
<1> USE UntimedFrame DEF TimeInv, DeadlineIsExact, WaitEndsByDeadline
<1>1. CASE Tick
  BY <1>1
<1>2. CASE UntimedStep
  BY <1>2
<1>3. CASE EndWait
  BY <1>3
<1>4. CASE OtherStep \/ UNCHANGED timedVars
  BY <1>4 DEF timeVars
<1> QED
  BY <1>1, <1>2, <1>3, <1>4

LEMMA TimeInvStep ==
  ASSUME Expressible
  PROVE  TimeInv /\ [TimedNext]_timedVars => TimeInv'
<1> SUFFICES ASSUME TimeInv, [TimedNext]_timedVars
             PROVE  DeadlineIsExact' /\ WaitEndsByDeadline'
  BY TimeTypesStep DEF TimeInv
<1>1. CASE TimedReceiverCall
  BY <1>1, CallInv DEF TimedReceiverCall
<1>2. CASE TimedOutOfTime \/ TimedWaitTimeout \/ UntimedReturn
  BY <1>2, ReturnEndsCall DEF DeadlineIsExact, WaitEndsByDeadline
<1>3. CASE TimedBeginWait
  BY <1>3, BeginWaitInv
<1>4. CASE UntimedStep \/ EndWait \/ OtherStep \/ Tick \/ UNCHANGED timedVars
  BY <1>4, OtherInv
<1> QED
  BY <1>1, <1>2, <1>3, <1>4 DEF TimedNext, TimedReceiverStep

\* The deadline of a call is where its timeout puts it, and its waits end there.
THEOREM TimeCorrect ==
  ASSUME Expressible
  PROVE  TimedSpec => []TimeInv
<1>1. TimedInit => TimeInv
  BY TimeTypesInit, DeadlineInit DEF TimeInv
<1>2. TimeInv /\ [TimedNext]_timedVars => TimeInv'
  BY TimeInvStep
<1> QED
  BY <1>1, <1>2, PTL DEF TimedSpec

\* Each wait of a call ends in the last millisecond of the time the call was given,
\* for every timeout below 49 days and every resolution of the clock.
THEOREM WaitsEndByDeadline ==
  ASSUME Expressible
  PROVE  TimedSpec => []WaitEndsByDeadline
<1>1. TimedSpec => []TimeInv
  BY TimeCorrect
<1>2. TimeInv => WaitEndsByDeadline
  BY DEF TimeInv
<1> QED
  BY <1>1, <1>2, PTL

\* No call reports TIMEOUT a millisecond or more too early, and none that waits without
\* a timeout does.  The bound is the best there is: less than a millisecond too early is
\* what the run "truncated" ends in.
THEOREM NoEarlyTimeout ==
  ASSUME Expressible
  PROVE  TimedSpec => TimeoutIsNotAMillisecondEarly
<1> USE DEF TimesOut
<1> DEFINE InTime == timeout_ms >= 0 /\ now > started + TICKS * (timeout_ms - 1)
<1>1. ASSUME TypeOK, TimeInv, [TimedNext]_timedVars, TimesOut
      PROVE  InTime
  <2>1. /\ timeout = Kind(timeout_ms) /\ timeout_ms \in Int /\ TICKS \in Nat \ {0}
        /\ now \in Nat /\ started \in Nat
    BY <1>1, TimeAssumption DEF TimeInv, TimeTypeOK
  <2>2. TICKS * (timeout_ms - 1) = TICKS * timeout_ms - TICKS
        /\ TICKS * timeout_ms \in Int
    BY <2>1
  <2>3. CASE TimedOutOfTime
    <3>1. timeout_ms >= 0 /\ now >= wait_until
      BY <2>1, <2>3 DEF TimedOutOfTime, OutOfTime, MayTimeOut, Kind
    <3>2. wait_until = started + TICKS * timeout_ms
      BY <1>1, <3>1 DEF TimeInv, DeadlineIsExact
    <3> QED
      BY <2>1, <2>2, <3>1, <3>2
  <2>4. CASE TimedWaitTimeout
    <3>1. timeout_ms >= 0 /\ rpc = "wait" /\ now >= wake /\ wake \in Nat
      BY <1>1, <2>1, <2>4
      DEF TimedWaitTimeout, WaitTimeout, MayTimeOut, Kind, TimeInv, TimeTypeOK
    <3>2. wake > started + TICKS * (timeout_ms - 1)
      BY <1>1, <3>1 DEF TimeInv, WaitEndsByDeadline
    <3> QED
      BY <2>1, <2>2, <3>1, <3>2
  <2>5. CASE UntimedReturn
    <3>1. error \in Errors
      BY <1>1 DEF TypeOK, ReceiverTypes
    <3>2. error'.code # "TIMEOUT"
      BY <2>5, <3>1 DEF UntimedReturn, ReceiveClosed, ReceiveNotBound, PollDatagram,
                        PollError, Return, Plain, Errors
    <3> QED
      BY <1>1, <3>2
  <2>6. CASE TimedReceiverCall
    BY <1>1, <2>6 DEF TimedReceiverCall, TimedReceiveDatagram, ReceiveDatagram
  <2>7. CASE TimedBeginWait \/ UntimedStep \/ EndWait
    BY <1>1, <2>7
    DEF TimedBeginWait, BeginWait, UntimedStep, EndWait, ReceiveLockLists, StartPass,
        PollEmpty, PollDiscard, PollFragment, NextPass, WaitSignalled, WaitFailed,
        ContinueLoop, Polling
  <2>8. CASE Tick \/ OtherStep \/ UNCHANGED timedVars
    <3>1. UNCHANGED rpc
      BY <2>8
      DEF Tick, OtherStep, timedVars, vars, receiverVars, ControllerCall, ControllerStep,
          Capture, Bind, JoinMulticastGroup, LeaveMulticastGroup,
          SetMulticastLoopbackEnabled, SetReceiveBufferSize, Close, OpenPcapDevice,
          OpenPcapDeviceFails, BindCommit, UpdateCaptureFilter, FiltersUpdated, MarkClosed,
          PcapClose, HandlesClosed, ClearLists, ResetBinding, Arrive
    <3> QED
      BY <1>1, <3>1
  <2> QED
    BY <1>1, <2>3, <2>4, <2>5, <2>6, <2>7, <2>8 DEF TimedNext, TimedReceiverStep
<1>2. TypeOK /\ TimeInv /\ [TimedNext]_timedVars => [TimesOut => InTime]_timedVars
  BY <1>1
<1>3. TimedSpec => []TimeInv
  BY TimeCorrect
<1>4. TimedSpec => []TypeOK
  BY TimedSocketIsASocket, TypeCorrect, PTL
<1> QED
  BY <1>2, <1>3, <1>4, PTL DEF TimedSpec, TimeoutIsNotAMillisecondEarly
=============================================================================
