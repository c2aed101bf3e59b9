--------------------------- MODULE ReceiveTimeout ---------------------------
(***************************************************************************)
(* The arithmetic of the timeout of receiveDatagram.  UdpcapSocket leaves  *)
(* it to chance whether a finite timeout has elapsed; here each of its     *)
(* steps that looks at the clock is taken together with what the code      *)
(* computes, so that a timed step always is a step of UdpcapSocket.        *)
(*                                                                         *)
(* Time is counted in ticks of steady_clock, and passes at any moment of a *)
(* call.  Between calls nobody reads the clock: a call begins at any of    *)
(* the readings in Starts.                                                 *)
(***************************************************************************)
EXTENDS UdpcapSocketProperties

CONSTANTS
  TICKS,         \* ticks in a millisecond; 10^6 for the clock of MSVC
  REP_MAX,       \* the largest reading, time_point::max(); 2^63 - 1
  DWORD,         \* values of an unsigned long; 2^32
  Milliseconds,  \* what the application passes as timeout_ms
  Starts,        \* what the clock may read when a call begins
  MaxTime        \* bound on the clock

ASSUME TimeAssumption ==
  /\ TICKS \in Nat \ {0} /\ DWORD \in Nat \ {0} /\ REP_MAX \in Nat
  /\ MaxTime \in Nat /\ MaxTime < REP_MAX
  /\ Starts \subseteq 0..MaxTime /\ Starts # {}
  /\ Milliseconds \subseteq Int

VARIABLES
  now,         \* steady_clock::now()
  started,     \* when the call began
  timeout_ms,
  wait_until,
  wake         \* when WaitForMultipleObjects gives up

timeVars == <<now, started, timeout_ms, wait_until, wake>>
timedVars == <<vars, timeVars>>

-----------------------------------------------------------------------------
(* Arithmetic *)

INFINITE == DWORD - 1
Never == REP_MAX + 1

\* A signed 64 bit result.  Overflow is undefined; the builds wrap.
Wrapped(n) == ((n + REP_MAX + 1) % (2 * (REP_MAX + 1))) - (REP_MAX + 1)

MUTANT_NoConversion(ms) == ms

\* std::chrono::milliseconds as the duration of the clock
InTicks(ms) == Wrapped(ms * TICKS)

MUTANT_ZeroIsForever(start, ms) ==
  IF ms <= 0 THEN REP_MAX ELSE Wrapped(start + InTicks(ms))

Deadline(start, ms) == IF ms < 0 THEN REP_MAX ELSE Wrapped(start + InTicks(ms))

MUTANT_WaitsTheWholeTimeout == timeout_ms
MUTANT_OneMillisecondLess == (((wait_until - now) \div TICKS) - 1) % DWORD

\* What is left, in whole milliseconds, cut to 32 bits.
RemainingMs == ((wait_until - now) \div TICKS) % DWORD

\* WaitForMultipleObjects is told how long to wait, or INFINITE.
WaitArgument == IF timeout_ms < 0 THEN INFINITE ELSE RemainingMs

GivesUpAt(ms) == IF ms = INFINITE THEN Never ELSE now + ms * TICKS

\* How UdpcapSocket calls a timeout.
Kind(ms) == IF ms < 0 THEN "forever" ELSE IF ms = 0 THEN "zero" ELSE "finite"

ASSUME KindAssumption == \A ms \in Milliseconds : Kind(ms) \in Timeouts

-----------------------------------------------------------------------------
NoCall == /\ now' = 0 /\ started' = 0 /\ timeout_ms' = 0 /\ wait_until' = 0 /\ wake' = Never

TimedInit ==
  /\ Init
  /\ now = 0 /\ started = 0 /\ timeout_ms = 0 /\ wait_until = 0 /\ wake = Never

Tick ==
  /\ rpc # "idle"
  /\ now < MaxTime
  /\ now' = now + 1
  /\ UNCHANGED <<vars, started, timeout_ms, wait_until, wake>>

TimedReceiveDatagram(ms) ==
  /\ ReceiveDatagram(Kind(ms))
  /\ IF rpc' = "idle"
     THEN NoCall
     ELSE /\ now' \in Starts
          /\ started' = now'
          /\ timeout_ms' = ms
          /\ wait_until' = Deadline(now', ms)
          /\ wake' = Never

TimedOutOfTime ==
  /\ OutOfTime
  /\ now >= wait_until
  /\ NoCall

TimedBeginWait ==
  /\ BeginWait
  /\ now < wait_until
  /\ wake' = GivesUpAt(WaitArgument)
  /\ UNCHANGED <<now, started, timeout_ms, wait_until>>

\* The clock is not read again.
TimedWaitTimeout ==
  /\ WaitTimeout
  /\ now >= wake
  /\ NoCall

UntimedReturn ==
  /\ ReceiveClosed \/ ReceiveNotBound \/ PollDatagram \/ PollError
  /\ NoCall

UntimedStep ==
  /\ \/ ReceiveLockLists \/ StartPass
     \/ PollEmpty \/ PollDiscard \/ PollFragment \/ NextPass
  /\ UNCHANGED timeVars

EndWait ==
  /\ WaitSignalled \/ WaitFailed
  /\ wake' = Never
  /\ UNCHANGED <<now, started, timeout_ms, wait_until>>

-----------------------------------------------------------------------------
TimedReceiverCall == \E ms \in Milliseconds : TimedReceiveDatagram(ms)

TimedReceiverStep ==
  TimedOutOfTime \/ TimedBeginWait \/ TimedWaitTimeout \/ UntimedReturn \/ UntimedStep \/ EndWait

OtherStep == (ControllerCall \/ ControllerStep \/ Capture) /\ UNCHANGED timeVars

\* After the null pointer there is no process left to take a step.
TimedNext == ~aborted /\ (TimedReceiverCall \/ TimedReceiverStep \/ OtherStep \/ Tick)

TimedSpec == TimedInit /\ [][TimedNext]_timedVars

\* Time goes on, and so does a thread inside a call.
TimedFairSpec ==
  /\ TimedSpec
  /\ WF_timedVars(~aborted /\ TimedReceiverStep)
  /\ WF_timedVars(~aborted /\ ControllerStep /\ UNCHANGED timeVars)
  /\ WF_timedVars(~aborted /\ Tick)

-----------------------------------------------------------------------------
\* The timeouts the arithmetic has room for: below the 32-bit INFINITE, which is 49
\* days, and with a deadline the clock can reach.
Expressible ==
  \A ms \in Milliseconds : ms < INFINITE /\ MaxTime + ms * TICKS <= REP_MAX

\* Types.  No wait ends before the clock began.
TimeTypeOK ==
  /\ now \in 0..MaxTime /\ started \in 0..now
  /\ timeout_ms \in Milliseconds \cup {0}
  /\ wait_until \in -(REP_MAX + 1)..REP_MAX
  /\ wake \in Nat
  /\ rpc # "idle" => timeout_ms \in Milliseconds /\ timeout = Kind(timeout_ms)

\* udpcap_socket.h:164 "Maximum time to wait for a datagram in ms": each wait of a
\* call, also the second and the third, ends in the last millisecond of the time
\* the whole call was given.
WaitEndsByDeadline ==
  rpc = "wait" /\ timeout_ms >= 0 =>
    /\ wake > started + TICKS * (timeout_ms - 1)
    /\ wake <= started + TICKS * timeout_ms

TimesOut == rpc # "idle" /\ rpc' = "idle" /\ error'.code = "TIMEOUT"

\* udpcap_socket.h:150 "TIMEOUT if the given timeout has elapsed", and the elapsed
\* time udpcap_test.cpp:478 asserts: a call reports TIMEOUT only when the whole time
\* it was given has passed, and not to a caller who waits without a timeout.
TimeoutIsNotEarly ==
  [][TimesOut => timeout_ms >= 0 /\ now >= started + TICKS * timeout_ms]_timedVars

\* What the code keeps of it, for a timeout that fits into 32 bits: however often other
\* packets or a failed wait have interrupted the call, what it is early by is less than
\* a millisecond, all that the truncation of what is left can lose.
TimeoutIsNotAMillisecondEarly ==
  [][TimesOut => timeout_ms >= 0 /\ now > started + TICKS * (timeout_ms - 1)]_timedVars

\* Why they hold: the deadline of a call is where it was set.
DeadlineIsExact ==
  rpc # "idle" /\ timeout_ms >= 0 => wait_until = started + TICKS * timeout_ms

TimeInv == TimeTypeOK /\ DeadlineIsExact /\ WaitEndsByDeadline

\* A receive with a timeout returns, once the packets that are none of the socket's
\* and the controller's calls cease: also one of a socket whose adapters all failed
\* to open, whose waits end at once, and one that has less than a millisecond left.
FiniteCallsReturn ==
  TrafficCeases /\ ControllerRests => (rpc # "idle" /\ timeout_ms >= 0 ~> rpc = "idle")
=============================================================================
