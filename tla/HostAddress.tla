---------------------------- MODULE HostAddress ----------------------------
(***************************************************************************)
(* Udpcap::HostAddress, an IPv4 address that may be invalid.               *)
(*                                                                         *)
(* The code keeps the address as a uint32_t in network byte order on a     *)
(* little endian machine, so that the low byte is the FIRST octet.  Here   *)
(* it is the tuple of its octets, ipv4_[1] being that low byte; toInt and  *)
(* the integer comparisons read ipv4_[4] as the most significant octet.    *)
(***************************************************************************)
EXTENDS Naturals

Octets == 0..255

Addresses == [valid_ : BOOLEAN, ipv4_ : [1..4 -> Octets]]

Invalid   == [valid_ |-> FALSE, ipv4_ |-> <<0, 0, 0, 0>>]
Address(ipv4) == [valid_ |-> TRUE, ipv4_ |-> ipv4]

Any       == Address(<<0, 0, 0, 0>>)
LocalHost == Address(<<127, 0, 0, 1>>)
Broadcast == Address(<<255, 255, 255, 255>>)

isLoopback(a)  == a.valid_ /\ a.ipv4_[1] = 127
isMulticast(a) == a.valid_ /\ a.ipv4_[1] \in 224..239

-----------------------------------------------------------------------------
(* The order std::set uses: < is false as soon as one operand is invalid.  *)

IntLess(v, w) == \E i \in 1..4 : v[i] < w[i] /\ \A j \in (i + 1)..4 : v[j] = w[j]

Less(a, b) == a.valid_ /\ b.valid_ /\ IntLess(a.ipv4_, b.ipv4_)

\* What std::set<HostAddress> takes for the same key.
SameKey(a, b) == ~Less(a, b) /\ ~Less(b, a)

\* The other comparisons.  <= and >= do not look at the validity.
Equal(a, b) == a.valid_ = b.valid_ /\ a.ipv4_ = b.ipv4_

Greater(a, b) == a.valid_ /\ b.valid_ /\ IntLess(b.ipv4_, a.ipv4_)

LessOrEqual(a, b) == IntLess(a.ipv4_, b.ipv4_) \/ a.ipv4_ = b.ipv4_

GreaterOrEqual(a, b) == IntLess(b.ipv4_, a.ipv4_) \/ a.ipv4_ = b.ipv4_
=============================================================================
