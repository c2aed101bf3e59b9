------------------------- MODULE HostAddressProofs -------------------------
(***************************************************************************)
(* HostAddress as the key of std::set<HostAddress> multicast_groups_.      *)
(***************************************************************************)
EXTENDS HostAddress, Integers, TLAPS

\* The order of four octets, the last one first, case by case.
LEMMA IntLessExpanded ==
  ASSUME NEW v \in [1..4 -> Octets], NEW w \in [1..4 -> Octets]
  PROVE  IntLess(v, w) <=>
           \/ v[4] < w[4]
           \/ v[4] = w[4] /\ v[3] < w[3]
           \/ v[4] = w[4] /\ v[3] = w[3] /\ v[2] < w[2]
           \/ v[4] = w[4] /\ v[3] = w[3] /\ v[2] = w[2] /\ v[1] < w[1]
<1>1. IntLess(v, w) <=> \/ v[1] < w[1] /\ \A j \in 2..4 : v[j] = w[j]
                        \/ v[2] < w[2] /\ \A j \in 3..4 : v[j] = w[j]
                        \/ v[3] < w[3] /\ \A j \in 4..4 : v[j] = w[j]
                        \/ v[4] < w[4]
  BY DEF IntLess
<1>2. (\A j \in 2..4 : v[j] = w[j]) <=> v[2] = w[2] /\ v[3] = w[3] /\ v[4] = w[4]
  OBVIOUS
<1>3. (\A j \in 3..4 : v[j] = w[j]) <=> v[3] = w[3] /\ v[4] = w[4]
  OBVIOUS
<1>4. (\A j \in 4..4 : v[j] = w[j]) <=> v[4] = w[4]
  OBVIOUS
<1> QED
  BY <1>1, <1>2, <1>3, <1>4

\* It is a strict total order.
LEMMA IntLessOrders ==
  ASSUME NEW u \in [1..4 -> Octets], NEW v \in [1..4 -> Octets], NEW w \in [1..4 -> Octets]
  PROVE  /\ ~(IntLess(u, v) /\ IntLess(v, u))
         /\ IntLess(u, v) /\ IntLess(v, w) => IntLess(u, w)
         /\ ~IntLess(u, v) /\ ~IntLess(v, u) => u = v
<1>1. /\ u[1] \in Int /\ u[2] \in Int /\ u[3] \in Int /\ u[4] \in Int
      /\ v[1] \in Int /\ v[2] \in Int /\ v[3] \in Int /\ v[4] \in Int
      /\ w[1] \in Int /\ w[2] \in Int /\ w[3] \in Int /\ w[4] \in Int
  BY DEF Octets
<1>2. ~(IntLess(u, v) /\ IntLess(v, u))
  BY <1>1, IntLessExpanded
<1>3. IntLess(u, v) /\ IntLess(v, w) => IntLess(u, w)
  BY <1>1, IntLessExpanded
<1>4. ASSUME ~IntLess(u, v), ~IntLess(v, u) PROVE u = v
  <2>1. u[1] = v[1] /\ u[2] = v[2] /\ u[3] = v[3] /\ u[4] = v[4]
    BY <1>1, <1>4, IntLessExpanded
  <2> QED
    BY <2>1
<1> QED
  BY <1>2, <1>3, <1>4

ValidAddresses == {a \in Addresses : a.valid_}

\* operator< is a strict order of valid addresses, and two of them are the same key
\* only when they are equal: the set of groups never takes a group for another one
\* it holds, and always finds the one it is asked for.
THEOREM GroupsHaveDistinctKeys ==
  ASSUME NEW a \in ValidAddresses, NEW b \in ValidAddresses, NEW c \in ValidAddresses
  PROVE  /\ ~(Less(a, b) /\ Less(b, a))
         /\ Less(a, b) /\ Less(b, c) => Less(a, c)
         /\ SameKey(a, b) => a = b
<1>1. /\ a.ipv4_ \in [1..4 -> Octets] /\ b.ipv4_ \in [1..4 -> Octets]
      /\ c.ipv4_ \in [1..4 -> Octets]
  BY DEF Addresses, ValidAddresses
<1>2. a.ipv4_ = b.ipv4_ => a = b
  BY DEF Addresses, ValidAddresses
<1> QED
  BY <1>1, <1>2, IntLessOrders DEF Less, SameKey, ValidAddresses

-----------------------------------------------------------------------------
\* The six comparisons agree with one another on valid addresses, although they test
\* the validity in three different ways: exactly one of <, = and > holds, and <= and
\* >= are what is left of them.
THEOREM ComparisonsAgree ==
  ASSUME NEW a \in ValidAddresses, NEW b \in ValidAddresses
  PROVE  /\ Less(a, b) \/ Greater(a, b) \/ Equal(a, b)
         /\ Equal(a, b) => ~Less(a, b) /\ ~Greater(a, b)
         /\ Greater(a, b) <=> Less(b, a)
         /\ LessOrEqual(a, b) <=> ~Greater(a, b)
         /\ GreaterOrEqual(a, b) <=> ~Less(a, b)
<1>1. /\ a.ipv4_ \in [1..4 -> Octets] /\ b.ipv4_ \in [1..4 -> Octets]
      /\ a.valid_ /\ b.valid_
  BY DEF Addresses, ValidAddresses
<1> DEFINE lt == IntLess(a.ipv4_, b.ipv4_)
           gt == IntLess(b.ipv4_, a.ipv4_)
<1>2. ~(lt /\ gt) /\ (~lt /\ ~gt => a.ipv4_ = b.ipv4_)
  BY <1>1, IntLessOrders
<1>3. a.ipv4_ = b.ipv4_ => ~lt /\ ~gt
  BY <1>1, <1>2
<1> QED
  BY <1>1, <1>2, <1>3 DEF Less, Greater, Equal, LessOrEqual, GreaterOrEqual

\* Beyond them they do not: the invalid address and 0.0.0.0 are each <= the other, and
\* differ.
THEOREM InvalidIsNotOrdered ==
  /\ LessOrEqual(Invalid, Any) /\ LessOrEqual(Any, Invalid)
  /\ ~Equal(Invalid, Any)
<1> QED
  BY DEF LessOrEqual, Equal, Invalid, Any, Address
=============================================================================
