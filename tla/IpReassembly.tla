---------------------------- MODULE IpReassembly ----------------------------
(***************************************************************************)
(* Udpcap::IpReassembly: PcapPlusPlus puts the fragments of a packet       *)
(* together, and timestamp_map_ remembers beside it when each unfinished   *)
(* packet last got a fragment, so that old ones can be dropped.            *)
(*                                                                         *)
(* One thread uses it; only time passes by itself.  A call of              *)
(* processPacket is the loop of removeOldPackages, one step per entry of   *)
(* the map, and then the fragment.  PcapPlusPlus is external: it keeps the *)
(* parts of at most max_packets_to_store packets, drops one through the    *)
(* callback when it needs room, and forgets a packet it has completed.     *)
(* A key stands for the hash both maps use.                                *)
(***************************************************************************)
EXTENDS Integers, FiniteSets, Functions

CONSTANTS
  Keys,                  \* hashes of packets
  Parts,                 \* the fragments a packet consists of
  max_package_age_,
  max_packets_to_store_,
  MaxTime                \* bound on the clock

ASSUME ReassemblyAssumption ==
  /\ IsFiniteSet(Parts) /\ Cardinality(Parts) >= 2
  /\ max_package_age_ \in Nat /\ MaxTime \in Nat
  /\ max_packets_to_store_ \in Nat \ {0}

VARIABLES
  now,             \* steady_clock
  timestamp_map_,  \* [some Keys -> the time of the last fragment]
  m_FragmentMap,   \* PcapPlusPlus: [some Keys -> the parts it has]
  pc,
  packet,          \* what processPacket was called with
  started,         \* the clock when removeOldPackages read it
  ahead,           \* entries between the iterator and end()
  status           \* how the last call ended

vars == <<now, timestamp_map_, m_FragmentMap, pc, packet, started, ahead, status>>

\* Anything but a well-formed fragment leaves both maps alone.
Other == [fragment |-> FALSE]
Fragments == [fragment : {TRUE}, key : Keys, part : Parts]
Packets == Fragments \cup {Other}

Tracked == DOMAIN timestamp_map_

Without(map, keys) == Restrict(map, DOMAIN map \ keys)
With(map, k, value) == [x \in DOMAIN map \cup {k} |-> IF x = k THEN value ELSE map[x]]

Init ==
  /\ now = 0
  /\ timestamp_map_ = [k \in {} |-> 0]
  /\ m_FragmentMap = [k \in {} |-> {}]
  /\ pc = "idle" /\ packet = Other /\ started = 0 /\ ahead = {} /\ status = "NON_FRAGMENT"

Tick ==
  /\ now < MaxTime
  /\ now' = now + 1
  /\ UNCHANGED <<timestamp_map_, m_FragmentMap, pc, packet, started, ahead, status>>

-----------------------------------------------------------------------------
(* processPacket begins with removeOldPackages. *)

ProcessPacket(p) ==
  /\ pc = "idle"
  /\ pc' = "ageing"
  /\ packet' = p
  /\ started' = now
  /\ ahead' = Tracked
  /\ UNCHANGED <<now, timestamp_map_, m_FragmentMap, status>>

MUTANT_ComparesTheOtherWay(k) == timestamp_map_[k] > started - max_package_age_

Old(k) == timestamp_map_[k] < started - max_package_age_

\* The order of an unordered_map is any order.
KeepPackage(k) ==
  /\ pc = "ageing" /\ k \in ahead
  /\ ~Old(k)
  /\ ahead' = ahead \ {k}
  /\ UNCHANGED <<now, timestamp_map_, m_FragmentMap, pc, packet, started, status>>

RemoveOld(k) ==
  /\ pc = "ageing" /\ k \in ahead
  /\ Old(k)
  /\ timestamp_map_' = Without(timestamp_map_, {k})
  /\ m_FragmentMap' = Without(m_FragmentMap, {k})
  /\ UNCHANGED <<now, packet, started, status>>

\* erase returns the next entry, and the loop advances past it unseen.
RemoveOldAndSkip(k) ==
  /\ RemoveOld(k)
  /\ \E next \in ahead \ {k} : ahead' = ahead \ {k, next}
  /\ UNCHANGED pc

\* erase returns end(), and the loop advances past that: undefined behaviour.  In a
\* release build the list behind the map is circular and the loop begins again, a
\* checked iterator ends the process.
RemoveLastOld(k) ==
  /\ RemoveOld(k)
  /\ ahead = {k}
  /\ \/ ahead' = Tracked \ {k} /\ UNCHANGED pc
     \/ ahead' = {} /\ pc' = "aborted"

-----------------------------------------------------------------------------
(* The rest of processPacket. *)

Received(k) == IF k \in DOMAIN m_FragmentMap THEN m_FragmentMap[k] ELSE {}

\* What PcapPlusPlus drops to make room for k.
Dropped(k) ==
  IF k \notin DOMAIN m_FragmentMap /\ Cardinality(DOMAIN m_FragmentMap) >= max_packets_to_store_
  THEN {{old} : old \in DOMAIN m_FragmentMap}
  ELSE {{}}

MUTANT_IgnoresCallback(dropped) == timestamp_map_

\* onFragmentsCleanCallback
onFragmentsClean(dropped) == Without(timestamp_map_, dropped)

MUTANT_StoresExpiry(map, k) == With(map, k, now + max_package_age_)

updatePackageInTimestampMap(map, k) == With(map, k, now)

EndCall(how) ==
  /\ pc' = "idle" /\ packet' = Other /\ started' = 0
  /\ status' = how
  /\ UNCHANGED <<now, ahead>>

IgnorePacket ==
  /\ pc = "ageing" /\ ahead = {}
  /\ ~packet.fragment
  /\ EndCall("NON_FRAGMENT")
  /\ UNCHANGED <<timestamp_map_, m_FragmentMap>>

KeepFragment ==
  /\ pc = "ageing" /\ ahead = {}
  /\ packet.fragment
  /\ LET k == packet.key
         parts == Received(k) \cup {packet.part}
     IN  /\ parts # Parts
         /\ \E dropped \in Dropped(k) :
              /\ m_FragmentMap' = With(Without(m_FragmentMap, dropped), k, parts)
              /\ timestamp_map_' = updatePackageInTimestampMap(onFragmentsClean(dropped), k)
  /\ EndCall("FRAGMENT")

\* removePackageFromTimestampMap
CompletePacket ==
  /\ pc = "ageing" /\ ahead = {}
  /\ packet.fragment
  /\ Received(packet.key) \cup {packet.part} = Parts
  /\ m_FragmentMap' = Without(m_FragmentMap, {packet.key})
  /\ timestamp_map_' = Without(timestamp_map_, {packet.key})
  /\ EndCall("REASSEMBLED")

-----------------------------------------------------------------------------
Call == \E p \in Packets : ProcessPacket(p)

Step ==
  \/ \E k \in Keys : KeepPackage(k) \/ RemoveOldAndSkip(k) \/ RemoveLastOld(k)
  \/ IgnorePacket \/ KeepFragment \/ CompletePacket

\* After the abort there is no process left to take a step.
Next ==
  \/ pc # "aborted" /\ Tick
  \/ Call
  \/ Step
  \/ pc = "aborted" /\ UNCHANGED vars

Spec == Init /\ [][Next]_vars

\* A call runs on; that calls come or time passes is not promised.
FairSpec == Spec /\ WF_vars(Step)

-----------------------------------------------------------------------------
\* The maps hold what they are declared to hold, and no fragment is stamped with a
\* time that is still to come, which would keep its packet beyond its age.
TypeOK ==
  /\ now \in Nat /\ started \in Nat
  /\ Tracked \subseteq Keys
  /\ timestamp_map_ \in [Tracked -> 0..now]
  /\ DOMAIN m_FragmentMap \subseteq Keys
  /\ m_FragmentMap \in [DOMAIN m_FragmentMap -> SUBSET Parts]
  /\ pc \in {"idle", "ageing", "aborted"}
  /\ packet \in Packets
  /\ ahead \subseteq Keys
  /\ status \in {"NON_FRAGMENT", "FRAGMENT", "REASSEMBLED"}

\* timestamp_map_ and PcapPlusPlus know the same packets, through evictions, ageing
\* and completion: what removeOldPackages reports as "outof sync" on stderr never
\* happens, no entry of the map is left behind for good, and each one the ageing
\* loop is still to visit exists.
MapsAgree ==
  /\ Tracked = DOMAIN m_FragmentMap
  /\ ahead \subseteq Tracked

\* ip_reassembly.h:45 "the capacity limit of the IP reassembly mechanism" holds for
\* timestamp_map_ too, although nothing in it counts: the entries of packets that were
\* dropped to make room are gone before the one they made room for is added.
CapacityIsKept == Cardinality(Tracked) <= max_packets_to_store_

Expired(k) == k \in Tracked /\ timestamp_map_[k] < now - max_package_age_

\* Although the ageing loop skips entries, a packet that has expired is dropped in
\* the end if calls keep coming and no more fragments do.
ExpiredPacketsGo ==
  []<><<Call>>_vars /\ <>[][packet' = Other]_vars =>
    \A k \in Keys : []<>(~Expired(k))

\* ip_reassembly.h:44 "The maximum age that a packet may have for being used for
\* reassembly": a packet that was too old when the call began is not completed by it.
OldPacketsAreNotUsed ==
  [][CompletePacket => ~Old(packet.key)]_vars
=============================================================================
