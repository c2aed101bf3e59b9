------------------------- MODULE IpReassemblyProofs -------------------------
(***************************************************************************)
(* timestamp_map_ and PcapPlusPlus agree on the unfinished packets, for    *)
(* any number of packets and fragments, any age and any capacity.          *)
(***************************************************************************)
EXTENDS IpReassembly, FiniteSetTheorems, TLAPS

\* What the two maps become: erase and emplace, as facts about functions.
LEMMA WithoutFacts ==
  ASSUME NEW map, NEW keys, NEW S, map \in [DOMAIN map -> S]
  PROVE  /\ DOMAIN Without(map, keys) = DOMAIN map \ keys
         /\ Without(map, keys) \in [DOMAIN Without(map, keys) -> S]
<1>1. Without(map, keys) = [x \in DOMAIN map \ keys |-> map[x]]
  BY DEF Without, Restrict
<1> QED
  BY <1>1

LEMMA WithFacts ==
  ASSUME NEW map, NEW k, NEW S, NEW value \in S, map \in [DOMAIN map -> S]
  PROVE  /\ DOMAIN With(map, k, value) = DOMAIN map \cup {k}
         /\ With(map, k, value) \in [DOMAIN With(map, k, value) -> S]
BY DEF With

\* The clock only moves on, so a time in the past stays there.
LEMMA LaterStillPast ==
  ASSUME NEW map, NEW n \in Nat, NEW m \in Nat, n <= m, map \in [DOMAIN map -> 0..n]
  PROVE  map \in [DOMAIN map -> 0..m]
<1>1. \A t \in 0..n : t \in 0..m
  OBVIOUS
<1> QED
  BY <1>1

Inv == TypeOK /\ MapsAgree

LEMMA InvInit == Init => Inv
BY DEF Init, Inv, TypeOK, MapsAgree, Tracked, Packets, Other

\* Deleting an expired packet deletes it from both maps.
LEMMA RemoveOldKeepsInv ==
  ASSUME Inv, NEW k \in Keys, RemoveOld(k),
         ahead' \subseteq Tracked \ {k}, pc' \in {"ageing", "aborted"}
  PROVE  Inv'
<1>1. /\ Tracked' = Tracked \ {k}
      /\ timestamp_map_' \in [Tracked' -> 0..now]
  BY WithoutFacts DEF Inv, TypeOK, RemoveOld, Tracked
<1>2. /\ DOMAIN m_FragmentMap' = DOMAIN m_FragmentMap \ {k}
      /\ m_FragmentMap' \in [DOMAIN m_FragmentMap' -> SUBSET Parts]
  BY WithoutFacts DEF Inv, TypeOK, RemoveOld
<1>3. TypeOK'
  BY <1>1, <1>2 DEF Inv, TypeOK, RemoveOld, Packets, Fragments
<1>4. MapsAgree'
  BY <1>1, <1>2 DEF Inv, MapsAgree
<1> QED
  BY <1>3, <1>4 DEF Inv

\* KeepFragment is only reached with a fragment.
LEMMA KeepFragmentHasFragment ==
  ASSUME Inv, KeepFragment
  PROVE  packet.key \in Keys /\ packet.part \in Parts
<1>1. packet.fragment
  BY Zenon DEF KeepFragment
<1>2. packet \in Fragments \cup {Other}
  BY DEF Inv, TypeOK, Packets
<1>3. packet # Other
  <2>1. Other.fragment = FALSE
    BY DEF Other
  <2> QED
    BY <1>1, <2>1, Zenon
<1>4. packet \in Fragments
  BY <1>2, <1>3
<1> QED
  BY <1>4 DEF Fragments

\* A fragment that stays goes into both maps; what PcapPlusPlus drops for it leaves
\* both, the second one through the callback.
LEMMA KeepFragmentKeepsInv ==
  ASSUME Inv, KeepFragment
  PROVE  Inv'
<1> DEFINE k == packet.key
           parts == Received(k) \cup {packet.part}
<1>1. k \in Keys /\ packet.part \in Parts
  BY KeepFragmentHasFragment
<1>2. parts \in SUBSET Parts
  BY <1>1 DEF Inv, TypeOK, Received
<1>3. PICK dropped \in Dropped(k) :
        /\ m_FragmentMap' = With(Without(m_FragmentMap, dropped), k, parts)
        /\ timestamp_map_' = With(Without(timestamp_map_, dropped), k, now)
  BY DEF KeepFragment, onFragmentsClean, updatePackageInTimestampMap
<1>4. /\ DOMAIN m_FragmentMap' = (DOMAIN m_FragmentMap \ dropped) \cup {k}
      /\ m_FragmentMap' \in [DOMAIN m_FragmentMap' -> SUBSET Parts]
  <2>1. m_FragmentMap \in [DOMAIN m_FragmentMap -> SUBSET Parts]
    BY DEF Inv, TypeOK
  <2>2. /\ DOMAIN Without(m_FragmentMap, dropped) = DOMAIN m_FragmentMap \ dropped
        /\ Without(m_FragmentMap, dropped)
             \in [DOMAIN Without(m_FragmentMap, dropped) -> SUBSET Parts]
    BY <2>1, WithoutFacts
  <2> QED
    BY <1>2, <1>3, <2>2, WithFacts
<1>5. /\ Tracked' = (Tracked \ dropped) \cup {k}
      /\ timestamp_map_' \in [Tracked' -> 0..now]
  <2>1. timestamp_map_ \in [DOMAIN timestamp_map_ -> 0..now] /\ now \in 0..now
    BY DEF Inv, TypeOK, Tracked
  <2>2. /\ DOMAIN Without(timestamp_map_, dropped) = DOMAIN timestamp_map_ \ dropped
        /\ Without(timestamp_map_, dropped)
             \in [DOMAIN Without(timestamp_map_, dropped) -> 0..now]
    BY <2>1, WithoutFacts
  <2> QED
    BY <1>3, <2>1, <2>2, WithFacts DEF Tracked
<1>6. ahead' = {} /\ pc' = "idle" /\ packet' = Other /\ started' = 0 /\ now' = now
      /\ status' = "FRAGMENT"
  BY DEF KeepFragment, EndCall
<1>7. TypeOK'
  BY <1>1, <1>4, <1>5, <1>6 DEF Inv, TypeOK, Packets
<1>8. MapsAgree'
  BY <1>4, <1>5, <1>6 DEF Inv, MapsAgree
<1> QED
  BY <1>7, <1>8 DEF Inv

\* A completed packet leaves both maps.
LEMMA CompletePacketKeepsInv ==
  ASSUME Inv, CompletePacket
  PROVE  Inv'
<1>1. /\ Tracked' = Tracked \ {packet.key}
      /\ timestamp_map_' \in [Tracked' -> 0..now]
  BY WithoutFacts DEF Inv, TypeOK, CompletePacket, Tracked
<1>2. /\ DOMAIN m_FragmentMap' = DOMAIN m_FragmentMap \ {packet.key}
      /\ m_FragmentMap' \in [DOMAIN m_FragmentMap' -> SUBSET Parts]
  BY WithoutFacts DEF Inv, TypeOK, CompletePacket
<1>3. ahead' = {} /\ pc' = "idle" /\ packet' = Other /\ started' = 0 /\ now' = now
      /\ status' = "REASSEMBLED"
  BY DEF CompletePacket, EndCall
<1>4. TypeOK'
  BY <1>1, <1>2, <1>3 DEF Inv, TypeOK, Packets
<1>5. MapsAgree'
  BY <1>1, <1>2, <1>3 DEF Inv, MapsAgree
<1> QED
  BY <1>4, <1>5 DEF Inv

LEMMA InvNext == Inv /\ [Next]_vars => Inv'
<1> SUFFICES ASSUME Inv, [Next]_vars
             PROVE  Inv'
  OBVIOUS
<1>1. CASE Tick
  <2>1. now \in Nat /\ now' \in Nat /\ now <= now' /\ Tracked' = Tracked
    BY <1>1 DEF Inv, TypeOK, Tick, Tracked
  <2>2. timestamp_map_' \in [Tracked' -> 0..now']
    BY <1>1, <2>1, LaterStillPast DEF Inv, TypeOK, Tick, Tracked
  <2> QED
    BY <1>1, <2>1, <2>2 DEF Inv, TypeOK, MapsAgree, Tick, Packets, Fragments
<1>2. ASSUME NEW p \in Packets, ProcessPacket(p)
      PROVE  Inv'
  BY <1>2 DEF Inv, TypeOK, MapsAgree, ProcessPacket, Tracked, Packets, Fragments
<1>3. ASSUME NEW k \in Keys, KeepPackage(k)
      PROVE  Inv'
  BY <1>3 DEF Inv, TypeOK, MapsAgree, KeepPackage, Tracked, Packets, Fragments
<1>4. ASSUME NEW k \in Keys, RemoveOldAndSkip(k)
      PROVE  Inv'
  <2>1. RemoveOld(k) /\ ahead' \subseteq Tracked \ {k} /\ pc' = "ageing"
    BY <1>4 DEF RemoveOldAndSkip, RemoveOld, Inv, MapsAgree
  <2> QED
    BY <2>1, RemoveOldKeepsInv
<1>5. ASSUME NEW k \in Keys, RemoveLastOld(k)
      PROVE  Inv'
  <2>1. RemoveOld(k) /\ ahead' \subseteq Tracked \ {k} /\ pc' \in {"ageing", "aborted"}
    BY <1>5 DEF RemoveLastOld, RemoveOld
  <2> QED
    BY <2>1, RemoveOldKeepsInv
<1>6. CASE IgnorePacket
  BY <1>6 DEF Inv, TypeOK, MapsAgree, IgnorePacket, EndCall, Tracked, Packets
<1>7. CASE KeepFragment
  BY <1>7, KeepFragmentKeepsInv
<1>8. CASE CompletePacket
  BY <1>8, CompletePacketKeepsInv
<1>9. CASE UNCHANGED vars
  BY <1>9 DEF Inv, TypeOK, MapsAgree, Tracked, vars, Packets, Fragments
<1> QED
  BY <1>1, <1>2, <1>3, <1>4, <1>5, <1>6, <1>7, <1>8, <1>9 DEF Next, Call, Step

\* The maps hold what they are declared to hold, and no stamp lies in the future.
THEOREM TypeCorrect == Spec => []TypeOK
<1>1. Inv => TypeOK
  BY DEF Inv
<1> QED
  BY <1>1, InvInit, InvNext, PTL DEF Spec

\* processPacket's two maps never get out of step, whatever PcapPlusPlus drops and
\* however the ageing loop runs: the message of removeOldPackages is never printed.
THEOREM MapsInStep == Spec => []MapsAgree
<1>1. Inv => MapsAgree
  BY DEF Inv
<1> QED
  BY <1>1, InvInit, InvNext, PTL DEF Spec

-----------------------------------------------------------------------------
(* The capacity *)

CapacityInv == IsFiniteSet(Tracked) /\ CapacityIsKept

LEMMA CapacityInit == Init => CapacityInv
<1> SUFFICES ASSUME Init PROVE CapacityInv
  OBVIOUS
<1>1. Tracked = {}
  BY DEF Init, Tracked
<1> QED
  BY <1>1, FS_EmptySet, ReassemblyAssumption DEF CapacityInv, CapacityIsKept

\* Fewer entries, or the same.
LEMMA CapacityOfFewer ==
  ASSUME CapacityInv, Tracked' \subseteq Tracked
  PROVE  CapacityInv'
<1>1. /\ IsFiniteSet(Tracked')
      /\ Cardinality(Tracked') <= Cardinality(Tracked)
  BY FS_Subset DEF CapacityInv
<1>2. Cardinality(Tracked) \in Nat /\ Cardinality(Tracked') \in Nat
  BY <1>1, FS_CardinalityType DEF CapacityInv
<1> QED
  BY <1>1, <1>2, ReassemblyAssumption DEF CapacityInv, CapacityIsKept

\* A new packet takes the place of the one dropped for it, or there was room.
LEMMA KeepFragmentKeepsCapacity ==
  ASSUME Inv, CapacityInv, KeepFragment
  PROVE  CapacityInv'
<1> DEFINE k == packet.key
<1>1. PICK dropped \in Dropped(k) : Tracked' = (Tracked \ dropped) \cup {k}
  <2>1. PICK dropped \in Dropped(k) :
          timestamp_map_' = With(Without(timestamp_map_, dropped), k, now)
    BY DEF KeepFragment, onFragmentsClean, updatePackageInTimestampMap
  <2>2. timestamp_map_ \in [DOMAIN timestamp_map_ -> 0..now] /\ now \in 0..now
    BY DEF Inv, TypeOK, Tracked
  <2>3. DOMAIN Without(timestamp_map_, dropped) = Tracked \ dropped
    BY <2>2, WithoutFacts DEF Tracked
  <2> QED
    BY <2>1, <2>3 DEF With, Tracked
<1>2. DOMAIN m_FragmentMap = Tracked
  BY DEF Inv, MapsAgree
<1>3. IsFiniteSet(Tracked) /\ Cardinality(Tracked) \in Nat
  BY FS_CardinalityType DEF CapacityInv
<1>4. CASE k \in Tracked
  <2>1. Tracked' = Tracked
    BY <1>1, <1>2, <1>4 DEF Dropped
  <2> QED
    BY <2>1, CapacityOfFewer
<1>5. CASE k \notin Tracked /\ Cardinality(Tracked) < max_packets_to_store_
  <2>1. Tracked' = Tracked \cup {k}
    BY <1>1, <1>2, <1>3, <1>5, ReassemblyAssumption DEF Dropped
  <2>2. IsFiniteSet(Tracked') /\ Cardinality(Tracked') = Cardinality(Tracked) + 1
    BY <1>3, <1>5, <2>1, FS_AddElement
  <2> QED
    BY <1>3, <1>5, <2>2, ReassemblyAssumption DEF CapacityInv, CapacityIsKept
<1>6. CASE k \notin Tracked /\ Cardinality(Tracked) >= max_packets_to_store_
  <2>1. PICK old \in Tracked : dropped = {old}
    BY <1>1, <1>2, <1>6 DEF Dropped
  <2>2. /\ IsFiniteSet(Tracked \ {old})
        /\ Cardinality(Tracked \ {old}) = Cardinality(Tracked) - 1
    BY <1>3, FS_RemoveElement
  <2>3. /\ IsFiniteSet((Tracked \ {old}) \cup {k})
        /\ Cardinality((Tracked \ {old}) \cup {k}) = Cardinality(Tracked \ {old}) + 1
    BY <1>6, <2>2, FS_AddElement
  <2>4. IsFiniteSet(Tracked') /\ Cardinality(Tracked') = Cardinality(Tracked)
    BY <1>1, <1>3, <2>1, <2>2, <2>3
  <2> QED
    BY <2>4 DEF CapacityInv, CapacityIsKept
<1> QED
  BY <1>3, <1>4, <1>5, <1>6, ReassemblyAssumption

LEMMA CapacityNext == Inv /\ CapacityInv /\ [Next]_vars => CapacityInv'
<1> SUFFICES ASSUME Inv, CapacityInv, [Next]_vars PROVE CapacityInv'
  OBVIOUS
<1>1. CASE KeepFragment
  BY <1>1, KeepFragmentKeepsCapacity
<1>2. ASSUME NEW k \in Keys, RemoveOld(k)
      PROVE  CapacityInv'
  <2>1. Tracked' = Tracked \ {k}
    BY <1>2, WithoutFacts DEF RemoveOld, Inv, TypeOK, Tracked
  <2> QED
    BY <2>1, CapacityOfFewer
<1>3. CASE CompletePacket
  <2>1. Tracked' = Tracked \ {packet.key}
    BY <1>3, WithoutFacts DEF CompletePacket, Inv, TypeOK, Tracked
  <2> QED
    BY <2>1, CapacityOfFewer
<1>4. CASE UNCHANGED timestamp_map_
  BY <1>4, CapacityOfFewer DEF Tracked
<1>5. ASSUME NEW p \in Packets, ProcessPacket(p)
      PROVE  UNCHANGED timestamp_map_
  BY <1>5 DEF ProcessPacket
<1>6. ASSUME NEW k \in Keys, KeepPackage(k)
      PROVE  UNCHANGED timestamp_map_
  BY <1>6 DEF KeepPackage
<1>7. CASE Tick \/ IgnorePacket \/ UNCHANGED vars
  BY <1>4, <1>7 DEF Tick, IgnorePacket, vars
<1> QED
  BY <1>1, <1>2, <1>3, <1>4, <1>5, <1>6, <1>7
  DEF Next, Call, Step, RemoveOldAndSkip, RemoveLastOld

\* timestamp_map_ never has more entries than packets PcapPlusPlus may store, for any
\* limit: there is no entry whose packet was dropped.
THEOREM CapacityStays == Spec => []CapacityIsKept
<1>1. CapacityInv => CapacityIsKept
  BY DEF CapacityInv
<1> QED
  BY <1>1, InvInit, InvNext, CapacityInit, CapacityNext, PTL DEF Spec
=============================================================================
