------------------------- MODULE NpcapHelpersProofs -------------------------
(***************************************************************************)
(* The name of the loopback device is fixed from the moment Npcap is       *)
(* initialized and the name has been looked up.                            *)
(***************************************************************************)
EXTENDS NpcapHelpers, TLAPS

\* Initialize is run to its end only while Npcap is not initialized.
InitializedAtEnd == is_initialized => pc = "free"

LEMMA InitializedAtEndHolds == Spec => []InitializedAtEnd
<1>1. Init => InitializedAtEnd
  BY DEF Init, InitializedAtEnd
<1>2. InitializedAtEnd /\ [Next]_vars => InitializedAtEnd'
  BY DEF InitializedAtEnd, Next, InitializeStep, Initialize, LoadNpcapDlls,
    TestLoopbackDeviceFails, TestLoopbackDevice, TestAdapter, TestEnds, LookUpUntilRead,
    GetLoopbackDeviceName, SystemChanges, vars
<1> QED
  BY <1>1, <1>2, PTL DEF Spec

\* For any system and any calls, no function of npcap_helpers changes the name or
\* the initialized state once both are there: Initialize and the look-ups have
\* nothing left to do.
THEOREM NameStaysTheSame == Spec => NameIsStable
<1>1. ASSUME InitializedAtEnd, [Next]_vars, is_initialized, loopback_device_name_initialized
      PROVE  UNCHANGED <<is_initialized, names>>
  <2>1. ~Initialize
    BY <1>1 DEF Initialize
  <2>2. ~InitializeStep
    BY <1>1 DEF InitializedAtEnd, InitializeStep, LoadNpcapDlls, TestLoopbackDeviceFails,
      TestLoopbackDevice, TestAdapter, TestEnds
  <2>3. ~LookUpUntilRead /\ ~GetLoopbackDeviceName
    BY <1>1 DEF LookUpUntilRead, GetLoopbackDeviceName, NameIsUnknown
  <2>4. SystemChanges \/ UNCHANGED vars
    BY <1>1, <2>1, <2>2, <2>3 DEF Next
  <2> QED
    BY <2>4 DEF SystemChanges, vars, names
<1> QED
  BY <1>1, InitializedAtEndHolds, PTL DEF Spec, NameIsStable
=============================================================================
