---------------------------- MODULE NpcapHelpers ----------------------------
(***************************************************************************)
(* npcap_helpers: finding the loopback device and loading Npcap, once for  *)
(* all sockets of the process.  Every function holds npcap_mutex from its  *)
(* first line to its last, so that calls do not overlap; what changes      *)
(* under a running Initialize is the system: Npcap is installed, removed,  *)
(* started and stopped at any time.                                        *)
(*                                                                         *)
(* A call that finds nothing to do is a stuttering step.                   *)
(***************************************************************************)
EXTENDS Naturals, FiniteSets

CONSTANTS
  Uuids,   \* what a legacy Npcap may put into the registry
  NoUuid   \* the empty string

ASSUME NpcapAssumption == NoUuid \notin Uuids

VARIABLES
  is_initialized,
  loopback_device_uuid_string,
  loopback_device_name_initialized,
  human_readible_error_,
  pc,         \* who holds npcap_mutex: nobody, or Initialize and how far it is
  to_test,    \* adapters TestLoopbackDevice has listed and still has to look at
  loopback_device_found,
  registry,   \* the npcap key, external like the next two
  library,    \* what loading wpcap.dll would come to
  adapters    \* the names pcap_findalldevs lists

names == <<loopback_device_uuid_string, loopback_device_name_initialized>>
test == <<to_test, loopback_device_found>>
system == <<registry, library, adapters>>
vars == <<is_initialized, names, human_readible_error_, pc, test, system>>

Registries == [exists : BOOLEAN, LoopbackSupport : BOOLEAN, LoopbackAdapter : Uuids \cup {NoUuid}]
Libraries == {"loads", "no wpcap.dll", "no directory"}

\* \device\{uuid} and \device\npcap_{uuid}, compared in lower case.
Device(u) == [form |-> "device", uuid |-> u]
NpcapDevice(u) == [form |-> "npcap", uuid |-> u]
NpfLoopback == [form |-> "npf_loopback", uuid |-> NoUuid]
OtherDevice == [form |-> "other", uuid |-> NoUuid]

AdapterNames == {Device(u) : u \in Uuids} \cup {NpcapDevice(u) : u \in Uuids} \cup {NpfLoopback, OtherDevice}

\* Stands for the -1 of pcap_findalldevs.
NoList == {[form |-> "error", uuid |-> NoUuid]}
AdapterLists == SUBSET AdapterNames \cup {NoList}

Init ==
  /\ is_initialized = FALSE
  /\ loopback_device_uuid_string = NoUuid
  /\ loopback_device_name_initialized = FALSE
  /\ human_readible_error_ = "not initialized yet"
  /\ pc = "free" /\ to_test = {} /\ loopback_device_found = FALSE
  /\ registry \in Registries /\ library \in Libraries /\ adapters \in AdapterLists

-----------------------------------------------------------------------------
(* LoadLoopbackDeviceNameFromRegistry: its result, the string and the text *)
(* it leaves behind.                                                       *)

RegistryIsRead == registry.exists /\ registry.LoopbackSupport

UuidAfterRead == IF RegistryIsRead THEN registry.LoopbackAdapter ELSE loopback_device_uuid_string

TextAfterRead(text) ==
  CASE ~registry.exists -> "not installed"
    [] registry.exists /\ ~registry.LoopbackSupport -> "no loopback support"
    [] OTHER -> text

LoopbackName(uuid) == IF uuid # NoUuid THEN Device(uuid) ELSE NpfLoopback

IsLoopback(name, uuid) == name \in {NpfLoopback, LoopbackName(uuid)}

MUTANT_AlwaysReads == TRUE

\* Whether a function other than Initialize reads the registry.
NameIsUnknown == ~loopback_device_name_initialized

\* What IsLoopbackDevice_NoLock does first: it reads the registry until that succeeds.
ReadUntilRead ==
  IF NameIsUnknown
  THEN /\ loopback_device_uuid_string' = UuidAfterRead
       /\ human_readible_error_' = TextAfterRead(human_readible_error_)
       /\ loopback_device_name_initialized' = RegistryIsRead
  ELSE UNCHANGED <<names, human_readible_error_>>

-----------------------------------------------------------------------------
(* Initialize, from one call into the system to the next. *)

MUTANT_TrustsTheFlag == IF NameIsUnknown THEN UuidAfterRead ELSE loopback_device_uuid_string

\* Initialize reads the registry whatever was read before.
UuidForInitialize == UuidAfterRead

Initialize ==
  /\ pc = "free"
  /\ ~is_initialized
  /\ loopback_device_uuid_string' = UuidForInitialize
  /\ human_readible_error_' = TextAfterRead("Unknown error")
  /\ pc' = "dlls"
  /\ UNCHANGED <<is_initialized, loopback_device_name_initialized, test, system>>

LoadNpcapDlls ==
  /\ pc = "dlls"
  /\ \/ library = "loads" /\ pc' = "test" /\ UNCHANGED human_readible_error_
     \/ library = "no wpcap.dll" /\ pc' = "free" /\ UNCHANGED human_readible_error_
     \/ library = "no directory" /\ pc' = "free" /\ human_readible_error_' = library
  /\ UNCHANGED <<is_initialized, names, test, system>>

TestLoopbackDeviceFails ==
  /\ pc = "test" /\ adapters = NoList
  /\ human_readible_error_' = "no device list"
  /\ pc' = "free"
  /\ UNCHANGED <<is_initialized, names, test, system>>

TestLoopbackDevice ==
  /\ pc = "test" /\ adapters # NoList
  /\ to_test' = adapters
  /\ loopback_device_found' = FALSE
  /\ pc' = "look"
  /\ UNCHANGED <<is_initialized, names, human_readible_error_, system>>

\* One adapter of the list, in whatever order it has them.
TestAdapter(name) ==
  /\ pc = "look"
  /\ name \in to_test
  /\ to_test' = to_test \ {name}
  /\ ReadUntilRead
  /\ loopback_device_found' =
       (loopback_device_found \/ IsLoopback(name, loopback_device_uuid_string'))
  /\ UNCHANGED <<is_initialized, pc, system>>

TestEnds ==
  /\ pc = "look" /\ to_test = {}
  /\ is_initialized' = loopback_device_found
  /\ human_readible_error_' = IF loopback_device_found THEN "Npcap is ready" ELSE "inaccessible"
  /\ loopback_device_found' = FALSE
  /\ pc' = "free"
  /\ UNCHANGED <<names, to_test, system>>

-----------------------------------------------------------------------------
(* The other functions. *)

\* IsLoopbackDevice and GetLoopbackDeviceUuidString
LookUpUntilRead ==
  /\ pc = "free"
  /\ NameIsUnknown
  /\ ReadUntilRead
  /\ UNCHANGED <<is_initialized, pc, test, system>>

GetLoopbackDeviceName ==
  /\ pc = "free"
  /\ NameIsUnknown
  /\ loopback_device_uuid_string' = UuidAfterRead
  /\ human_readible_error_' = TextAfterRead(human_readible_error_)
  /\ loopback_device_name_initialized' = TRUE
  /\ UNCHANGED <<is_initialized, pc, test, system>>

\* Somebody installs, removes, starts or stops Npcap.
SystemChanges ==
  /\ \/ registry' \in Registries /\ UNCHANGED <<library, adapters>>
     \/ library' \in Libraries /\ UNCHANGED <<registry, adapters>>
     \/ adapters' \in AdapterLists /\ UNCHANGED <<registry, library>>
  /\ UNCHANGED <<is_initialized, names, human_readible_error_, pc, test>>

InitializeStep ==
  \/ LoadNpcapDlls \/ TestLoopbackDeviceFails \/ TestLoopbackDevice
  \/ \E name \in to_test : TestAdapter(name)
  \/ TestEnds

Next == Initialize \/ InitializeStep \/ LookUpUntilRead \/ GetLoopbackDeviceName \/ SystemChanges

Spec == Init /\ [][Next]_vars

\* A running Initialize comes to its end; nobody has to call it.
FairSpec == Spec /\ WF_vars(InitializeStep)

-----------------------------------------------------------------------------
\* A working Npcap: the library loads and lists its loopback device, which is
\* npf_loopback or the one a readable registry names, in the form the code expects.
Working ==
  /\ library = "loads"
  /\ adapters # NoList
  /\ \/ NpfLoopback \in adapters
     \/ RegistryIsRead /\ LoopbackName(registry.LoopbackAdapter) \in adapters

\* Whatever was read, and remembered as read, while Npcap was missing or broken:
\* once Npcap works, and is not replaced time and again, calling Initialize again
\* and again succeeds.  It relies on Initialize not trusting the flag
\* loopback_device_name_initialized, which GetLoopbackDeviceName sets although it
\* may have read nothing.
InitializeRecovers ==
  <>[]Working /\ <>[][registry' = registry]_vars /\ []<><<Initialize>>_vars
    => <>is_initialized

\* The sockets ask for the loopback device one by one, when they bind and when they
\* open a device.  Once Npcap is initialized and the name is known, all get the
\* same answer, whatever happens to the registry.
NameIsStable ==
  [][is_initialized /\ loopback_device_name_initialized
       => UNCHANGED <<is_initialized, names>>]_vars
=============================================================================
