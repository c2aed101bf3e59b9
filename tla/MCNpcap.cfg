\* Npcap comes and goes between and during the calls.
SPECIFICATION FairSpec
CONSTANTS
  Uuids = {"u"}
  NoUuid = "none"
PROPERTIES
  InitializeRecovers
  NameIsStable
