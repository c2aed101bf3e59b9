\* A timeout that 32 bits of milliseconds cannot express; no fraction of one to lose.
SPECIFICATION TimedSpec
CONSTANTS
  Handles = {h1}
  DeviceList <- LoOnly
  Loopback = "lo"
  LoopbackDevices = {"lo"}
  AddressesOf <- MCAddressesOf
  LinkType <- MCLinkType
  Mac <- MCMac
  Traffic <- MixedTraffic
  BindAddresses <- LocalAddress
  Ports <- MCPorts
  Groups = {}
  BufferSizes = {}
  DefaultSize = 70000
  PacketsIn <- TwoPackets
  MAXIMUM_WAIT_OBJECTS = 2
  Timeouts = {"forever", "zero", "finite"}
  Faults = {}
  TICKS = 1
  REP_MAX = 100
  DWORD = 4
  Milliseconds <- LongTimeout
  Starts = {1}
  MaxTime = 7
PROPERTIES
  TimeoutIsNotEarly
