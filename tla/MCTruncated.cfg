\* Timeouts that 32 bits of milliseconds can express, on a clock that knows halves of them.
SPECIFICATION TimedSpec
CONSTANTS
  Handles = {h1}
  DeviceList <- LoOnly
  Loopback = "lo"
  LoopbackDevices = {"lo"}
  AddressesOf <- MCAddressesOf
  LinkType <- MCLinkType
  Mac <- MCMac
  Traffic <- MixedTraffic
  BindAddresses <- LocalAddress
  Ports <- MCPorts
  Groups = {}
  BufferSizes = {}
  DefaultSize = 70000
  PacketsIn <- TwoPackets
  MAXIMUM_WAIT_OBJECTS = 2
  Timeouts = {"forever", "zero", "finite"}
  Faults = {}
  TICKS = 2
  REP_MAX = 100
  DWORD = 4
  Milliseconds <- ShortTimeouts
  Starts = {1}
  MaxTime = 6
PROPERTIES
  TimeoutIsNotEarly
