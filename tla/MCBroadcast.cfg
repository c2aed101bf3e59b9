\* A datagram sent to 255.255.255.255.
SPECIFICATION Spec
CONSTANTS
  Handles = {h1, h2}
  DeviceList <- EthLo
  Loopback = "lo"
  LoopbackDevices = {"lo"}
  AddressesOf <- MCAddressesOf
  LinkType <- MCLinkType
  Mac <- MCMac
  Traffic <- BroadcastTraffic
  BindAddresses <- AnyAddress
  Ports <- MCPorts
  Groups = {}
  BufferSizes = {}
  DefaultSize = 65536
  PacketsIn <- MCPacketsIn
  MAXIMUM_WAIT_OBJECTS = 2
  Timeouts = {"forever"}
  Faults = {}
SYMMETRY Symmetry
INVARIANTS
  AnyTrafficIsCaptured
