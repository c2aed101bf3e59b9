\* A fragment on the loopback adapter.
SPECIFICATION Spec
CONSTANTS
  Handles = {h1}
  DeviceList <- LoOnly
  Loopback = "lo"
  LoopbackDevices = {"lo"}
  AddressesOf <- MCAddressesOf
  LinkType <- MCLinkType
  Mac <- MCMac
  Traffic <- FragmentTraffic
  BindAddresses <- LocalAddress
  Ports <- MCPorts
  Groups = {}
  BufferSizes = {}
  DefaultSize = 65536
  PacketsIn <- MCPacketsIn
  MAXIMUM_WAIT_OBJECTS = 2
  Timeouts = {"forever"}
  Faults = {}
INVARIANTS
  FragmentsAreHandled
