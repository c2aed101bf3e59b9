\* Adapters that fail to open or to be read, filters that fail, kickstarts not sent.
SPECIFICATION Spec
CONSTANTS
  Handles = {h1, h2}
  DeviceList <- LoEth
  Loopback = "lo"
  LoopbackDevices = {"lo"}
  AddressesOf <- MCAddressesOf
  LinkType <- MCLinkType
  Mac <- MCMac
  Traffic <- FaultsTraffic
  BindAddresses <- AnyOrEth
  Ports <- MCPorts
  Groups <- MCGroups
  BufferSizes = {}
  DefaultSize = 65536
  PacketsIn <- MCPacketsIn
  MAXIMUM_WAIT_OBJECTS = 1
  Timeouts = {"forever"}
  Faults = {"open", "poll", "filter", "kickstart", "mac"}
SYMMETRY Symmetry
INVARIANTS
  PolledHandlesAreOpen
  OpenHandlesAreTracked
  NoLostWakeup
  NoDeadlock
PROPERTIES
  ImplementsPromise
