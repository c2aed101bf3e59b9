\* Two adapters: the receiver against close, rebind and traffic on both.
SPECIFICATION Spec
CONSTANTS
  Handles = {h1, h2}
  DeviceList <- EthLo
  Loopback = "lo"
  LoopbackDevices = {"lo"}
  AddressesOf <- MCAddressesOf
  LinkType <- MCLinkType
  Mac <- MCMac
  Traffic <- AllTraffic
  BindAddresses <- EachAddress
  Ports <- MCPorts
  Groups = {}
  BufferSizes = {65535, 70000}
  DefaultSize = 65536
  PacketsIn <- MCPacketsIn
  MAXIMUM_WAIT_OBJECTS = 2
  Timeouts = {"forever", "zero", "finite"}
  Faults = {}
SYMMETRY Symmetry
INVARIANTS
  TypeOK
  PolledHandlesAreOpen
  OpenHandlesAreTracked
  NoLostWakeup
  NoDeadlock
  BindingInv
  HandleInv
PROPERTIES
  ListsStayUnderReceiver
  ImplementsPromise
