\* The loopback adapter, which may fail to open, and timeouts a DWORD can express.
SPECIFICATION TimedFairSpec
CONSTANTS
  Handles = {h1}
  DeviceList <- LoOnly
  Loopback = "lo"
  LoopbackDevices = {"lo"}
  AddressesOf <- MCAddressesOf
  LinkType <- MCLinkType
  Mac <- MCMac
  Traffic <- MixedTraffic
  BindAddresses <- AnyAddress
  Ports <- MCPorts
  Groups = {}
  BufferSizes = {}
  DefaultSize = 70000
  PacketsIn <- TwoPackets
  MAXIMUM_WAIT_OBJECTS = 2
  Timeouts = {"forever", "zero", "finite"}
  Faults = {"open"}
  TICKS = 2
  REP_MAX = 100
  DWORD = 4
  Milliseconds <- ShortTimeouts
  Starts = {1}
  MaxTime = 6
INVARIANTS
  TimeInv
  WaitEndsByDeadline
PROPERTIES
  TimeoutIsNotAMillisecondEarly
  FiniteCallsReturn
  CloseReturns
  ReceiveReturnsOnClose
  DatagramEndsWait
