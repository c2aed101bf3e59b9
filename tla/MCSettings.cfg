\* Joining, leaving, switching loopback, setting sizes and rebinding, with multicast and unicast traffic.
SPECIFICATION Spec
CONSTANTS
  Handles = {h1, h2}
  DeviceList <- EthLo
  Loopback = "lo"
  LoopbackDevices = {"lo"}
  AddressesOf <- MCAddressesOf
  LinkType <- MCLinkType
  Mac <- MCMac
  Traffic <- MulticastTraffic
  BindAddresses <- EachAddress
  Ports <- MCPorts
  Groups <- TwoGroups
  BufferSizes = {65535, 65536, 70000}
  DefaultSize = 66000
  PacketsIn <- MCPacketsIn
  MAXIMUM_WAIT_OBJECTS = 2
  Timeouts = {"forever"}
  Faults = {}
SYMMETRY Symmetry
INVARIANTS
  FiltersAreCurrent
  OnlyWantedTrafficIsQueued
  GroupsAreKickstarted
  LocalMulticastArrivesOnce
  BufferSizeIsInForce
  ListensWhereBound
  SettingsInv
PROPERTIES
  DeliveredIsWanted
