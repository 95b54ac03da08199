SPECIFICATION Spec
CONSTANTS
  ValidNames <- Names
  HostPool <- Hosts
  RouterPool <- Routers
  WanPool <- Wans
  NetworkPool <- Networks
  NetMappingPool <- NetMaps
  RouterMappingPool <- RouterMaps
  GroupPool <- Groups
  MonitoringPool <- Monitorings
  VpnPool <- Vpns
  ContainersPool <- Containers
  MaxNodes = 2
  MaxMappings = 3
  MaxExtras = 1
  CloudImages = {"linux", "win"}
  WindowsImages = {"win"}
  Cloud = "openstack"
  Alphabet <- Letters
INVARIANT NothingHiddenShown
INVARIANT RoutedThroughGateway
INVARIANT InventoryComplete
INVARIANT AccessConfigured
\* A document is accepted or rejected once.
CHECK_DEADLOCK FALSE
