\* Addresses of an earlier neighbor are probed for a silent gateway.
SPECIFICATION Spec
CONSTANTS
  None = None
  Addr <- MCAddr
  V6 <- MCV6
  LinkLocal <- MCLinkLocal
  Lan <- MCLan
  Site <- MCSite
  Name <- MCName
  Alike <- MCAlike
  EndpointNames <- MCEndpointNames
  Port <- MCPort
  Mac <- MCMac
  Readings <- MCReadings
  Requests <- NaturalRequests
  MaxHops = 3
INVARIANTS
  ChainLinked
