\* A request for a later hop is consumed at the first one.
SPECIFICATION Spec
CONSTANTS
  None = None
  Addr <- MCAddr
  V6 <- MCV6
  LinkLocal <- MCLinkLocal
  Lan <- MCLan
  Site <- MCSite
  Name <- MCName
  Alike <- MCAlike
  EndpointNames <- MCEndpointNames
  Port <- MCPort
  Mac <- MCMac
  Readings <- MCReadings
  Requests <- ForcedRequests
  MaxHops = 3
PROPERTIES
  ForcedOnTargetHop
