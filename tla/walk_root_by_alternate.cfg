\* An STP root reached at an alternate address is distrusted.
SPECIFICATION Spec
CONSTANTS
  None = None
  Addr <- MCAddr
  V6 <- MCV6
  LinkLocal <- MCLinkLocal
  Lan <- MCLan
  Site <- MCSite
  Name <- MCName
  Alike <- MCAlike
  EndpointNames <- MCEndpointNames
  Port <- MCPort
  Mac <- MCMac
  Readings <- MCReadings
  Requests <- NaturalRequests
  MaxHops = 3
INVARIANTS
  RootFromBelowIsTop
