\* Walks started from the panel and walks continued by a forced request.
SPECIFICATION FairSpec
CONSTANTS
  None = None
  Addr <- MCAddr
  V6 <- MCV6
  LinkLocal <- MCLinkLocal
  Lan <- MCLan
  Site <- MCSite
  Name <- MCName
  Alike <- MCAlike
  EndpointNames <- MCEndpointNames
  Port <- MCPort
  Mac <- MCMac
  Readings <- MCReadings
  Requests <- AllRequests
  MaxHops = 3
INVARIANTS
  TypeOK
  NoAddressTwice
  HopsNumbered
  OnlyLastHopStops
  HopsNamedByPath
  DirectionRule
  UplinkIsNotDownlink
  IPv6OnlyByGateway
PROPERTIES
  PathPromise
  WalkReturns
  ForcedAddressIsUsed
