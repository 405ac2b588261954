\* A sweep for one switch ends when another is shown.
SPECIFICATION Spec
CONSTANTS
  None = None
  Dev <- MCDev
  Addressed <- MCAddressed
  Chassis <- MCChassis
  MaxFrames = 3
  Nics <- MCNics
  Devs <- MCDevs
  Hosts <- MCHosts
  Replies <- MCReplies
INVARIANTS
  FoundAddressIsOfShown
