\* Up to three frames.
SPECIFICATION FairSpec
CONSTANTS
  None = None
  Dev <- MCDev
  Addressed <- MCAddressed
  Chassis <- MCChassis
  MaxFrames = 3
  Nics <- MCNics
  Devs <- MCDevs
  Hosts <- MCHosts
  Replies <- MCReplies
INVARIANTS
  TypeOK
  GivenUpForSuccessor
  SweepsAreSound
PROPERTIES
  WaitingLeadsToSweep
  NewestSweepAnswers
