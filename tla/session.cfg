\* Up to three walks.
SPECIFICATION FairSpec
CONSTANTS
  None = None
  Addr <- TwoAddr
  Outcomes <- TwoOutcomes
  MaxWalks = 3
INVARIANTS
  TypeOK
  CommunityAskedOnce
PROPERTIES
  StoppedNeverReplacesLater
  NewestWalkAnswers
