\* A candidate of the path on screen is followed from another switch.
SPECIFICATION Spec
CONSTANTS
  None = None
  Addr <- ThreeAddr
  Outcomes <- ThreeOutcomes
  MaxWalks = 3
INVARIANTS
  ContinuesItsPath
