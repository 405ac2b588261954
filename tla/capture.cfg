\* Two adapters that come and go, lose their link, and fail to be captured.
SPECIFICATION FairSpec
CONSTANTS
  None = None
  Adapter = {a, b}
  MaxErrors = 2
  LldpFacts <- MCLldpFacts
  CdpFacts <- MCCdpFacts
  DhcpFacts <- MCDhcpFacts
INVARIANTS
  TypeOK
  StartMeansIdle
  NothingLeftBehind
  CapturedIsRead
  CapturedInPart
PROPERTIES
  SelectionKept
  LossEndsInCapture
  LossIsRecoveredFrom
