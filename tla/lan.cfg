\* Bursts of requests on two adapters.
SPECIFICATION FairSpec
CONSTANTS
  None = None
  Iface = {a, b}
  MaxAsked = 4
CHECK_DEADLOCK FALSE
INVARIANTS
  TypeOK
  ShownIsOfAdapter
  PendingHasWaker
  ReadsAreAskedFor
PROPERTIES
  RefreshAnswered
