\* GETs before and after a table walk, with answers that come late or twice.
SPECIFICATION FairSpec
CONSTANTS
  None = None
  MaxSize = 3
  MaxRows = 2
  Retries = 1
  MaxGets = 2
  Communities <- MCCommunities
  Ids <- MCIds
  Binds <- MCBinds
CHECK_DEADLOCK FALSE
INVARIANTS
  TypeOK
  RowsWereAskedFor
  RowsBeginTable
  OutcomeIsOfItsRequest
  AnswersAreRead
PROPERTIES
  ReadPromise
  WalkReturns
