SPECIFICATION FairSpec
CONSTANTS
  NumMeters = 29
  FailuresTolerated = 1
  Group = {1, 2, 3}
  Silent = {1, 2}
  Value = {a, b}
  NoResult = NoResult
  AppWaits = TRUE
  LastQuery = 1
INVARIANTS
  ResultHasQuorum
  QueriesEndInOrder
PROPERTIES
  EveryQueryEnds
  ImplementsQueryService
CHECK_DEADLOCK FALSE
