\* One conversation about two events of one date; the pipeline and a shutdown beside it.
SPECIFICATION FairSpec
CONSTANTS
  e1 = e1
  e2 = e2
  c1 = c1
  Events = {e1, e2}
  Clients = {c1, c2}
  Owner <- MCOwner
  CreatedAt <- MCCreatedAt
  IdRank <- MCRank
  Place <- MCRank
  Recorded <- MCRecorded
  MaxAttempts = 1
  Requests = {q1}
  PageSize = 1
  StateFilters = {"FAILED"}
  Ranges <- MCRanges
  MaxLog = 2
INVARIANTS
  QueriesTypeOK
  OwnEventsOnly
  DetailIsExplained
  PageWithinTotal
  WalkMissesNothing
  PoolOutlivesRequests
CHECK_DEADLOCK FALSE
PROPERTIES
  ShutdownCompletes
