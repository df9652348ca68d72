\* One store call fails, nothing else does.
SPECIFICATION Spec
CONSTANTS
  Events = {e1}
  Partitions = {p1}
  PartitionOf <- OnePartition
  Malformed = Malformed
  Refused = {}
  Dispatchers = {d1}
  Workers = {w1}
  Requests = {}
  MaxAttempts = 2
  BatchSize = 1
  Faults = {"store"}
  MaxDisruptions = 1
  SlowDispatch = FALSE
  MaxSystem = 1
  MaxMalformed = 0
INVARIANTS
  FailedRecordIsReprocessed
CHECK_DEADLOCK FALSE
