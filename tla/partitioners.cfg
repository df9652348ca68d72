\* The two client libraries hash one client to different partitions; nothing fails.
SPECIFICATION Spec
CONSTANTS
  Events = {e1}
  Partitions = {p1, p2}
  PartitionOf <- PartitionByLibrary
  Malformed = Malformed
  Refused = {}
  Dispatchers = {d1, d2}
  Workers = {w1}
  Requests = {}
  MaxAttempts = 2
  BatchSize = 1
  Faults = {}
  MaxDisruptions = 0
  SlowDispatch = FALSE
  MaxSystem = 1
  MaxMalformed = 0
INVARIANTS
  OneDispatcherPerClient
CHECK_DEADLOCK FALSE
