\* Liveness: a message the store refuses, a malformed one, one disruption, two dispatchers.
SPECIFICATION FairSpec
CONSTANTS
  Events = {e1, e2}
  Partitions = {p1}
  PartitionOf <- OnePartition
  Malformed = Malformed
  Refused = {e2}
  Dispatchers = {d1, d2}
  Workers = {w1}
  Requests = {}
  MaxAttempts = 2
  BatchSize = 1
  Faults = {"crash", "store", "broker"}
  MaxDisruptions = 1
  SlowDispatch = FALSE
  MaxSystem = 1
  MaxMalformed = 1
PROPERTIES
  EventuallySettled
  PartitionsDrain
CHECK_DEADLOCK FALSE
