\* A replay after the budget is spent; nothing fails.
SPECIFICATION FairSpec
CONSTANTS
  Events = {e1}
  Partitions = {p1}
  PartitionOf <- OnePartition
  Malformed = Malformed
  Refused = {}
  Dispatchers = {d1}
  Workers = {w1}
  Requests = {q1}
  MaxAttempts = 1
  BatchSize = 1
  Faults = {}
  MaxDisruptions = 0
  SlowDispatch = FALSE
  MaxSystem = 1
  MaxMalformed = 0
PROPERTIES
  AcceptedReplayHappens
CHECK_DEADLOCK FALSE
