\* A delivery outlasts the cutoff of the sweep; nothing fails.
SPECIFICATION Spec
CONSTANTS
  Events = {e1}
  Partitions = {p1, p2}
  PartitionOf <- PartitionByLibrary
  Malformed = Malformed
  Refused = {}
  Dispatchers = {d1, d2}
  Workers = {w1}
  Requests = {}
  MaxAttempts = 2
  BatchSize = 1
  Faults = {}
  MaxDisruptions = 0
  SlowDispatch = TRUE
  MaxSystem = 1
  MaxMalformed = 0
PROPERTIES
  DeliveredIsFinal
CHECK_DEADLOCK FALSE
