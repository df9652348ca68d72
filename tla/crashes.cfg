\* One event, two dispatchers, any two disruptions.
SPECIFICATION Spec
CONSTANTS
  Events = {e1}
  Partitions = {p1, p2}
  PartitionOf <- PartitionByLibrary
  Malformed = Malformed
  Refused = {}
  Dispatchers = {d1, d2}
  Workers = {w1}
  Requests = {}
  MaxAttempts = 2
  BatchSize = 1
  Faults = {"crash", "rebalance", "store", "broker", "network"}
  MaxDisruptions = 2
  SlowDispatch = FALSE
  MaxSystem = 1
  MaxMalformed = 0
INVARIANTS
  TypeOK
  ExclusiveDelivery
  AuditTrail
  DuplicatesNeedDisruption
  ResultsAreRecorded
  NoMessageSkipped
PROPERTIES
  DeliveredIsFinal
  RefinesLifecycle
SYMMETRY Symmetry
CHECK_DEADLOCK FALSE
