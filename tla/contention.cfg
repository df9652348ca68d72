\* Two of everything that competes for one event: dispatchers, workers, replays; nothing fails.
SPECIFICATION Spec
CONSTANTS
  Events = {e1}
  Partitions = {p1, p2}
  PartitionOf <- PartitionByLibrary
  Malformed = Malformed
  Refused = {}
  Dispatchers = {d1, d2}
  Workers = {w1, w2}
  Requests = {q1, q2}
  MaxAttempts = 2
  BatchSize = 1
  Faults = {}
  MaxDisruptions = 0
  SlowDispatch = FALSE
  MaxSystem = 1
  MaxMalformed = 0
INVARIANTS
  RetryBudget
  ScheduledWasPublished
  DuplicatesNeedDisruption
SYMMETRY Symmetry
CHECK_DEADLOCK FALSE
