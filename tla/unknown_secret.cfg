\* Two creations that share an event type; nothing fails.
SPECIFICATION Spec
CONSTANTS
  Clients = {c1}
  EventTypes = {t1, t2}
  Blank = Blank
  Creations = {q1, q2}
  Deletions = {}
  MaxBatch = 2
  StoreFaults = FALSE
INVARIANTS
  ActiveSecretWasReturned
CHECK_DEADLOCK FALSE
