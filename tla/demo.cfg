\* Six creations of two clients, two simulations among them, a deactivation, and the client's receiver.
SPECIFICATION MCSpec
CONSTANTS
  c1 = c1
  c2 = c2
  t1 = t1
  t2 = t2
  s1 = s1
  s2 = s2
  q1 = q1
  q2 = q2
  q3 = q3
  q4 = q4
  Clients = {c1, c2}
  EventTypes = {t1, t2}
  Blank = Blank
  Creations = {q1, q2, q3, q4, q5, q6}
  Deletions = {r1}
  MaxBatch = 2
  StoreFaults = TRUE
  Runs = {s1, s2}
  FixtureTypes <- MCFixtureTypes
  FixtureClients <- MCFixtureClients
  CreationOf <- MCCreationOf
  Calls = {w1, w2, w3}
  MaxFailNext = 2
  MaxControls = 2
  MaxRestarts = 1
INVARIANTS
  SubscriptionsTypeOK
  RejectedWritesNothing
  ConflictIsAnothers
  DuplicatesOverlap
  DemoTypeOK
  HandedIsVerified
  RunAccountsForAll
  FailuresAsAsked
CHECK_DEADLOCK FALSE
