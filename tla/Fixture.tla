------------------------------- MODULE Fixture -------------------------------
(***************************************************************************)
(* The sample events of fixtures/notification_events.json and the two ways *)
(* they become events of the platform: the file adapter of the self-       *)
(* service API serves them as they are (file-event-repository.ts,          *)
(* fixture-mapping.ts), and the seeder of the demo tools writes them into  *)
(* the tables as settled history (simulate.ts).                            *)
(***************************************************************************)
EXTENDS Domain, Integers, Sequences

CONSTANTS
  Clients,
  Owner,                 \* Owner[e]: the client of event e
  CreatedAt,             \* CreatedAt[e]: when e was created, in seconds
  IdRank,                \* IdRank[e]: the place of e's id among the ids
  Place,                 \* Place[e]: the place of e in the file
  Recorded,              \* Recorded[e]: its delivery_status in the file
  MaxAttempts            \* RETRY_MAX_ATTEMPTS

ASSUME FixtureAssumption ==
  /\ Owner \in [Events -> Clients]
  /\ CreatedAt \in [Events -> Nat]
  /\ IdRank \in [Events -> Nat]
  /\ Place \in [Events -> Nat]
  /\ \A e, f \in Events : IdRank[e] = IdRank[f] \/ Place[e] = Place[f] => e = f
  /\ Recorded \in [Events -> {"completed", "failed", "pending"}]
  /\ MaxAttempts \in Nat

\* toEventState of both programs.
ToEventState(recorded) ==
  CASE recorded = "completed" -> "DELIVERED"
    [] recorded = "failed" -> "FAILED"
    [] OTHER -> "PENDING"

\* A mistake in synthesiseAttempt: the state where the status belongs.
SynthesisedState(e) == ToEventState(Recorded[e])

\* The rows of the file adapter, and the one attempt it makes up for each.
FileState == [e \in Events |-> ToEventState(Recorded[e])]

SynthesisedAttempt(e) == IF FileState[e] = "DELIVERED" THEN "SUCCESS" ELSE "FAILED"

\* What seedOne writes into empty tables: a failed event has spent its budget.
SeededState == [e \in Events |-> ToEventState(Recorded[e])]

SeededRetries(e) == IF SeededState[e] = "FAILED" THEN MaxAttempts ELSE 0

SeededAttempt(e) == IF SeededState[e] = "FAILED" THEN "FAILED" ELSE "SUCCESS"
=============================================================================
