----------------------------- MODULE Guarantees -----------------------------
(***************************************************************************)
(* What the delivery pipeline is relied on for, and what its comments and  *)
(* documents say of it that the code does not do.                          *)
(***************************************************************************)
EXTENDS Delivery

-----------------------------------------------------------------------------
(* Safety.                                                                 *)

\* ClaimForDelivery "is what stops at-least-once delivery from becoming duplicate
\* delivery": from its claim to the write that ends the cycle a dispatcher is the only
\* one delivering the event, and the row says DELIVERING, whoever redelivers, reclaims,
\* replays or retries it meanwhile.
ExclusiveDelivery ==
  \A d \in Dispatchers, e \in Events :
    Owns(d, e) => /\ State(e) = "DELIVERING"
                  /\ \A other \in Dispatchers : Owns(other, e) => other = d

\* "terminal: a delivered event is never re-delivered" (allowedTransitions): no write
\* of any service takes the row of a delivered event out of DELIVERED.
DeliveredIsFinal ==
  [][\A e \in Events : State(e) = "DELIVERED" => State(e)' = "DELIVERED"]_vars

\* RecordOutcome keeps the audit trail and the state it explains together: an event is
\* DELIVERED exactly when its last attempt succeeded, and no attempt follows a success.
AuditTrail ==
  \A e \in Events :
    LET n == Len(attempts[e])
    IN  /\ State(e) = "DELIVERED" => n > 0 /\ attempts[e][n] = "SUCCESS"
        /\ \A i \in 1..n : attempts[e][i] = "SUCCESS" => i = n /\ State(e) = "DELIVERED"

\* An event whose message was dealt with: it is stored and its first delivery has been
\* claimed; a message that cannot be decoded is in the dead letters.
Handled(p, i) ==
  LET e == log[p][i].event
  IN  IF e = Malformed
        THEN [part |-> p, offset |-> i] \in dlq \/ disruptions > 0
        ELSE State(e) \notin {"ABSENT", "PENDING"}

\* "Offsets are committed manually, only after processing succeeds" (Consumer): the
\* committed offset never passes a message nobody dealt with, whatever is redelivered,
\* reassigned to another instance or interrupted.
NoMessageSkipped ==
  \A p \in Partitions : \A i \in 1..committed[p] : Handled(p, i)

\* The retry budget bounds what the retry service puts on the topic for an event, over
\* its whole life: a crashed worker, a lapsed window, a second worker or a replay never
\* buys another requeue.
RetryBudget ==
  \A e \in Events : Cardinality(Published(e, "RETRY_SERVICE")) < MaxAttempts

\* requeue "publishes first and schedules second": there is no "event marked as
\* scheduled that was never actually published".
ScheduledWasPublished ==
  \A e \in Events : rows[e].next = "scheduled" => Published(e, "RETRY_SERVICE") # {}

\* The client's webhook accepts an event again only if something was lost in between: a
\* process, an answer or a write.  Redelivered messages, retries, replays and sweeps
\* alone never duplicate a delivery.
DuplicatesNeedDisruption == \A e \in Events : accepted[e] <= 1 + disruptions

\* The monitor is never told of a delivery the audit trail does not have: publish comes
\* after RecordOutcome and carries the number the transaction assigned.
ResultsAreRecorded ==
  \A r \in results :
    r.number > 0 => r.number <= Len(attempts[r.event])
                    /\ attempts[r.event][r.number] = r.status

\* Every step of every service is a step of the event's life, or leaves it alone.
Life == INSTANCE Lifecycle
          WITH state <- [e \in Events |-> State(e)],
               retries <- [e \in Events |-> rows[e].retries]
RefinesLifecycle == Life!Spec

-----------------------------------------------------------------------------
(* Liveness.                                                               *)

Settled(e) == State(e) \in {"DELIVERED", "FAILED"}

\* The message in d's hands is one the store refuses, again and again.
Blocked(d) == pc[d] # "idle" /\ EventOf(d) \in Refused

\* No notification is lost or retried for ever: an event that the platform published and
\* the store takes is delivered or declared failed (and replayable), through crashes,
\* stranded deliveries and lost retry messages, unless a message that the store refuses
\* occupies the dispatcher of a partition that the event's own messages go to.
EventuallySettled ==
  \A e \in Events \ Refused :
    Published(e, "SYSTEM") # {} ~>
      Settled(e) \/ \E source \in DispatchSource : Blocked(owner[PartitionOf[source][e]])

\* Nothing else blocks a partition: a message that cannot be decoded, an event in any
\* state and a store that fails for a while are all passed sooner or later, by whichever
\* instance the partition belongs to.
PartitionsDrain ==
  \A p \in Partitions :
    position[p] < Len(log[p]) ~> position[p] = Len(log[p]) \/ Blocked(owner[p])

-----------------------------------------------------------------------------
(* What the code does not do.                                              *)

\* dispatch_notification.go: if RecordOutcome "fails the Kafka offset is not committed
\* and the event is reprocessed".  Stated: an event the webhook took is not left
\* DELIVERING, with every message about it committed and nobody delivering it.
FailedRecordIsReprocessed ==
  \A e \in Events :
    ~ /\ State(e) = "DELIVERING"
      /\ accepted[e] > 0
      /\ \A p \in Partitions : \A i \in 1..Len(log[p]) :
           log[p][i].event = e => i <= committed[p]
      /\ \A d \in Dispatchers : ~Owns(d, e)

\* replay-notification-event.ts: not "a replay the client was told happened and never
\* did".  Stated: after the 202 the event gets an attempt that was not there before (or
\* a dispatcher announces that it ended the delivery without one).
AcceptedReplayHappens ==
  \A q \in Requests :
    replay[q].step = "accepted" ~>
      \/ Len(attempts[replay[q].event]) > replay[q].before
      \/ \E r \in results : r.event = replay[q].event /\ r.number = 0

\* docs/adr/0001: messages are keyed "so one client's events land on one partition and
\* keep their order relative to each other".  Stated: as long as no partition changes
\* hands, two dispatchers are never both at work on messages of one client (about one
\* event, even).
OneDispatcherPerClient ==
  \A d, other \in Dispatchers :
    d # other /\ pc[d] # "idle" /\ pc[other] # "idle" => EventOf(d) # EventOf(other)
=============================================================================
