---------------------------- MODULE RetryWorker -----------------------------
(***************************************************************************)
(* The retry service: instances that poll for due events, put them back on *)
(* the dispatch topic or declare them failed, and sweep deliveries that    *)
(* were abandoned mid-flight (process_due_retries.go, cmd/retry/main.go).  *)
(* One goroutine per instance, so a cycle's steps never overlap with the   *)
(* sweep of the same instance; several instances do.                       *)
(***************************************************************************)
EXTENDS EventStore, Topics, FiniteSets

CONSTANTS
  Workers,
  MaxAttempts,           \* RETRY_MAX_ATTEMPTS
  BatchSize              \* RETRY_BATCH_SIZE

ASSUME RetryWorkerAssumption ==
  /\ MaxAttempts \in Nat \ {0}
  /\ BatchSize \in Nat \ {0}

VARIABLES
  stage,                 \* stage[w]: what w does next
  batch,                 \* batch[w]: the claimed events w has not acted on
  task                   \* task[w]: the one it is acting on

workerVars == <<stage, batch, task>>

Stage == {"poll", "schedule", "deadletter"}
PendingRetry == [event : Events, retries : Nat]
NoTask == [event |-> CHOOSE e \in Events : TRUE, retries |-> 0]

WorkerInit ==
  /\ stage = [w \in Workers |-> "poll"]
  /\ batch = [w \in Workers |-> {}]
  /\ task = [w \in Workers |-> NoTask]

WorkerTypeOK ==
  /\ stage \in [Workers -> Stage]
  /\ batch \in [Workers -> SUBSET PendingRetry]
  /\ task \in [Workers -> PendingRetry]

\* A mistake in IsExhausted: one retry too many.
IsExhaustedLate(retries) == retries > MaxAttempts

IsExhausted(retries) == retries >= MaxAttempts

\* The claimed event c is dealt with: w goes on with the rest of its batch.
Drop(w, c) ==
  /\ batch' = [batch EXCEPT ![w] = @ \ {c}]
  /\ UNCHANGED <<stage, task>>

Take(w, c, next) ==
  /\ batch' = [batch EXCEPT ![w] = @ \ {c}]
  /\ stage' = [stage EXCEPT ![w] = next]
  /\ task' = [task EXCEPT ![w] = c]

Finish(w) ==
  /\ stage' = [stage EXCEPT ![w] = "poll"]
  /\ task' = [task EXCEPT ![w] = NoTask]
  /\ UNCHANGED batch

-----------------------------------------------------------------------------
\* Execute, its first half: claim due rows, those another transaction has locked
\* skipped.  If the answer is lost the rows stay hidden with nobody to act on them.
Claimed(S) == {[event |-> e, retries |-> rows[e].retries + 1] : e \in S}

PollDue(w) ==
  /\ stage[w] = "poll"
  /\ batch[w] = {}
  /\ \E S \in SUBSET Due \ {{}} :
       /\ Cardinality(S) <= BatchSize
       /\ ClaimDue(S)
       /\ \/ batch' = [batch EXCEPT ![w] = Claimed(S)] /\ UNCHANGED disruptions
          \/ UNCHANGED batch /\ Disrupt("store")
  /\ UNCHANGED <<stage, task, log, groupVars, results, dlq>>

\* A mistake in requeue: schedule first, and publish only if that worked.
RequeueUnpublished(w) ==
  /\ stage[w] = "poll"
  /\ \E c \in batch[w] : ~IsExhausted(c.retries) /\ Take(w, c, "schedule")
  /\ UNCHANGED <<storeVars, topicVars>>

\* requeue: publish first.  After an error the event waits for its window to lapse,
\* whether or not the broker took the message.
Requeue(w) ==
  /\ stage[w] = "poll"
  /\ \E c \in batch[w] :
       /\ ~IsExhausted(c.retries)
       /\ \/ Publish(c.event, "RETRY_SERVICE") /\ Take(w, c, "schedule") /\ UNCHANGED disruptions
          \/ Publish(c.event, "RETRY_SERVICE") /\ Drop(w, c) /\ Disrupt("broker")
          \/ UNCHANGED log /\ Drop(w, c) /\ Disrupt("broker")
  /\ UNCHANGED <<storeVars, groupVars, results, dlq>>

\* ... and schedule second.
Schedule(w) ==
  /\ stage[w] = "schedule"
  /\ \/ ScheduleNext(task[w].event) /\ UNCHANGED disruptions
     \/ UNCHANGED storeVars /\ Disrupt("store")
  /\ Finish(w)
  /\ UNCHANGED <<log, groupVars, results, dlq>>

\* exhaust: the row first; the dead letter is written even if no row matched.
Exhaust(w) ==
  /\ stage[w] = "poll"
  /\ \E c \in batch[w] :
       /\ IsExhausted(c.retries)
       /\ \/ MarkFailed(c.event) /\ Take(w, c, "deadletter") /\ UNCHANGED disruptions
          \/ MarkFailed(c.event) /\ Drop(w, c) /\ Disrupt("store")
          \/ UNCHANGED storeVars /\ Drop(w, c) /\ Disrupt("store")
  /\ UNCHANGED <<log, groupVars, results, dlq>>

DeadLetter(w) ==
  /\ stage[w] = "deadletter"
  /\ \/ dlq' = dlq \cup {task[w]} /\ UNCHANGED disruptions
     \/ UNCHANGED dlq /\ Disrupt("broker")
  /\ Finish(w)
  /\ UNCHANGED <<storeVars, log, groupVars, results>>

\* The sweep, between two cycles, over rows in Stalled (which the composition
\* defines: how old a DELIVERING row must be is a matter of the configuration).
Reclaim(w, Stalled) ==
  /\ stage[w] = "poll"
  /\ batch[w] = {}
  /\ \E S \in SUBSET Stalled \ {{}} : ReclaimStalled(S)
  /\ UNCHANGED <<topicVars, workerVars>>

\* The process stops: what it claimed and has not acted on waits for the window.
CrashWorker(w) ==
  /\ stage[w] # "poll" \/ batch[w] # {}
  /\ Disrupt("crash")
  /\ stage' = [stage EXCEPT ![w] = "poll"]
  /\ batch' = [batch EXCEPT ![w] = {}]
  /\ task' = [task EXCEPT ![w] = NoTask]
  /\ UNCHANGED <<storeVars, log, groupVars, results, dlq>>

-----------------------------------------------------------------------------
\* The steps a running worker takes by itself.
Work(w, Stalled) ==
  \/ PollDue(w) \/ Requeue(w) \/ Schedule(w)
  \/ Exhaust(w) \/ DeadLetter(w)
  \/ Reclaim(w, Stalled)

WorkerNext(Stalled) == \E w \in Workers : Work(w, Stalled) \/ CrashWorker(w)
=============================================================================
