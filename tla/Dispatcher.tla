----------------------------- MODULE Dispatcher -----------------------------
(***************************************************************************)
(* The dispatch service: instances that consume the dispatch topic and     *)
(* deliver.  One instance handles one message at a time (consumer.go       *)
(* handle -> ProcessIncomingEvent -> IngestNotificationEvent,              *)
(* DispatchNotification), and each call that leaves the process is a step  *)
(* of its own:                                                             *)
(*                                                                         *)
(*   find [insert [reread]] claim resolve [send record | abandon | close]  *)
(*   announce commit                                                       *)
(*                                                                         *)
(* An error anywhere returns to the consumer, which runs the same message  *)
(* again from the first step, the offset uncommitted.  A store call that   *)
(* errs may or may not have taken effect, and may have failed for once or, *)
(* where the table cannot hold what the message says, for good.            *)
(***************************************************************************)
EXTENDS EventStore, Topics

CONSTANT Refused         \* the events whose row Postgres refuses every time: an id or a
                         \* type longer than its column, \u0000 in the payload

ASSUME DispatcherAssumption ==
  /\ Dispatchers # {} /\ Partitions # {}
  /\ Refused \subseteq Events

VARIABLES
  pc,                    \* pc[d]: the call d makes next
  job,                   \* job[d]: the locals of d's handler
  accepted               \* accepted[e]: how often the client's webhook took e

dispatcherVars == <<pc, job, accepted>>

Step == {"idle", "poison", "find", "insert", "reread", "claim", "resolve",
         "send", "record", "abandon", "close", "announce", "commit"}

\* held: the state observed by the read, later the status of the webhook call;
\* number: the attempt_number RecordOutcome assigned, 0 when there is no attempt.
Job == [part : Partitions, offset : Nat,
        held : EventState \cup DeliveryStatus \cup {"none"}, number : Nat]
NoJob == [part |-> CHOOSE p \in Partitions : TRUE, offset |-> 0,
          held |-> "none", number |-> 0]

DispatcherInit ==
  /\ pc = [d \in Dispatchers |-> "idle"]
  /\ job = [d \in Dispatchers |-> NoJob]
  /\ accepted = [e \in Events |-> 0]

DispatcherTypeOK ==
  /\ pc \in [Dispatchers -> Step]
  /\ job \in [Dispatchers -> Job]
  /\ accepted \in [Events -> Nat]

MessageOf(d) == log[job[d].part][job[d].offset]
EventOf(d) == MessageOf(d).event

\* Between its claim and the write that ends the delivery, d acts as the owner of e.
Owning == {"resolve", "send", "record", "abandon", "close"}
Owns(d, e) == pc[d] \in Owning /\ EventOf(d) = e

Go(d, step, held) ==
  /\ pc' = [pc EXCEPT ![d] = step]
  /\ job' = [job EXCEPT ![d].held = held]

\* The answer of a store call arrives, or it is lost and Process starts over.
Answer(d, step, held) ==
  \/ Go(d, step, held) /\ UNCHANGED disruptions
  \/ Go(d, "find", "none") /\ Disrupt("store")

-----------------------------------------------------------------------------
(* consumer.go: fetch, the poison path, commit.                            *)

Fetch(d, p) ==
  /\ pc[d] = "idle"
  /\ owner[p] = d
  /\ position[p] < Len(log[p])
  /\ position' = [position EXCEPT ![p] = @ + 1]
  /\ job' = [job EXCEPT ![d] = [NoJob EXCEPT !.part = p, !.offset = position[p] + 1]]
  /\ pc' = [pc EXCEPT ![d] =
              IF log[p][position[p] + 1].event = Malformed THEN "poison" ELSE "find"]
  /\ UNCHANGED <<storeVars, log, committed, owner, results, dlq, disruptions, accepted>>

\* A mistake in toDLQ: the write is repeated until the message goes away.
ToDLQForever(d) ==
  /\ pc[d] = "poison"
  /\ dlq' = dlq \cup {[part |-> job[d].part, offset |-> job[d].offset]}
  /\ Go(d, "poison", "none")
  /\ UNCHANGED <<storeVars, log, groupVars, results, disruptions, accepted>>

\* A message that cannot be decoded goes to the dead letters; a failed write is logged.
ToDLQ(d) ==
  /\ pc[d] = "poison"
  /\ \/ dlq' = dlq \cup {[part |-> job[d].part, offset |-> job[d].offset]}
        /\ UNCHANGED disruptions
     \/ UNCHANGED dlq /\ Disrupt("broker")
  /\ Go(d, "commit", "none")
  /\ UNCHANGED <<storeVars, log, groupVars, results, accepted>>

\* A commit the broker does not take is logged: the message may be redelivered.
Commit(d) ==
  /\ pc[d] = "commit"
  /\ \/ committed' = [committed EXCEPT ![job[d].part] = job[d].offset]
        /\ UNCHANGED disruptions
     \/ UNCHANGED committed /\ Disrupt("broker")
  /\ pc' = [pc EXCEPT ![d] = "idle"]
  /\ job' = [job EXCEPT ![d] = NoJob]
  /\ UNCHANGED <<storeVars, log, position, owner, results, dlq, accepted>>

-----------------------------------------------------------------------------
(* ingest_notification_event.go.                                           *)

\* FindByEventID: an existing row is adopted with the state it has now.  Then
\* DispatchNotification starts on that snapshot, and skips what is not dispatchable.
Find(d) ==
  /\ pc[d] \in {"find", "reread"}
  /\ LET state == State(EventOf(d))
     IN  \/ state = "ABSENT" /\ Go(d, "insert", "none")
         \/ CanBeDispatched(state) /\ Go(d, "claim", state)
         \/ state \notin {"ABSENT", "PENDING", "RETRYING"} /\ Go(d, "commit", "none")
  /\ UNCHANGED <<storeVars, topicVars, accepted>>

\* The winner of the unique constraint goes on with its own PENDING event.
InsertEvent(d) ==
  /\ pc[d] = "insert"
  /\ EventOf(d) \notin Refused
  /\ Insert(EventOf(d))
  /\ IF State(EventOf(d)) = "ABSENT"
       THEN Answer(d, "claim", "PENDING")
       ELSE Answer(d, "reread", "none")
  /\ UNCHANGED <<log, groupVars, results, dlq, accepted>>

\* Neither decode nor NewNotificationEvent looks for what the table refuses: the consumer
\* runs the message again, with the same answer.
InsertRefused(d) ==
  /\ pc[d] = "insert"
  /\ EventOf(d) \in Refused
  /\ Go(d, "find", "none")
  /\ UNCHANGED <<storeVars, topicVars, accepted>>

-----------------------------------------------------------------------------
(* dispatch_notification.go.                                               *)

\* The claim, from the state observed; whoever loses it steps aside.
Claim(d) ==
  /\ pc[d] = "claim"
  /\ ClaimForDelivery(EventOf(d), job[d].held)
  /\ IF Matches(EventOf(d), job[d].held)
       THEN Answer(d, "resolve", "none")
       ELSE Answer(d, "commit", "none")
  /\ UNCHANGED <<log, groupVars, results, dlq, accepted>>

\* The subscription service answers with a subscription, none, or an error.
Resolve(d) ==
  /\ pc[d] = "resolve"
  /\ \E step \in {"send", "close", "abandon"} : Go(d, step, "none")
  /\ UNCHANGED <<storeVars, topicVars, accepted>>

\* The webhook call, its in-process retries included (WebhookSender, CycleIsSend): the
\* client takes the event once if the cycle succeeds, and once more when an answer of its
\* is lost on the way back.
Send(d) ==
  /\ pc[d] = "send"
  /\ \E held \in DeliveryStatus, lost \in {0, 1} :
       /\ Go(d, "record", held)
       /\ accepted' = [accepted EXCEPT ![EventOf(d)] =
            @ + lost + (IF held = "SUCCESS" THEN 1 ELSE 0)]
       /\ IF lost = 1 THEN Disrupt("network") ELSE UNCHANGED disruptions
  /\ UNCHANGED <<storeVars, log, groupVars, results, dlq>>

\* A mistake in RecordOutcome: the attempt takes its number from another counter.
RecordByRetryCount(d) ==
  /\ pc[d] = "record"
  /\ RecordOutcome(EventOf(d), job[d].held)
  /\ pc' = [pc EXCEPT ![d] = "announce"]
  /\ job' = [job EXCEPT ![d].number = rows[EventOf(d)].retries + 1]
  /\ UNCHANGED <<log, groupVars, results, dlq, disruptions, accepted>>

Record(d) ==
  /\ pc[d] = "record"
  /\ RecordOutcome(EventOf(d), job[d].held)
  /\ \/ /\ pc' = [pc EXCEPT ![d] = "announce"]
        /\ job' = [job EXCEPT ![d].number = Len(attempts[EventOf(d)]) + 1]
        /\ UNCHANGED disruptions
     \/ Go(d, "find", "none") /\ Disrupt("store")
  /\ UNCHANGED <<log, groupVars, results, dlq, accepted>>

\* abandonToRetry: the subscription lookup failed, back to the retry path.
Abandon(d) ==
  /\ pc[d] = "abandon"
  /\ UpdateState(EventOf(d), "RETRYING")
  /\ Answer(d, "announce", "FAILED")
  /\ UNCHANGED <<log, groupVars, results, dlq, accepted>>

\* closeWithoutDelivery: the client has no active subscription.
Close(d) ==
  /\ pc[d] = "close"
  /\ UpdateState(EventOf(d), "FAILED")
  /\ Answer(d, "announce", "FAILED")
  /\ UNCHANGED <<log, groupVars, results, dlq, accepted>>

\* publish: the result stream never fails a delivery that already happened.
Announce(d) ==
  /\ pc[d] = "announce"
  /\ \/ results' = results \cup {[event |-> EventOf(d), status |-> job[d].held,
                                  number |-> job[d].number]}
        /\ UNCHANGED disruptions
     \/ UNCHANGED results /\ Disrupt("broker")
  /\ pc' = [pc EXCEPT ![d] = "commit"]
  /\ job' = [job EXCEPT ![d].held = "none", ![d].number = 0]
  /\ UNCHANGED <<storeVars, log, groupVars, dlq, accepted>>

-----------------------------------------------------------------------------
(* What interrupts a handler.                                              *)

\* A mistake in the consumer: the offset is committed whatever Process returned.
StoreFailureCommitted(d) ==
  /\ pc[d] \in {"insert", "reread", "claim", "record", "abandon", "close"}
  /\ Go(d, "commit", "none")
  /\ Disrupt("store")
  /\ UNCHANGED <<storeVars, log, groupVars, results, dlq, accepted>>

\* A store call that took no effect: the consumer runs the message again.
StoreFails(d) ==
  /\ pc[d] \in {"insert", "reread", "claim", "record", "abandon", "close"}
  /\ Go(d, "find", "none")
  /\ Disrupt("store")
  /\ UNCHANGED <<storeVars, log, groupVars, results, dlq, accepted>>

\* The process stops (or is shut down) and restarts at the committed offsets.
Crash(d) ==
  /\ Disrupt("crash")
  /\ pc' = [pc EXCEPT ![d] = "idle"]
  /\ job' = [job EXCEPT ![d] = NoJob]
  /\ position' = [p \in Partitions |-> IF owner[p] = d THEN committed[p] ELSE position[p]]
  /\ UNCHANGED <<storeVars, log, committed, owner, results, dlq, accepted>>

\* The group reassigns p; the previous owner's handler runs on.
Rebalance(d, p) ==
  /\ owner[p] # d
  /\ Disrupt("rebalance")
  /\ owner' = [owner EXCEPT ![p] = d]
  /\ position' = [position EXCEPT ![p] = committed[p]]
  /\ UNCHANGED <<storeVars, log, committed, results, dlq, dispatcherVars>>

-----------------------------------------------------------------------------
\* The steps a running dispatcher takes by itself.
Handle(d) ==
  \/ \E p \in Partitions : Fetch(d, p)
  \/ ToDLQ(d) \/ Commit(d)
  \/ Find(d) \/ InsertEvent(d) \/ InsertRefused(d)
  \/ Claim(d) \/ Resolve(d) \/ Send(d) \/ Record(d)
  \/ Abandon(d) \/ Close(d) \/ Announce(d)

DispatcherNext ==
  \E d \in Dispatchers :
    \/ Handle(d)
    \/ StoreFails(d)
    \/ Crash(d)
    \/ \E p \in Partitions : Rebalance(d, p)
=============================================================================
