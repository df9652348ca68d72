----------------------------- MODULE EventStore -----------------------------
(***************************************************************************)
(* The two Postgres tables every service of the platform shares: one row   *)
(* of notification_events per event and the append-only history of         *)
(* notification_attempts.  Each operator below is one SQL statement (or    *)
(* one transaction) of the stores of the dispatch service, the retry       *)
(* service and the self-service API, hence one atomic step; the processes  *)
(* that issue them are in Dispatcher, RetryWorker and ReplayApi.           *)
(*                                                                         *)
(* Columns no decision reads (payload, last_error, created_at) are left    *)
(* out.  next_retry_at is reduced to what the poller can tell: "due" (NULL *)
(* or in the past), "hidden" (pushed forward by the claim's visibility     *)
(* window) and "scheduled" (pushed forward by the retry policy).           *)
(***************************************************************************)
EXTENDS Domain, Integers, Sequences

VARIABLES
  rows,                  \* rows[e]: the row of e, state "ABSENT" if there is none
  attempts               \* attempts[e]: its attempts, in attempt_number order

storeVars == <<rows, attempts>>

RetryTime == {"due", "hidden", "scheduled"}
Row == [state : EventState \cup {"ABSENT"}, retries : Nat, next : RetryTime]

StoreInit ==
  /\ rows = [e \in Events |-> [state |-> "ABSENT", retries |-> 0, next |-> "due"]]
  /\ attempts = [e \in Events |-> <<>>]

StoreTypeOK ==
  /\ rows \in [Events -> Row]
  /\ attempts \in [Events -> Seq(DeliveryStatus)]

State(e) == rows[e].state

-----------------------------------------------------------------------------
(* The dispatch service's store (event_store.go).                          *)

\* INSERT ... ON CONFLICT (event_id) DO NOTHING, as NewNotificationEvent built it.
Insert(e) ==
  /\ rows' = IF State(e) = "ABSENT"
               THEN [rows EXCEPT ![e] = [state |-> "PENDING", retries |-> 0, next |-> "due"]]
               ELSE rows
  /\ UNCHANGED attempts

\* A mistake in the claim: any row matches, WHERE id = $1 alone.
MatchesAny(e, from) == State(e) # "ABSENT"

\* The row still has the state the dispatcher read: its compare-and-set matches.
Matches(e, from) == State(e) = from

ClaimForDelivery(e, from) ==
  /\ rows' = IF Matches(e, from) THEN [rows EXCEPT ![e].state = "DELIVERING"] ELSE rows
  /\ UNCHANGED attempts

\* WHERE id = $1 and nothing else: whatever the row's state is by now, it is overwritten.
UpdateState(e, state) ==
  /\ rows' = [rows EXCEPT ![e].state = state]
  /\ UNCHANGED attempts

\* A mistake in RecordOutcome: the state is left to a later write.
RecordAttemptOnly(e, status) ==
  /\ attempts' = [attempts EXCEPT ![e] = Append(@, status)]
  /\ UNCHANGED rows

\* The attempt (numbered MAX + 1 under the row lock) and the state, in one transaction.
RecordOutcome(e, status) ==
  /\ attempts' = [attempts EXCEPT ![e] = Append(@, status)]
  /\ rows' = [rows EXCEPT ![e].state = OutcomeState(status)]

-----------------------------------------------------------------------------
(* The retry service's store (retry_store.go).                             *)

Due == {e \in Events : State(e) = "RETRYING" /\ rows[e].next = "due"}

\* The UPDATE ... RETURNING that counts a retry and hides the row, for the rows in S.
ClaimDue(S) ==
  /\ rows' = [e \in Events |-> IF e \in S
                THEN [state |-> State(e), retries |-> rows[e].retries + 1, next |-> "hidden"]
                ELSE rows[e]]
  /\ UNCHANGED attempts

ScheduleNext(e) ==
  /\ rows' = IF State(e) = "RETRYING" THEN [rows EXCEPT ![e].next = "scheduled"] ELSE rows
  /\ UNCHANGED attempts

\* A mistake in MarkFailed: no state guard.
MarkFailedAnyState(e) ==
  /\ rows' = [rows EXCEPT ![e].state = "FAILED", ![e].next = "due"]
  /\ UNCHANGED attempts

MarkFailed(e) ==
  /\ rows' = IF State(e) = "RETRYING"
               THEN [rows EXCEPT ![e].state = "FAILED", ![e].next = "due"]
               ELSE rows
  /\ UNCHANGED attempts

\* A mistake in ReclaimStalled: back to a state the poller never looks at.
ReclaimAsPending(S) ==
  /\ rows' = [e \in Events |-> IF e \in S
                THEN [state |-> "PENDING", retries |-> rows[e].retries, next |-> "due"]
                ELSE rows[e]]
  /\ UNCHANGED attempts

\* The sweep: the DELIVERING rows in S are older than the cutoff.
ReclaimStalled(S) ==
  /\ rows' = [e \in Events |-> IF e \in S
                THEN [state |-> "RETRYING", retries |-> rows[e].retries, next |-> "due"]
                ELSE rows[e]]
  /\ UNCHANGED attempts

\* next_retry_at passes.  Only the poller reads it, and only of RETRYING rows.
Lapse(e) ==
  /\ State(e) = "RETRYING"
  /\ rows[e].next # "due"
  /\ rows' = [rows EXCEPT ![e].next = "due"]
  /\ UNCHANGED attempts

-----------------------------------------------------------------------------
(* The self-service API's store (postgres-event-repository.ts).            *)

\* A mistake in markForReplay: no state guard.
MarkForReplayAnyState(e) ==
  /\ rows' = [rows EXCEPT ![e].state = "RETRYING", ![e].next = "due"]
  /\ UNCHANGED attempts

\* UPDATE ... WHERE state = 'FAILED'; retry_count keeps its value.
MarkForReplay(e) ==
  /\ rows' = IF State(e) = "FAILED"
               THEN [rows EXCEPT ![e].state = "RETRYING", ![e].next = "due"]
               ELSE rows
  /\ UNCHANGED attempts
=============================================================================
