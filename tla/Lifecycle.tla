----------------------------- MODULE Lifecycle ------------------------------
(***************************************************************************)
(* What the platform promises about one event, whichever services,         *)
(* processes and messages it takes: the life of its row, in which          *)
(*   - a delivery belongs to one delivery cycle at a time, and ends in     *)
(*     DELIVERED, RETRYING or FAILED;                                      *)
(*   - the attempt is recorded in the same step as the state it led to,    *)
(*     and DELIVERED is reached in no other way and never left;            *)
(*   - retries are counted only while the event waits for one, and an      *)
(*     event that waits is given up only when its budget is spent;         *)
(*   - FAILED is left only by a replay.                                    *)
(* The transition table is allowedTransitions of the dispatch service,     *)
(* with the transitions the other services' SQL makes.                     *)
(***************************************************************************)
EXTENDS Domain, Integers, Sequences

CONSTANT MaxAttempts

VARIABLES state, attempts, retries

vars == <<state, attempts, retries>>

Init ==
  /\ state = [e \in Events |-> "ABSENT"]
  /\ attempts = [e \in Events |-> <<>>]
  /\ retries = [e \in Events |-> 0]

Move(S, from, to) ==
  /\ \A e \in S : state[e] \in from
  /\ state' = [e \in Events |-> IF e \in S THEN to ELSE state[e]]

Ingest(e) == Move({e}, {"ABSENT"}, "PENDING") /\ UNCHANGED <<attempts, retries>>

Begin(e) == Move({e}, {"PENDING", "RETRYING"}, "DELIVERING") /\ UNCHANGED <<attempts, retries>>

\* A delivery cycle that called the webhook ends with an attempt in the audit trail.
End(e, status) ==
  /\ Move({e}, {"DELIVERING"}, OutcomeState(status))
  /\ attempts' = [attempts EXCEPT ![e] = Append(@, status)]
  /\ UNCHANGED retries

\* One that did not: abandoned before the call, or lost with its dispatcher.
Release(S) == Move(S, {"DELIVERING"}, "RETRYING") /\ UNCHANGED <<attempts, retries>>

\* Nobody is subscribed.
Close(e) == Move({e}, {"DELIVERING"}, "FAILED") /\ UNCHANGED <<attempts, retries>>

CountRetry(S) ==
  /\ \A e \in S : state[e] = "RETRYING"
  /\ retries' = [e \in Events |-> IF e \in S THEN retries[e] + 1 ELSE retries[e]]
  /\ UNCHANGED <<state, attempts>>

GiveUp(e) ==
  /\ retries[e] >= MaxAttempts
  /\ Move({e}, {"RETRYING"}, "FAILED")
  /\ UNCHANGED <<attempts, retries>>

Reopen(e) == Move({e}, {"FAILED"}, "RETRYING") /\ UNCHANGED <<attempts, retries>>

Next ==
  \/ \E e \in Events :
       \/ Ingest(e) \/ Begin(e) \/ Close(e) \/ GiveUp(e) \/ Reopen(e)
       \/ \E status \in DeliveryStatus : End(e, status)
  \/ \E S \in SUBSET Events : Release(S) \/ CountRetry(S)

Spec == Init /\ [][Next]_vars
=============================================================================
