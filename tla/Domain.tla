------------------------------- MODULE Domain -------------------------------
(***************************************************************************)
(* The vocabulary the services share: the states of a notification event   *)
(* and the rules of the dispatch service's domain package that decide what *)
(* an event may become.                                                    *)
(***************************************************************************)

CONSTANT Events          \* the event_ids the upstream platform uses

EventState == {"PENDING", "DELIVERING", "RETRYING", "DELIVERED", "FAILED"}
DeliveryStatus == {"SUCCESS", "FAILED"}
DispatchSource == {"SYSTEM", "RETRY_SERVICE", "SELF_SERVICE"}

CanBeDispatched(state) == state \in {"PENDING", "RETRYING"}

\* Mistakes in OutcomeState: the status stored as the state, every attempt retried.
OutcomeStateUnmapped(status) == status
OutcomeStateRetrying(status) == "RETRYING"

\* MarkDelivered or MarkRetrying, as the delivery went.
OutcomeState(status) == IF status = "SUCCESS" THEN "DELIVERED" ELSE "RETRYING"
=============================================================================
