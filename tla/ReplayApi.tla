----------------------------- MODULE ReplayApi ------------------------------
(***************************************************************************)
(* The replay endpoint of the self-service API (replay-notification-       *)
(* event.ts): a client asks for a failed event to be sent again.  Requests *)
(* run concurrently, and each await is a step.                             *)
(***************************************************************************)
EXTENDS EventStore, Topics

CONSTANT Requests        \* bound: the replay requests of one behaviour

VARIABLE replay          \* replay[q]: how far request q is, and for which event

\* before: how many attempts the event had when its row was reopened (observed
\* only by properties).
RequestStep == {"new", "mark", "publish", "accepted", "failed"}
Request == [step : RequestStep, event : Events, before : Nat]

ReplayInit ==
  replay = [q \in Requests |->
              [step |-> "new", event |-> CHOOSE e \in Events : TRUE, before |-> 0]]

ReplayTypeOK == replay \in [Requests -> Request]

Advance(q, step) == replay' = [replay EXCEPT ![q].step = step]

\* findByIdForClient and canBeReplayed: every other state is answered with an
\* error and changes nothing.
ReplayLookup(q, e) ==
  /\ replay[q].step = "new"
  /\ State(e) = "FAILED"
  /\ replay' = [replay EXCEPT ![q].step = "mark", ![q].event = e]
  /\ UNCHANGED <<storeVars, topicVars>>

\* The row is moved first; how many rows the UPDATE matched is not looked at.
ReplayMark(q) ==
  /\ replay[q].step = "mark"
  /\ MarkForReplay(replay[q].event)
  /\ \/ /\ replay' = [replay EXCEPT ![q].step = "publish",
                                    ![q].before = Len(attempts[replay[q].event])]
        /\ UNCHANGED disruptions
     \/ Advance(q, "failed") /\ Disrupt("store")
  /\ UNCHANGED <<log, groupVars, results, dlq>>

\* The publish, and with it the 202 or the 500 the client gets.
ReplayPublish(q) ==
  /\ replay[q].step = "publish"
  /\ \/ /\ Publish(replay[q].event, "SELF_SERVICE")
        /\ Advance(q, "accepted")
        /\ UNCHANGED disruptions
     \/ /\ Publish(replay[q].event, "SELF_SERVICE")
        /\ Advance(q, "failed")
        /\ Disrupt("broker")
     \/ UNCHANGED log /\ Advance(q, "failed") /\ Disrupt("broker")
  /\ UNCHANGED <<storeVars, groupVars, results, dlq>>

\* The API stops in the middle of a request.
ReplayInterrupted(q) ==
  /\ replay[q].step \in {"mark", "publish"}
  /\ Advance(q, "failed")
  /\ Disrupt("crash")
  /\ UNCHANGED <<storeVars, log, groupVars, results, dlq>>

-----------------------------------------------------------------------------
Serve(q) == ReplayMark(q) \/ ReplayPublish(q)

ReplayNext ==
  \E q \in Requests :
    \/ \E e \in Events : ReplayLookup(q, e)
    \/ Serve(q)
    \/ ReplayInterrupted(q)
=============================================================================
