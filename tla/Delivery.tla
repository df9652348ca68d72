------------------------------ MODULE Delivery ------------------------------
(***************************************************************************)
(* The delivery pipeline: the upstream platform, the dispatch service, the *)
(* retry service and the replay endpoint over the shared tables and the    *)
(* dispatch topic.                                                         *)
(***************************************************************************)
EXTENDS Dispatcher, RetryWorker, ReplayApi

CONSTANTS
  SlowDispatch,          \* may a delivery outlast RETRY_STALLED_AFTER?
  MaxSystem,             \* bound: how often the platform publishes an event
  MaxMalformed           \* bound: malformed messages per partition

ASSUME DeliveryAssumption ==
  /\ Events # {}
  /\ SlowDispatch \in BOOLEAN
  /\ MaxSystem \in Nat \ {0}
  /\ MaxMalformed \in Nat

vars == <<storeVars, topicVars, dispatcherVars, workerVars, replay>>

Init ==
  /\ StoreInit
  /\ TopicsInit
  /\ DispatcherInit
  /\ WorkerInit
  /\ ReplayInit

\* The upstream platform publishes an event, possibly more than once.
PlatformPublish(e) ==
  /\ Cardinality(Published(e, "SYSTEM")) < MaxSystem
  /\ Publish(e, "SYSTEM")
  /\ UNCHANGED <<storeVars, groupVars, results, dlq, disruptions>>

\* Somebody writes a message to the topic that decode refuses.
MalformedMessage(p) ==
  /\ Cardinality({i \in 1..Len(log[p]) : log[p][i].event = Malformed}) < MaxMalformed
  /\ log' = [log EXCEPT ![p] = Append(@, [event |-> Malformed, source |-> "SYSTEM"])]
  /\ UNCHANGED <<storeVars, groupVars, results, dlq, disruptions>>

\* A mistake in the sweep: no cutoff.
StalledWithoutCutoff == {e \in Events : State(e) = "DELIVERING"}

\* The rows the sweep takes: DELIVERING since before the cutoff.  As long as no
\* delivery outlasts the cutoff, such a row has no dispatcher working on it.
Stalled ==
  {e \in Events : State(e) = "DELIVERING"
                  /\ (SlowDispatch \/ \A d \in Dispatchers : ~Owns(d, e))}

RetryTimePasses(e) == Lapse(e) /\ UNCHANGED topicVars

EnvironmentNext ==
  \/ \E e \in Events : PlatformPublish(e) \/ RetryTimePasses(e)
  \/ \E p \in Partitions : MalformedMessage(p)

Next ==
  \/ DispatcherNext /\ UNCHANGED <<workerVars, replay>>
  \/ WorkerNext(Stalled) /\ UNCHANGED <<dispatcherVars, replay>>
  \/ ReplayNext /\ UNCHANGED <<dispatcherVars, workerVars>>
  \/ EnvironmentNext /\ UNCHANGED <<dispatcherVars, workerVars, replay>>

Spec == Init /\ [][Next]_vars

\* Running processes go on: the services restart after a crash, the poll loop never
\* stops, timers expire.  Nothing obliges the platform or a client to act.
Fairness ==
  /\ \A d \in Dispatchers : WF_vars(Handle(d) /\ UNCHANGED <<workerVars, replay>>)
  /\ \A w \in Workers :
       WF_vars(Work(w, Stalled) /\ UNCHANGED <<dispatcherVars, replay>>)
  /\ \A q \in Requests : WF_vars(Serve(q) /\ UNCHANGED <<dispatcherVars, workerVars>>)
  /\ \A e \in Events :
       WF_vars(RetryTimePasses(e) /\ UNCHANGED <<dispatcherVars, workerVars, replay>>)

FairSpec == Spec /\ Fairness

-----------------------------------------------------------------------------
\* Every variable of every component has values of its kind.
TypeOK == StoreTypeOK /\ TopicsTypeOK /\ DispatcherTypeOK /\ WorkerTypeOK /\ ReplayTypeOK
=============================================================================
