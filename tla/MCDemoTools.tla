----------------------------- MODULE MCDemoTools ----------------------------
(***************************************************************************)
(* What TLC needs to check DemoTools, and Subscriptions with it, on a      *)
(* small instance.                                                         *)
(*                                                                         *)
(* The product of all requests is too large: what moves is chosen at first *)
(* - the clients of the subscription service, two runs of subscribe-all    *)
(* with a deactivation beside them, or the deliveries to the receiver.     *)
(***************************************************************************)
EXTENDS DemoTools

CONSTANTS c1, c2, t1, t2, s1, s2, q1, q2, q3, q4

MCFixtureTypes == (c1 :> <<t1, t2>>) @@ (c2 :> <<t1>>)
MCFixtureClients == <<c1, c2>>
MCCreationOf == (s1 :> (c1 :> q1 @@ c2 :> q2)) @@ (s2 :> (c1 :> q3 @@ c2 :> q4))

VARIABLE focus

MCInit == DemoInit /\ focus \in {"clients", "runs", "deliveries"}

\* A bound: no statement of a run's requests fails.
RunsAlone ==
  /\ Service \/ SubscribeAll \/ Restart
  /\ \A q \in OfRun : creation'[q].answer # "error"

MCNext ==
  /\ \/ focus = "clients" /\ (OtherRequests \/ Service)
     \/ focus = "runs" /\ RunsAlone
     \/ focus = "deliveries" /\ (Receiver \/ Restart)
  /\ UNCHANGED focus

MCSpec == MCInit /\ [][MCNext]_<<demoVars, focus>>
=============================================================================
