------------------------------ MODULE MCMonitor -----------------------------
(***************************************************************************)
(* What TLC needs to check Monitor and OperatorReplay on a small instance. *)
(*                                                                         *)
(* The two share no variable, so a behaviour of one is checked beside the  *)
(* initial state of the other: which one moves is chosen at first.         *)
(***************************************************************************)
EXTENDS Monitor, OperatorReplay

CONSTANTS c1, c2, c3

\* One delivery made no call, the others take different times; message 2 is unreadable.
MCClient == (1 :> c3) @@ (2 :> c3) @@ (3 :> c1) @@ (4 :> c2)
MCDuration == [i \in Results |-> IF i = 3 THEN 0 ELSE i]
MCStatus == [i \in Results |-> IF i = 3 THEN "FAILED" ELSE "SUCCESS"]

\* The id of one client, which is part of the id of another.
MCFilters == {[exact |-> {c1}, within |-> {c1, c2}]}

VARIABLE focus

ServiceInit == Init /\ OperatorInit /\ focus \in {"dashboards", "operator"}

ServiceNext ==
  \/ focus = "dashboards" /\ Next /\ UNCHANGED <<operator, focus>>
  \/ focus = "operator" /\ OperatorNext /\ UNCHANGED <<vars, focus>>

\* Every variable of the monitor's process, of its dashboards (the feed, main.ts, index.html) and of an
\* operator's replays (replay-client.ts) keeps its type: what is handled is readable, a cached token is
\* that of a client.
ServiceTypeOK == MonitorTypeOK /\ OperatorTypeOK

ServiceSpec == ServiceInit /\ [][ServiceNext]_<<vars, operator, focus>> /\ Fairness
=============================================================================
