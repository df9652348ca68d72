---------------------------- MODULE MCEventQueries ---------------------------
(***************************************************************************)
(* What TLC needs to check EventQueries: two events of one client with the *)
(* same date, as a batch of the upstream platform has it.                  *)
(***************************************************************************)
EXTENDS EventQueries, TLC

CONSTANTS e1, e2, c1

MCOwner == [e \in Events |-> c1]
MCCreatedAt == [e \in Events |-> 1]
MCRank == (e1 :> 1) @@ (e2 :> 2)
\* Everything, and a range that ends before it begins.
MCRanges == {<<0, 1>>, <<1, 0>>}
MCRecorded == (e1 :> "completed") @@ (e2 :> "failed")
=============================================================================
