-------------------------- MODULE MCSubscriptions ---------------------------
(***************************************************************************)
(* What TLC needs to check Subscriptions on small instances.               *)
(***************************************************************************)
EXTENDS Subscriptions

\* Clients, event types and requests are interchangeable.
Symmetry ==
  Permutations(Clients) \cup Permutations(EventTypes)
    \cup Permutations(Creations) \cup Permutations(Deletions)
=============================================================================
