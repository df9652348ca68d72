----------------------------- MODULE MCDelivery -----------------------------
(***************************************************************************)
(* What TLC needs to check Guarantees on small instances.                  *)
(***************************************************************************)
EXTENDS Guarantees, TLC

\* Values of PartitionOf: one partition for everything (of three, the libraries agree on
\* CLIENT003); and a client they disagree on (as they do on CLIENT001 and CLIENT002).
SomePartition == CHOOSE p \in Partitions : TRUE
OnePartition == [source \in DispatchSource |-> [e \in Events |-> SomePartition]]
PartitionByLibrary ==
  LET other == CHOOSE p \in Partitions : p # SomePartition
  IN  [source \in DispatchSource |->
         [e \in Events |-> IF source = "RETRY_SERVICE" THEN other ELSE SomePartition]]

\* Instances are interchangeable; so are the requests.
Symmetry == Permutations(Dispatchers) \cup Permutations(Workers) \cup Permutations(Requests)
=============================================================================
