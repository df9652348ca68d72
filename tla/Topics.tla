------------------------------- MODULE Topics -------------------------------
(***************************************************************************)
(* The Kafka topics between the services, as the code uses them: the       *)
(* dispatch topic, partitioned by client and read by one consumer group    *)
(* (the dispatchers); the delivery results; and the dead letters.  Kafka   *)
(* itself is external: a partition is an append-only log with the offset   *)
(* the group committed, the member that owns it and how far that member    *)
(* has fetched.  A new owner resumes at the committed offset, while the    *)
(* handler of the old one may still be running.                            *)
(*                                                                         *)
(* Every producer keys its messages by client_id, but the key is hashed by *)
(* the producer's library: kafka-go's Hash balancer (FNV-1a) in the retry  *)
(* service, kafkajs's default partitioner (murmur2) in the others.         *)
(*                                                                         *)
(* Also here: what goes wrong around the services.  Every crash, lost      *)
(* answer, refused write or rebalance is one of the kinds in Faults and    *)
(* counts against MaxDisruptions, the bound that keeps runs finite.        *)
(***************************************************************************)
EXTENDS Domain, Integers, Sequences

CONSTANTS
  Partitions,            \* of the dispatch topic
  PartitionOf,           \* PartitionOf[source][e]: where the producer's client library
                         \* puts a message about e, keyed by client_id
  Malformed,             \* what decode makes of a message it refuses
  Dispatchers,           \* the members of the consumer group
  Faults,                \* the kinds of disruption that may happen
  MaxDisruptions         \* bound: how many may happen in one behaviour

ASSUME TopicsAssumption ==
  /\ PartitionOf \in [DispatchSource -> [Events -> Partitions]]
  /\ Malformed \notin Events
  /\ Faults \subseteq {"crash", "rebalance", "store", "broker", "network"}
  /\ MaxDisruptions \in Nat

VARIABLES
  log,                   \* log[p]: the messages of partition p
  committed,             \* committed[p]: how many of them the group committed
  position,              \* position[p]: how many its owner has fetched
  owner,                 \* owner[p]: the dispatcher p is assigned to
  results,               \* the delivery results announced to the monitor
  dlq,                   \* the dead letters
  disruptions            \* how many disruptions have happened

topicVars == <<log, committed, position, owner, results, dlq, disruptions>>
groupVars == <<committed, position, owner>>

Message == [event : Events \cup {Malformed}, source : DispatchSource]

\* What the retry service and the consumer write to the dead letters.
DeadLetterRecord == [event : Events, retries : Nat]
PoisonRecord == [part : Partitions, offset : Nat]

TopicsInit ==
  /\ log = [p \in Partitions |-> <<>>]
  /\ committed = [p \in Partitions |-> 0]
  /\ position = [p \in Partitions |-> 0]
  /\ owner \in [Partitions -> Dispatchers]
  /\ results = {}
  /\ dlq = {}
  /\ disruptions = 0

TopicsTypeOK ==
  /\ log \in [Partitions -> Seq(Message)]
  /\ committed \in [Partitions -> Nat]
  /\ position \in [Partitions -> Nat]
  /\ owner \in [Partitions -> Dispatchers]
  /\ results \subseteq [event : Events, status : DeliveryStatus, number : Nat]
  /\ dlq \subseteq DeadLetterRecord \cup PoisonRecord
  /\ disruptions \in 0..MaxDisruptions

Disrupt(kind) ==
  /\ kind \in Faults
  /\ disruptions < MaxDisruptions
  /\ disruptions' = disruptions + 1

\* A producer's write to the dispatch topic, keyed by client_id.
Publish(e, source) ==
  log' = [log EXCEPT ![PartitionOf[source][e]] =
                       Append(@, [event |-> e, source |-> source])]

\* How many messages about e a given service has published.
Published(e, source) ==
  LET p == PartitionOf[source][e]
  IN  {i \in 1..Len(log[p]) : log[p][i] = [event |-> e, source |-> source]}
=============================================================================
