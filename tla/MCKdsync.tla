------------------------------ MODULE MCKdsync ------------------------------
(***************************************************************************)
(* Instances of Kdsync for TLC: which cluster replicates which topic, how  *)
(* many records each publishes and which chunk each instance was given.    *)
(***************************************************************************)
EXTENDS KdsyncSafety

CONSTANTS n1, n2, n3

(* Each cluster replicates a topic of its own.                             *)
OwnTopics == [n \in Node |-> n]

(* Every instance is told to replicate the same topic, as in               *)
(* demo/two_clusters/kdsync/docker-compose.yml.                            *)
SameTopic == [n \in Node |-> "test"]

OneEach == [n \in Node |-> 1]
TwoAndOne == [n \in Node |-> IF n = n1 THEN 2 ELSE 1]
TwoByFirst == [n \in Node |-> IF n = n1 THEN 2 ELSE 0]

(* What the future of a state depends on: of the total order, the messages *)
(* some replica still has to apply.  The properties see no more of it      *)
(* either, for the events of the other messages are those of log.          *)
PendingView ==
  <<kafkaThread, derechoThread, outbox, events, global, log,
    [n \in Node |-> SubSeq(order, delivered[n] + 1, Len(order))]>>

(* Only the behaviours in which everything is published, and ordered,      *)
(* before the first event is copied.                                       *)
PublishedFirst == global' # global => Len(log) = Cardinality(Contents)

(* Only the behaviours that produce no more events to a "-global" topic    *)
(* than were published, so that duplicates do not go on forever.           *)
NoMoreThanPublished ==
  \A n \in Node : Len(global'[n]) <= Cardinality(Contents)

(* In TwoByFirst n2 and n3 only copy.                                      *)
LastTwoAlike == Permutations({n2, n3})

ChunkTen == [n \in Node |-> 10]
ChunkOneAndTwo == [n \in Node |-> IF n = n1 THEN 1 ELSE 2]
ChunkZero == [n \in Node |-> 0]
=============================================================================
