-------------------------- MODULE MCKdsyncFailures --------------------------
(***************************************************************************)
(* Instances of KdsyncFailures for TLC.                                    *)
(***************************************************************************)
EXTENDS KdsyncFailuresSafety

CONSTANTS n1, n2, n3

OwnTopics == [n \in Node |-> n]

OneByFirst == [n \in Node |-> IF n = n1 THEN 1 ELSE 0]
TwoByFirst == [n \in Node |-> IF n = n1 THEN 2 ELSE 0]
OneEach == [n \in Node |-> 1]
FirstOf(n) == <<n, 0, 0>>
SecondOf(n) == <<n, 0, 1>>

ChunkTen == [n \in Node |-> 10]
ChunkZeroLast == [n \in Node |-> IF n = n3 THEN 0 ELSE 10]
ChunkOneAndTwo == [n \in Node |-> IF n = n1 THEN 1 ELSE 2]

NothingRejected == [n \in Node |-> {}]
SecondRejectsFirst == [n \in Node |-> IF n = n2 THEN {FirstOf(n1)} ELSE {}]
SecondRejectsLast == [n \in Node |-> IF n = n2 THEN {SecondOf(n1)} ELSE {}]
FirstRecord == {FirstOf(n1)}

(* As PendingView of MCKdsync: of the order, what is still to be applied   *)
(* by an instance that is up.                                              *)
PendingView ==
  <<kafkaThread, derechoThread, outbox, events, global, log, failureVars,
    [n \in up |-> SubSeq(order, delivered[n] + 1, Len(order))]>>

(* Only the behaviours in which the client library commits nothing.        *)
NoCommit == committed' = committed

(* Only the behaviours in which everything is published, and ordered,      *)
(* before the first event is copied.                                       *)
PublishedFirst == global' # global => Len(log) = Cardinality(Contents)
=============================================================================
