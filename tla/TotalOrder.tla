----------------------------- MODULE TotalOrder -----------------------------
(***************************************************************************)
(* What kdsync promises, without the list, the marks and the multicast:    *)
(* the instances agree on one log that merges the source streams, keeping  *)
(* the order of each, and every cluster gets a copy of that log, entry     *)
(* after entry, none twice and none left out.                              *)
(***************************************************************************)
EXTENDS Integers, Sequences, FiniteSets

CONSTANTS
  Cluster,   \* the clusters that hold a copy
  Stream,    \* the source streams
  Length     \* how many entries each stream will have

VARIABLES
  log,       \* the agreed log, of entries <<stream, place in the stream>>
  copy       \* the copy of each cluster

agreement == <<log, copy>>

Start ==
  /\ log = <<>>
  /\ copy = [c \in Cluster |-> <<>>]

(* The entries of a stream that are in the log already.                    *)
Agreed(s) == Cardinality({i \in DOMAIN log : log[i][1] = s})

(* The next entry of a stream gets its place in the log.                   *)
Agree(s) ==
  /\ Agreed(s) < Length[s]
  /\ log' = Append(log, <<s, Agreed(s)>>)
  /\ UNCHANGED copy

(* A cluster gets the next entry of the log.                               *)
Copy(c) ==
  /\ Len(copy[c]) < Len(log)
  /\ copy' = [copy EXCEPT ![c] = Append(@, log[Len(@) + 1])]
  /\ UNCHANGED log

Step == (\E s \in Stream : Agree(s)) \/ (\E c \in Cluster : Copy(c))

Promise == Start /\ [][Step]_agreement

(* No stream and no cluster is neglected.                                  *)
FairPromise ==
  /\ Promise
  /\ \A s \in Stream : WF_agreement(Agree(s))
  /\ \A c \in Cluster : WF_agreement(Copy(c))
=============================================================================
