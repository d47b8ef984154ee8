------------------------ MODULE KdsyncFailuresSafety ------------------------
(***************************************************************************)
(* Why a group keeps the weak promise when instances that publish nothing  *)
(* crash and come back, as an inductive invariant.  As in KdsyncSafety all *)
(* that the instances hold is a part of log; what a crash changes is       *)
(*                                                                         *)
(*     a "-global" topic    has the first Reached(n) events, some of them  *)
(*                          more than once                                 *)
(*     a reply in work      starts anywhere up to the event after those,   *)
(*                          but behind all the marks of its instance       *)
(*     a list               shows the marks that its place in the order    *)
(*                          has brought, and no other                      *)
(*                                                                         *)
(* so that a list, given to an instance that comes back, tells it all that *)
(* the instance has marked, and from there on its marks move forward.      *)
(***************************************************************************)
EXTENDS KdsyncFailures, KdsyncSafety

(* Only instances that publish nothing fail, the others are a group        *)
(* without them, ids are kept, and clusters store what they are given.     *)
SafeSettings ==
  /\ UniqueIds
  /\ \A n \in Fallible : Records[n] = 0
  /\ Survives(Node \ Fallible)
  /\ SpareId = {}
  /\ Oversized = {}
  /\ \A n \in Node : Rejected[n] = {}

(* How far a "-global" topic has got, repetitions not counted.             *)
Reached(n) == Cardinality(ToSet(global[n]))

(* Among the first d messages of the order is a mark of n that reaches     *)
(* place k.                                                                *)
HasMarked(n, d, k) == \E i \in MarksInOrder(n) : i <= d /\ k <= OrderPlace(i)

(* All marks of n, sent or ordered, are for places up to k.                *)
MarksUpTo(n, k) ==
  /\ \A i \in MarksInOrder(n) : OrderPlace(i) <= k
  /\ \A j \in MarksInOutbox(n) : OutboxPlace(n, j) <= k
----------------------------------------------------------------------------
(* What fails comes back as who it was, and has nothing to publish; the    *)
(* others stay.                                                            *)
MembersAreKept ==
  /\ Node \ Fallible \subseteq up
  /\ \A n \in Node : my_id[n] = n
  /\ \A n \in Node \ up : last[n] = Nil
  /\ \A n \in Fallible :
       /\ polled[n] = Nil /\ AddsInOutbox(n) = {}
       /\ \A p \in Partition : /\ position[n][p] = 0
                               /\ committed[n][p] \in {None, 0}

(* A "-global" topic leaves out nothing that comes before what it has.     *)
CopyHasNoGap(n) ==
  /\ Reached(n) <= Len(log)
  /\ ToSet(global[n]) = {log[k] : k \in 1..Reached(n)}

CopiesHaveNoGap == \A n \in Node : CopyHasNoGap(n)

(* A mark names an event that the cluster of its sender has.               *)
IsReached(n, id) == IsPlaced(log, id) /\ Place(log, id) <= Reached(n)

MarksAreReached == \A n \in Node : MarksUpTo(n, Reached(n))

(* A list shows the marks of the messages that were applied to it, here or *)
(* where it was transferred from: what is marked for n in it, and what it  *)
(* has forgotten, is up to a mark of n.                                    *)
ListShowsMarks(m) ==
  \A n \in Node :
     /\ \A k \in 1..Forgotten(m) : HasMarked(n, delivered[m], k)
     /\ \A j \in DOMAIN events[m] :
          n \in events[m][j].replicas
            <=> HasMarked(n, delivered[m], Forgotten(m) + j)

ListsShowMarks == \A m \in up : ListShowsMarks(m)

(* The reply in work is the part of the log behind place c.                *)
RepliesFrom(n, c) ==
  \A k \in DOMAIN batch[n] :
     c + k <= AddedCount(n) /\ Content(batch[n][k]) = log[c + k]

(* Wherever the copy thread has started, it goes on behind its marks, and  *)
(* leaves no gap; a new thread finds all marks of its instance in its list. *)
ThreadGoesForward(n) ==
  /\ pc[n] = "replicate" =>
       \E c \in 0..Reached(n) : RepliesFrom(n, c) /\ MarksUpTo(n, c)
  /\ pc[n] = "query" /\ last[n] = Nil =>
       /\ MarksInOutbox(n) = {}
       /\ \A i \in MarksInOrder(n) : i <= delivered[n]
  /\ pc[n] # "replicate" /\ last[n] # Nil =>
       /\ IsReached(n, last[n]) /\ Place(log, last[n]) <= AddedCount(n)
       /\ MarksUpTo(n, Place(log, last[n]) - IF pc[n] = "mark" THEN 1 ELSE 0)

ThreadsGoForward == \A n \in up : ThreadGoesForward(n)

(* What is produced next follows what was produced last, but after a       *)
(* failure: that one time is still to be counted.                          *)
GoesOn(n) ==
  \/ global[n] = <<>>
  \/ pc[n] = "replicate" /\ Place(log, batch[n][1].id)
                              = Place(log, global[n][Len(global[n])].id) + 1
  \/ pc[n] # "replicate" /\ last[n] = global[n][Len(global[n])].id

RepeatIsCounted(n) ==
  Cardinality(Restarts(n)) + (IF GoesOn(n) THEN 0 ELSE 1) <= failures[n]

RepeatsAreCounted == \A n \in Node : RepeatIsCounted(n)

(* All of it together: across crashes and transfers of the list a mark     *)
(* finds its event (serializable_objects.hpp:98-100), what is erased is in *)
(* every cluster (lines 84-85), and the events an instance has not marked  *)
(* (lines 112-138) start at most one behind what its cluster has.          *)
FailuresInvariant ==
  /\ FailuresTypeOK
  /\ LogInvariant
  /\ MembersAreKept
  /\ CopiesHaveNoGap
  /\ MarksAreReached
  /\ ListsShowMarks
  /\ ThreadsGoForward
  /\ RepeatsAreCounted
=============================================================================
