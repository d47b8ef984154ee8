---------------------------- MODULE KdsyncSafety ----------------------------
(***************************************************************************)
(* Why a group of kdsync instances keeps its promises, as an inductive     *)
(* invariant.  Everything the instances hold is a part of log:             *)
(*                                                                         *)
(*     a "-global" topic    the first Copied(n) events                     *)
(*     a reply in work      the events that follow those                   *)
(*     a list               the events Forgotten(n) + 1 to AddedCount(n)   *)
(*     a mark               one place, not after Copied of its sender      *)
(*                                                                         *)
(* and the marks of an instance only ever move forward.                    *)
(***************************************************************************)
EXTENDS Kdsync

(* The place of an event in the log.                                       *)
IsPlaced(contents, id) == \E k \in DOMAIN contents : contents[k].id = id
Place(contents, id) == CHOOSE k \in DOMAIN contents : contents[k].id = id

(* How many events an instance has copied.                                 *)
Copied(n) == Len(global[n])

(* The ids an instance has read from its cluster.                          *)
Issued(n) ==
  {id \in Id(n) : id[3] < position[n][id[2]]}

(* Where the messages under way are.                                       *)
AddsInOutbox(n) == {j \in DOMAIN outbox[n] : outbox[n][j].type = "add_event"}
MarksInOutbox(n) == DOMAIN outbox[n] \ AddsInOutbox(n)
MarksInOrder(n) ==
  {i \in DOMAIN order : /\ order[i].type = "mark_produced"
                        /\ order[i].derecho_id = n}

(* The places of those marks in the log.                                   *)
OutboxPlace(n, j) == Place(log, outbox[n][j].id)
OrderPlace(i) == Place(log, order[i].id)
----------------------------------------------------------------------------
(* No event is read, sent or added a second time.                          *)
EventIsNew(n, event) ==
  /\ event.id \in Issued(n)
  /\ event.replicas = {}
  /\ \A k \in DOMAIN log : log[k].id # event.id

EventsOnce ==
  /\ \A k \in DOMAIN log : \E n \in Node : log[k].id \in Issued(n)
  /\ \A k, l \in DOMAIN log : log[k].id = log[l].id => k = l
  /\ \A n \in Node :
       /\ \A j \in AddsInOutbox(n) : EventIsNew(n, outbox[n][j].event)
       /\ \A i, j \in AddsInOutbox(n) :
            outbox[n][i].event.id = outbox[n][j].event.id => i = j
       /\ polled[n] # Nil =>
            /\ EventIsNew(n, polled[n])
            /\ \A j \in AddsInOutbox(n) :
                 outbox[n][j].event.id # polled[n].id

(* The log is what the add_events of the order bring.                      *)
LogFollowsOrder ==
  /\ Len(logged) = Len(order)
  /\ LogLen(Len(order)) = Len(log)
  /\ \A i, j \in 0..Len(order) : i <= j => LogLen(i) <= LogLen(j)
  /\ \A i \in DOMAIN order :
       /\ order[i].type = "add_event" =>
            /\ LogLen(i) = LogLen(i - 1) + 1
            /\ log[LogLen(i)] = Content(order[i].event)
            /\ order[i].event.replicas = {}
       /\ order[i].type = "mark_produced" => LogLen(i) = LogLen(i - 1)

(* A list is a segment of the log that ends where the deliveries are.      *)
ListsAreSegments ==
  \A n \in Node :
     /\ Len(events[n]) <= AddedCount(n)
     /\ \A j \in DOMAIN events[n] :
          Content(events[n][j]) = log[Forgotten(n) + j]
----------------------------------------------------------------------------
(* A mark names an event that is in the log before the mark.               *)
MarksArePlaced ==
  \A n \in Node :
     /\ \A i \in MarksInOrder(n) :
          IsPlaced(log, order[i].id) /\ OrderPlace(i) <= LogLen(i)
     /\ \A j \in MarksInOutbox(n) :
          IsPlaced(log, outbox[n][j].id) /\ outbox[n][j].derecho_id = n

(* The marks of an instance move forward.                                  *)
MarksMoveForward ==
  \A n \in Node :
     /\ \A i, j \in MarksInOrder(n) : i < j => OrderPlace(i) < OrderPlace(j)
     /\ \A i \in MarksInOrder(n), j \in MarksInOutbox(n) :
          OrderPlace(i) < OutboxPlace(n, j)
     /\ \A i, j \in MarksInOutbox(n) :
          i < j => OutboxPlace(n, i) < OutboxPlace(n, j)

(* The log, and how lists and marks refer to it, whatever the copy threads *)
(* do: this part holds as well when instances fail (KdsyncFailuresSafety). *)
LogInvariant ==
  /\ TypeOK
  /\ EventsOnce
  /\ LogFollowsOrder
  /\ ListsAreSegments
  /\ MarksArePlaced
  /\ MarksMoveForward
----------------------------------------------------------------------------
(* A "-global" topic is a prefix of the log, the reply in work goes on     *)
(* behind it, and last_event is the last event copied.                     *)
CopiesAreAPrefix ==
  \A n \in Node :
     /\ Copied(n) + Len(batch[n]) <= AddedCount(n)
     /\ \A k \in DOMAIN global[n] : global[n][k] = log[k]
     /\ \A k \in DOMAIN batch[n] : Content(batch[n][k]) = log[Copied(n) + k]
     /\ pc[n] # "replicate" =>
          \/ last[n] = Nil /\ Copied(n) = 0
          \/ Copied(n) > 0 /\ last[n] = log[Copied(n)].id

(* A mark is sent behind the copy of its event.                            *)
MarkIsCopied(n, id) ==
  /\ Place(log, id) <= Copied(n)
  /\ pc[n] = "mark" => Place(log, id) < Copied(n)

MarksAreCopied ==
  \A n \in Node :
     /\ \A i \in MarksInOrder(n) : MarkIsCopied(n, order[i].id)
     /\ \A j \in MarksInOutbox(n) : MarkIsCopied(n, outbox[n][j].id)

(* A mark of n for place k would be news to the replica of m: all that m   *)
(* has forgotten, or has marked for n, is before k.                        *)
IsAhead(m, n, k) ==
  /\ Forgotten(m) < k
  /\ \A j \in DOMAIN events[m] :
       n \in events[m][j].replicas => Forgotten(m) + j < k

(* Every mark is news where it has not been delivered: those under way,    *)
(* the one about to be sent, and those for what is not copied yet.         *)
MarksAreAhead ==
  \A m, n \in Node :
     /\ IsAhead(m, n, Copied(n) + 1)
     /\ pc[n] = "mark" => IsAhead(m, n, Copied(n))
     /\ \A j \in MarksInOutbox(n) : IsAhead(m, n, OutboxPlace(n, j))
     /\ \A i \in MarksInOrder(n) :
          delivered[m] < i => IsAhead(m, n, OrderPlace(i))

(* All of it together: at every moment the lists, the "-global" topics and *)
(* the marks under way are consistent parts of the one log, so that a mark *)
(* finds its event (serializable_objects.hpp:98-100), a query goes on      *)
(* behind what was copied (lines 153-180), and what is erased is in every  *)
(* cluster (lines 84-85).                                                  *)
SafetyInvariant ==
  /\ LogInvariant
  /\ CopiesAreAPrefix
  /\ MarksAreCopied
  /\ MarksAreAhead
----------------------------------------------------------------------------
(* Before an event of a source partition is read, sent or ordered, all     *)
(* that come before it in that partition were.                             *)
Sibling(id, offset) == <<id[1], id[2], offset>>

(* An event is in the log, or waits in the window of n before place j.     *)
SentBefore(n, j, id) ==
  \/ IsPlaced(log, id)
  \/ \E i \in AddsInOutbox(n) : i < j /\ outbox[n][i].event.id = id

(* The event of a source partition, sent to place j, finds those that come *)
(* before it.                                                              *)
FollowsItsSiblings(n, j, event) ==
  /\ event.payload = n
  /\ \A offset \in 0..(event.id[3] - 1) :
       SentBefore(n, j, Sibling(event.id, offset))

(* The records of a source partition enter the log in their order and      *)
(* without a gap, wherever the two threads of their instance are and       *)
(* however the senders are interleaved: what "ordered synchronization"     *)
(* (README.md:2) means for one partition.                                  *)
StreamsInOrder ==
  /\ \A k \in DOMAIN log :
       /\ log[k].id \in Id(log[k].payload)
       /\ \A offset \in 0..(log[k].id[3] - 1) :
            \E i \in 1..(k - 1) : log[i].id = Sibling(log[k].id, offset)
  /\ \A n \in Node :
       LET end == Len(outbox[n]) + 1
       IN  /\ \A j \in AddsInOutbox(n) :
                FollowsItsSiblings(n, j, outbox[n][j].event)
           /\ polled[n] # Nil => FollowsItsSiblings(n, end, polled[n])
           /\ \A p \in Partition : \A offset \in 0..(position[n][p] - 1) :
                LET id == <<Topic[n], p, offset>>
                IN  \/ SentBefore(n, end, id)
                    \/ polled[n] # Nil /\ polled[n].id = id
----------------------------------------------------------------------------
(* A mark of n for id that n's own replica has not applied yet.            *)
MarkUnderWay(n, id) ==
  \/ \E i \in MarksInOrder(n) : delivered[n] < i /\ order[i].id = id
  \/ \E j \in MarksInOutbox(n) : outbox[n][j].id = id

(* The list of n has n's marks up to place k.                              *)
MarkedThrough(n, k) ==
  \A j \in DOMAIN events[n] :
     Forgotten(n) + j <= k => n \in events[n][j].replicas

(* last_event has been copied, and the mark for it has arrived at home or  *)
(* will: derecho_polling sends one for every last_event it sets            *)
(* (kdsync.cpp:106-112), and nothing takes a mark back.                    *)
OwnMarksArrive ==
  \A n \in Node :
     last[n] # Nil =>
       /\ IsPlaced(log, last[n]) /\ Place(log, last[n]) <= Copied(n)
       /\ pc[n] # "mark" =>
            \/ MarkUnderWay(n, last[n])
            \/ MarkedThrough(n, Place(log, last[n]))
=============================================================================
