--------------------------- MODULE EventListCalls ---------------------------
(***************************************************************************)
(* One replica of the EventList, class EventList of                        *)
(* src/serializable_objects.hpp, under every sequence of the calls its     *)
(* instances can multicast: events arrive in any order and may repeat the  *)
(* id of an earlier one, marks come from any instance, for ids that are in *)
(* the list, that left it or that never were there.                        *)
(***************************************************************************)
EXTENDS EventList

CONSTANTS
  Instance,    \* the Derecho ids that call mark_produced
  NReplicas,   \* n_replicas
  EventChunk,  \* event_chunk
  EventId,     \* what <<topic, partition, offset>> can be
  MaxEvents    \* bound: events in the list

ASSUME ListAssumption ==
  /\ IsFiniteSet(Instance)
  /\ NReplicas \in Nat \ {0}
  /\ EventChunk \in Int
  /\ MaxEvents \in Nat

VARIABLE events   \* the list

Event == [id : EventId, payload : {"any"}, replicas : SUBSET Instance]

(* The factory of main builds an empty list.                               *)
Init == events = <<>>

(* The event of kafka_polling names no replica.                            *)
Add(id) ==
  /\ Len(events) < MaxEvents
  /\ events' = AddEvent(events, [id |-> id, payload |-> "any", replicas |-> {}])

Mark(n, id) == events' = MarkProduced(events, NReplicas, n, id)

Next == \E id \in EventId : Add(id) \/ \E n \in Instance : Mark(n, id)

Spec == Init /\ [][Next]_events

----------------------------------------------------------------------------
(* The list holds events, each marked by instances.                        *)
TypeOK == events \in Seq(Event)

(* Who marked an event marked all those before it: mark_produced marks     *)
(* from the front and the erased ones leave from the front.  It is what    *)
(* lets get_events stop at the first unmarked event                        *)
(* (serializable_objects.hpp:135-141).                                     *)
MarksNested ==
  \A i, j \in DOMAIN events :
     i < j => events[j].replicas \subseteq events[i].replicas

(* "When the final instance marks as produced an event. It will be removed *)
(* from the list" (serializable_objects.hpp:83-84): after every call all   *)
(* events that are left wait for at least one instance.                    *)
NoneCompleted ==
  \A i \in DOMAIN events : Cardinality(events[i].replicas) < NReplicas

(* mark_produced erases a range, of which it only looked at the last       *)
(* event (serializable_objects.hpp:112-127).  Still every event of the     *)
(* range had been marked by n_replicas instances, and the same caller      *)
(* completed them all.                                                     *)
OnlyCompletedErased ==
  [][\A n \in Instance, id \in EventId :
       Mark(n, id) =>
         \A i \in 1..(Len(events) - Len(events')) :
            Cardinality(events[i].replicas \cup {n}) = NReplicas]_events

(* get_events returns the oldest events the instance has not marked, in    *)
(* the order of the list: all of them, or as many as fit in a chunk        *)
(* (serializable_objects.hpp:130-151).                                     *)
GetEventsExact ==
  \A n \in Instance :
     LET result == GetEvents(events, EventChunk, n)
         unmarked == {i \in DOMAIN events : n \notin events[i].replicas}
     IN  /\ Len(result) = Max({0, Min({EventChunk, Cardinality(unmarked)})})
         /\ \A k \in 1..Len(result) :
              \E i \in unmarked :
                 /\ result[k] = events[i]
                 /\ Cardinality({j \in unmarked : j < i}) = k - 1
=============================================================================
