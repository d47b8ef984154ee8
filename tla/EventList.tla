----------------------------- MODULE EventList -----------------------------
(***************************************************************************)
(* The replicated object of kdsync, class EventList of                     *)
(* src/serializable_objects.hpp, as operators on a sequence of events.     *)
(*                                                                         *)
(* An event is a record                                                    *)
(*     id       the triple <<topic, partition, offset>>: all the code ever *)
(*              compares to recognise an event                             *)
(*     payload  what the event carries (payload, key and headers)          *)
(*     replicas the set of instances that have marked the event            *)
(*                                                                         *)
(* Positions count from 1, and Len(events) + 1 stands for events.end().    *)
(***************************************************************************)
EXTENDS Integers, Sequences, FiniteSets, FiniteSetsExt

(* std::find_if: the first of the matching positions, or end().            *)
Find(events, matching) == Min(matching \cup {Len(events) + 1})

(* A new event goes to the end of the list.                                *)
AddEvent(events, event) == Append(events, event)

----------------------------------------------------------------------------
(* Mutant of Visited: the loop stops before the match.                     *)
VisitedBeforeMatch(events, id) ==
  {i \in DOMAIN events : \A j \in 1..i : events[j].id # id}

(* The positions the loop of mark_produced visits: all those no earlier    *)
(* event of which has the wanted id, that is up to and including the first *)
(* match, and the WHOLE list when nothing matches.                         *)
Visited(events, id) ==
  {i \in DOMAIN events : \A j \in 1..(i - 1) : events[j].id # id}

(* Mutants of Marked: only the match is marked; the arguments are swapped. *)
MarkedOnlyMatch(events, derecho_id, id) ==
  [i \in DOMAIN events |->
     IF events[i].id = id
     THEN [events[i] EXCEPT !.replicas = @ \cup {derecho_id}]
     ELSE events[i]]

MarkedSwapped(events, derecho_id, id) ==
  [i \in DOMAIN events |->
     IF i \in Visited(events, id)
     THEN [events[i] EXCEPT !.replicas = @ \cup {id}]
     ELSE events[i]]

(* The list after the loop has inserted derecho_id in every visited event. *)
Marked(events, derecho_id, id) ==
  [i \in DOMAIN events |->
     IF i \in Visited(events, id)
     THEN [events[i] EXCEPT !.replicas = @ \cup {derecho_id}]
     ELSE events[i]]

(* Mutant of Completed: one instance may be missing.                       *)
CompletedTooEarly(events, n_replicas, derecho_id, id) ==
  {i \in Visited(events, id) :
     Cardinality(Marked(events, derecho_id, id)[i].replicas) >= n_replicas - 1}

(* The visited events that the loop finds marked by n_replicas instances.  *)
Completed(events, n_replicas, derecho_id, id) ==
  {i \in Visited(events, id) :
     Cardinality(Marked(events, derecho_id, id)[i].replicas) = n_replicas}

(* last_completed: the last of them, 0 when there is none.                 *)
LastCompleted(events, n_replicas, derecho_id, id) ==
  Max({0} \cup Completed(events, n_replicas, derecho_id, id))

(* Mutants of MarkProduced: the last completed event stays, for want of    *)
(* next(ptr); only the wanted event is marked and erased.                  *)
MarkProducedKeepsLast(events, n_replicas, derecho_id, id) ==
  SubSeq(Marked(events, derecho_id, id),
         Max({1, LastCompleted(events, n_replicas, derecho_id, id)}),
         Len(events))

MarkProducedOnlyMatch(events, n_replicas, derecho_id, id) ==
  SelectSeq(MarkedOnlyMatch(events, derecho_id, id),
            LAMBDA event : Cardinality(event.replicas) < n_replicas)

(* mark_produced: mark what the loop visits, then erase everything up to   *)
(* the last completed event, nothing when there is none.                   *)
MarkProduced(events, n_replicas, derecho_id, id) ==
  SubSeq(Marked(events, derecho_id, id),
         LastCompleted(events, n_replicas, derecho_id, id) + 1,
         Len(events))

----------------------------------------------------------------------------
(* At most event_chunk events from a position on.  A negative chunk makes  *)
(* the range of the result vector an invalid one: its constructor throws,  *)
(* the reply of the query is an exception, and the caller, which catches   *)
(* it, goes on with an empty list; hence the empty result.                 *)
Chunk(events, event_chunk, first) ==
  SubSeq(events, first, first - 1 + Min({event_chunk, Len(events) - first + 1}))

(* get_events: from the first event the instance has not marked.           *)
GetEvents(events, event_chunk, derecho_id) ==
  Chunk(events, event_chunk,
        Find(events, {i \in DOMAIN events : derecho_id \notin events[i].replicas}))

(* Mutants of GetEventsFrom: the query starts at the last event itself; it *)
(* returns nothing when the last event is not in the list.                 *)
GetEventsFromLast(events, event_chunk, id) ==
  LET last_replicated == Find(events, {i \in DOMAIN events : events[i].id = id})
  IN  Chunk(events, event_chunk,
            IF last_replicated = Len(events) + 1 THEN 1 ELSE last_replicated)

GetEventsFromEnd(events, event_chunk, id) ==
  LET last_replicated == Find(events, {i \in DOMAIN events : events[i].id = id})
  IN  Chunk(events, event_chunk, Min({last_replicated, Len(events)}) + 1)

(* get_events_from: from the successor of the first event with that id, or *)
(* from the beginning of the list when no event has it.                    *)
GetEventsFrom(events, event_chunk, id) ==
  LET last_replicated == Find(events, {i \in DOMAIN events : events[i].id = id})
      first_not_replicated ==
        IF last_replicated = Len(events) + 1 THEN 1 ELSE last_replicated + 1
  IN  Chunk(events, event_chunk, first_not_replicated)

=============================================================================
