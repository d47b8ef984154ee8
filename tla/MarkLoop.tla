------------------------------ MODULE MarkLoop ------------------------------
(***************************************************************************)
(* The loop of EventList::mark_produced, src/serializable_objects.hpp, one *)
(* iteration per step, on the iterators the code keeps.  The other modules *)
(* take the whole call for one step, MarkProduced of EventList; that a     *)
(* call computes it, of its own arguments, is what this module is for.     *)
(***************************************************************************)
EXTENDS EventList

CONSTANTS
  Instance,    \* the Derecho ids that call mark_produced
  NReplicas,   \* n_replicas
  EventId,     \* what <<topic, partition, offset>> can be
  MaxEvents    \* bound: events in the list

ASSUME LoopAssumption ==
  /\ IsFiniteSet(Instance)
  /\ NReplicas \in Nat \ {0}
  /\ MaxEvents \in Nat

VARIABLES
  events,          \* the list
  running,         \* whether a call of mark_produced is running
  derecho_id,      \* its first argument
  last_id,         \* its other arguments, as an id
  ptr,             \* the position to visit next
  last_completed,  \* the first position that will not be erased
  found,           \* whether the event was met
  called           \* history: the list when mark_produced was called

arguments == <<derecho_id, last_id>>
vars == <<events, running, arguments, ptr, last_completed, found, called>>

Event == [id : EventId, payload : {"any"}, replicas : SUBSET Instance]

Begin == 1
End == Len(events) + 1

Init ==
  /\ events = <<>> /\ called = <<>>
  /\ running = FALSE
  /\ derecho_id \in Instance /\ last_id \in EventId
  /\ ptr = Begin /\ last_completed = Begin /\ found = FALSE

(* Calls do not overlap: they are deliveries of one total order.           *)
Add(id) ==
  /\ ~running /\ Len(events) < MaxEvents
  /\ events' = AddEvent(events, [id |-> id, payload |-> "any", replicas |-> {}])
  /\ UNCHANGED <<running, arguments, ptr, last_completed, found, called>>

(* Mutant of Call: the iterator of the previous call is not reset.         *)
CallKeepsIterator(n, id) ==
  /\ ~running
  /\ running' = TRUE
  /\ derecho_id' = n /\ last_id' = id
  /\ ptr' = Begin /\ found' = FALSE
  /\ called' = events
  /\ UNCHANGED <<events, last_completed>>

(* The call: ptr and last_completed are begin().                           *)
Call(n, id) ==
  /\ ~running
  /\ running' = TRUE
  /\ derecho_id' = n /\ last_id' = id
  /\ ptr' = Begin /\ last_completed' = Begin /\ found' = FALSE
  /\ called' = events
  /\ UNCHANGED events

(* One iteration: compare, insert, remember a completed event, advance.    *)
Visit ==
  /\ running /\ ~found /\ ptr # End
  /\ found' = (events[ptr].id = last_id)
  /\ events' = [events EXCEPT ![ptr].replicas = @ \cup {derecho_id}]
  /\ last_completed' = IF Cardinality(events'[ptr].replicas) = NReplicas
                       THEN ptr + 1 ELSE last_completed
  /\ ptr' = ptr + 1
  /\ UNCHANGED <<running, arguments, called>>

(* Mutant of Return: nothing is marked when the event is not found, the    *)
(* "safer option" of the comment at lines 97-98.                           *)
ReturnUnlessFound ==
  /\ running /\ (found \/ ptr = End)
  /\ events' = IF found THEN SubSeq(events, last_completed, Len(events)) ELSE called
  /\ running' = FALSE
  /\ UNCHANGED <<arguments, ptr, last_completed, found, called>>

(* The loop is over: erase from begin() to last_completed and return.      *)
Return ==
  /\ running /\ (found \/ ptr = End)
  /\ events' = SubSeq(events, last_completed, Len(events))
  /\ running' = FALSE
  /\ UNCHANGED <<arguments, ptr, last_completed, found, called>>

Next ==
  \/ \E id \in EventId : Add(id) \/ \E n \in Instance : Call(n, id)
  \/ Visit
  \/ Return

Spec == Init /\ [][Next]_vars

----------------------------------------------------------------------------
(* The iterators stay in the list, and the range that will be erased,      *)
(* [begin(), last_completed), ends no later than the loop has come.        *)
TypeOK ==
  /\ events \in Seq(Event) /\ called \in Seq(Event)
  /\ running \in BOOLEAN /\ found \in BOOLEAN
  /\ derecho_id \in Instance /\ last_id \in EventId
  /\ ptr \in Nat /\ last_completed \in Nat
  /\ running => /\ Begin <= last_completed /\ last_completed <= ptr
                /\ ptr <= End

(* A call that returns leaves MarkProduced of its own arguments and of the *)
(* list it was called on: the list is marked for derecho_id up to the      *)
(* first event with last_id, all of it when there is none, and then loses  *)
(* what comes up to the last completed event.  The ids of the list may     *)
(* repeat, and last_id may be missing (serializable_objects.hpp:93-128).   *)
LoopMarksTheList ==
  [][/\ ~running /\ running' => called' = events /\ UNCHANGED events
     /\ running => UNCHANGED <<arguments, called>>
     /\ running /\ ~running' =>
          events' = MarkProduced(called, NReplicas, derecho_id, last_id)]_vars
=============================================================================
