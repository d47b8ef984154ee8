--------------------------- MODULE MarkLoopProofs ---------------------------
(***************************************************************************)
(* The loop of mark_produced computes MarkProduced, for lists of any       *)
(* length and any number of instances.                                     *)
(***************************************************************************)
EXTENDS MarkLoop, EventListLemmas

(* The loop invariant: what lies before ptr is marked and the rest is as   *)
(* it was, no event but the one visited last can be the wanted one, and    *)
(* last_completed follows the last completed event before ptr.             *)
MarkedSoFar ==
  /\ Len(events) = Len(called)
  /\ \A i \in 1..Len(called) :
       events[i] = IF i < ptr
                   THEN [called[i] EXCEPT !.replicas = @ \cup {derecho_id}]
                   ELSE called[i]

FoundSoFar ==
  /\ \A i \in 1..(ptr - 2) : called[i].id # last_id
  /\ found <=> ptr > 1 /\ called[ptr - 1].id = last_id

CompletedSoFar ==
  /\ last_completed > 1
       => Cardinality(events[last_completed - 1].replicas) = NReplicas
  /\ \A i \in last_completed..(ptr - 1) :
       Cardinality(events[i].replicas) # NReplicas

LoopInv == TypeOK /\ (running => MarkedSoFar /\ FoundSoFar /\ CompletedSoFar)

LEMMA EventsOfTheLoop == Seq(Event) = Events(EventId, {"any"}, Instance)
BY DEF Event, Events

LEMMA InitLoop == Init => LoopInv
<1>1. <<>> \in Seq(Event)
  BY EmptySeq
<1> SUFFICES ASSUME Init PROVE LoopInv
  OBVIOUS
<1>2. ~running /\ running \in BOOLEAN /\ found \in BOOLEAN
  BY DEF Init
<1>3. /\ events \in Seq(Event) /\ called \in Seq(Event)
      /\ derecho_id \in Instance /\ last_id \in EventId
      /\ ptr \in Nat /\ last_completed \in Nat
  BY <1>1 DEF Init, Begin
<1> QED
  BY <1>2, <1>3 DEF LoopInv, TypeOK

LEMMA NextLoop == LoopInv /\ [Next]_vars => LoopInv'
<1> SUFFICES ASSUME LoopInv, [Next]_vars PROVE LoopInv'
  OBVIOUS
<1> USE DEF LoopInv, arguments
<1>1. ASSUME NEW id \in EventId, Add(id) PROVE LoopInv'
  <2>1. [id |-> id, payload |-> "any", replicas |-> {}] \in Event
    BY DEF Event
  <2>2. events' \in Seq(Event)
    BY <1>1, <2>1, AppendProperties DEF TypeOK, Add, AddEvent
  <2> QED
    BY <1>1, <2>2 DEF TypeOK, Add
<1>2. ASSUME NEW n \in Instance, NEW id \in EventId, Call(n, id) PROVE LoopInv'
  <2>1. Len(events) \in Nat
    BY DEF TypeOK
  <2>2. TypeOK'
    <3>1. /\ events' = events /\ called' = events /\ running' = TRUE
          /\ found' = FALSE /\ derecho_id' = n /\ last_id' = id
          /\ ptr' = 1 /\ last_completed' = 1
      BY <1>2 DEF Call, Begin
    <3>2. running' \in BOOLEAN /\ found' \in BOOLEAN
      BY <3>1
    <3>3. /\ Begin' <= last_completed' /\ last_completed' <= ptr'
          /\ ptr' <= End'
      BY <2>1, <3>1 DEF Begin, End
    <3>4. /\ events' \in Seq(Event) /\ called' \in Seq(Event)
          /\ derecho_id' \in Instance /\ last_id' \in EventId
          /\ ptr' \in Nat /\ last_completed' \in Nat
      BY <3>1 DEF TypeOK
    <3> QED
      BY <3>2, <3>3, <3>4 DEF TypeOK
  <2>3. MarkedSoFar' /\ FoundSoFar' /\ CompletedSoFar'
    BY <1>2, <2>1 DEF MarkedSoFar, FoundSoFar, CompletedSoFar, Call, Begin
  <2> QED
    BY <2>2, <2>3
<1>3. CASE Visit
  <2> DEFINE marked == [called[ptr] EXCEPT !.replicas = @ \cup {derecho_id}]
  <2>1. /\ running /\ ~found /\ ptr \in 1..Len(events)
        /\ Len(events) \in Nat /\ last_completed \in 1..ptr
        /\ MarkedSoFar /\ FoundSoFar /\ CompletedSoFar
        /\ events \in Seq(Event) /\ called \in Seq(Event)
    BY <1>3 DEF TypeOK, Visit, Begin, End
  <2>2. events[ptr] = called[ptr] /\ events[ptr] \in Event
    <3>1. events[ptr] = IF ptr < ptr
                        THEN [called[ptr] EXCEPT !.replicas = @ \cup {derecho_id}]
                        ELSE called[ptr]
      BY <2>1 DEF MarkedSoFar
    <3>2. ~(ptr < ptr)
      BY <2>1
    <3>3. events[ptr] \in Event
      BY <2>1, ElementOfSeq
    <3> QED
      BY <3>1, <3>2, <3>3
  <2>3. [events[ptr] EXCEPT !.replicas = @ \cup {derecho_id}] \in Event
    BY <2>2 DEF Event, TypeOK
  <2>4. events' = [events EXCEPT ![ptr] =
                     [events[ptr] EXCEPT !.replicas = @ \cup {derecho_id}]]
    BY <1>3 DEF Visit
  <2>5. /\ events' \in Seq(Event) /\ Len(events') = Len(events)
        /\ \A i \in 1..Len(events) :
             events'[i] = IF i = ptr
                          THEN [events[ptr] EXCEPT !.replicas = @ \cup {derecho_id}]
                          ELSE events[i]
    BY <2>1, <2>3, <2>4, ExceptSeq
  <2>6. UNCHANGED <<running, derecho_id, last_id, called>>
    BY <1>3 DEF Visit
  <2>7. ptr' = ptr + 1
    BY <1>3 DEF Visit
  <2>8. TypeOK'
    <3>1. last_completed' = ptr + 1 \/ last_completed' = last_completed
      BY <1>3 DEF Visit
    <3>2. found' \in BOOLEAN
      BY <1>3 DEF Visit
    <3> QED
      BY <2>1, <2>5, <2>6, <2>7, <3>1, <3>2 DEF TypeOK, Begin, End
  <2>9. MarkedSoFar'
    <3> DEFINE mark(i) == [called[i] EXCEPT !.replicas = @ \cup {derecho_id}]
    <3>1. /\ Len(events) = Len(called)
          /\ \A i \in 1..Len(called) :
               events[i] = IF i < ptr THEN mark(i) ELSE called[i]
      BY <2>1 DEF MarkedSoFar
    <3>2. ASSUME NEW i \in 1..Len(called)
          PROVE  events'[i] = IF i < ptr + 1 THEN mark(i) ELSE called[i]
      <4>1. i \in Nat /\ i \in 1..Len(events) /\ ptr \in Nat
        BY <2>1, <3>1
      <4>2. CASE i = ptr
        <5>1. events'[i] = mark(i)
          BY <2>2, <2>5, <4>1, <4>2
        <5> QED
          BY <4>1, <4>2, <5>1
      <4>3. CASE i # ptr
        <5>1. events'[i] = events[i]
          BY <2>5, <4>1, <4>3
        <5>2. i < ptr <=> i < ptr + 1
          BY <4>1, <4>3
        <5> HIDE DEF mark
        <5> QED
          BY <3>1, <5>1, <5>2
      <4> QED
        BY <4>2, <4>3
    <3> QED
      BY <2>5, <2>6, <2>7, <3>1, <3>2 DEF MarkedSoFar
  <2>10. FoundSoFar'
    <3>1. found' <=> called[ptr].id = last_id
      BY <1>3, <2>2 DEF Visit
    <3>2. \A i \in 1..(ptr - 1) : called[i].id # last_id
      BY <2>1 DEF FoundSoFar
    <3> QED
      BY <2>1, <2>6, <2>7, <3>1, <3>2 DEF FoundSoFar
  <2>11. CompletedSoFar'
    <3>1. \A i \in 1..(ptr - 1) : events'[i] = events[i]
      BY <2>1, <2>5
    <3>2. CASE Cardinality(events'[ptr].replicas) = NReplicas
      <4>1. last_completed' = ptr + 1
        BY <1>3, <3>2 DEF Visit
      <4> QED
        BY <2>1, <2>7, <3>2, <4>1 DEF CompletedSoFar
    <3>3. CASE Cardinality(events'[ptr].replicas) # NReplicas
      <4>1. last_completed' = last_completed
        BY <1>3, <3>3 DEF Visit
      <4>2. ASSUME NEW i \in last_completed..ptr
            PROVE  Cardinality(events'[i].replicas) # NReplicas
        <5>1. CASE i = ptr
          BY <3>3, <5>1
        <5>2. CASE i \in last_completed..(ptr - 1)
          BY <2>1, <3>1, <5>2 DEF CompletedSoFar
        <5> QED
          BY <2>1, <5>1, <5>2
      <4>3. last_completed > 1
              => Cardinality(events'[last_completed - 1].replicas) = NReplicas
        BY <2>1, <3>1 DEF CompletedSoFar
      <4> QED
        BY <2>1, <2>7, <4>1, <4>2, <4>3 DEF CompletedSoFar
    <3> QED
      BY <3>2, <3>3
  <2> QED
    BY <2>8, <2>9, <2>10, <2>11
<1>4. CASE Return
  <2>1. /\ events \in Seq(Event) /\ Len(events) \in Nat
        /\ last_completed \in 1..(Len(events) + 1)
    BY <1>4 DEF TypeOK, Return, Begin, End
  <2>2. SubSeq(events, last_completed, Len(events)) \in Seq(Event)
    BY <2>1, SubSeqProperties, ElementOfSeq
  <2> QED
    BY <1>4, <2>2 DEF TypeOK, Return
<1>5. CASE UNCHANGED vars
  BY <1>5 DEF vars, TypeOK, Begin, End, MarkedSoFar, FoundSoFar, CompletedSoFar
<1> QED
  BY <1>1, <1>2, <1>3, <1>4, <1>5 DEF Next

----------------------------------------------------------------------------
(* When the loop is over, what it visited is what Visited names, and the   *)
(* range it erases is the one MarkProduced erases.                         *)
LEMMA LoopComputesMarkProduced ==
  ASSUME LoopInv, Return
  PROVE  events' = MarkProduced(called, NReplicas, derecho_id, last_id)
<1> DEFINE len == Len(called)
           last == LastCompleted(called, NReplicas, derecho_id, last_id)
           m == Marked(called, derecho_id, last_id)
<1>1. /\ running /\ (found \/ ptr = End)
      /\ MarkedSoFar /\ FoundSoFar /\ CompletedSoFar
      /\ events' = SubSeq(events, last_completed, Len(events))
      /\ events \in Seq(Event) /\ called \in Seq(Event)
      /\ derecho_id \in Instance
    BY DEF LoopInv, TypeOK, Return
<1>2. /\ len \in Nat /\ Len(events) = len /\ ptr \in 1..(len + 1)
      /\ last_completed \in 1..ptr /\ DOMAIN called = 1..len
      /\ DOMAIN events = 1..len
  <2>1. Len(events) = len /\ len \in Nat
    BY <1>1 DEF MarkedSoFar
  <2> QED
    BY <1>1, <2>1 DEF LoopInv, TypeOK, Begin, End
<1>3. Visited(called, last_id) = 1..(ptr - 1)
  <2>1. ASSUME NEW i \in 1..(ptr - 1) PROVE i \in Visited(called, last_id)
    <3>1. \A j \in 1..(i - 1) : called[j].id # last_id
      BY <1>1, <1>2 DEF FoundSoFar
    <3> QED
      BY <1>2, <3>1 DEF Visited
  <2>2. ASSUME NEW i \in Visited(called, last_id) PROVE i \in 1..(ptr - 1)
    <3>1. i \in 1..len /\ \A j \in 1..(i - 1) : called[j].id # last_id
      BY <1>2 DEF Visited
    <3>2. CASE ptr = len + 1
      BY <1>2, <3>1, <3>2
    <3>3. CASE found
      <4>1. ptr > 1 /\ called[ptr - 1].id = last_id
        BY <1>1, <3>3 DEF FoundSoFar
      <4>2. ~(ptr - 1 \in 1..(i - 1))
        BY <3>1, <4>1
      <4> QED
        BY <1>2, <3>1, <4>1, <4>2
    <3> QED
      BY <1>1, <1>2, <3>2, <3>3 DEF End
  <2> QED
    BY <2>1, <2>2
<1>4. events = m
  <2>1. /\ m \in Seq(Event) /\ Len(m) = len
    BY <1>1, EventsOfTheLoop, MarkedProperties
  <2>2. ASSUME NEW i \in 1..len PROVE events[i] = m[i]
    <3>1. events[i] = IF i < ptr
                      THEN [called[i] EXCEPT !.replicas = @ \cup {derecho_id}]
                      ELSE called[i]
      BY <1>1 DEF MarkedSoFar
    <3>2. i < ptr <=> i \in Visited(called, last_id)
      BY <1>2, <1>3
    <3>3. m[i] = IF i \in Visited(called, last_id)
                 THEN [called[i] EXCEPT !.replicas = @ \cup {derecho_id}]
                 ELSE called[i]
      BY <1>2 DEF Marked
    <3> QED
      BY <3>1, <3>2, <3>3
  <2> HIDE DEF m
  <2> QED
    BY <1>1, <1>2, <2>1, <2>2, SeqEqual
<1>5. Completed(called, NReplicas, derecho_id, last_id)
        = {i \in 1..(ptr - 1) : Cardinality(events[i].replicas) = NReplicas}
  BY <1>3, <1>4 DEF Completed
<1>6. last = last_completed - 1
  <2>1. /\ last \in 0..len
        /\ last # 0 => last \in Completed(called, NReplicas, derecho_id, last_id)
        /\ \A c \in Completed(called, NReplicas, derecho_id, last_id) : c <= last
    <3>1. called \in Events(EventId, {"any"}, Instance)
      BY <1>1, EventsOfTheLoop
    <3> QED
      BY <1>1, <3>1, LastCompletedProperties
  <2> HIDE DEF last
  <2>2. last_completed > 1 => last_completed - 1 <= last
    BY <1>1, <1>2, <1>5, <2>1 DEF CompletedSoFar
  <2>3. last # 0 => ~(last \in last_completed..(ptr - 1)) /\ last \in 1..(ptr - 1)
    BY <1>1, <1>2, <1>5, <2>1 DEF CompletedSoFar
  <2> QED
    BY <1>2, <2>1, <2>2, <2>3
<1>7. MarkProduced(called, NReplicas, derecho_id, last_id) = SubSeq(m, last + 1, len)
  BY DEF MarkProduced
<1> HIDE DEF m, last, len
<1>8. last + 1 = last_completed
  BY <1>2, <1>6
<1> QED
  BY <1>1, <1>2, <1>4, <1>7, <1>8

(* The loop keeps its iterators in the list: last_completed does not pass  *)
(* ptr, and neither passes end() (serializable_objects.hpp:102-122).       *)
THEOREM IteratorsStayInTheList == Spec => []TypeOK
<1>1. LoopInv => TypeOK
  BY DEF LoopInv
<1> QED
  BY <1>1, InitLoop, NextLoop, PTL DEF Spec

(* A call of mark_produced leaves MarkProduced of its own arguments, its   *)
(* list marked up to the first match, or to the end without one, and       *)
(* erased up to the last completed event, for lists of any length.         *)
THEOREM LoopIsMarkProduced == Spec => LoopMarksTheList
<1>1. ASSUME LoopInv, [Next]_vars
      PROVE  /\ ~running /\ running' => called' = events /\ UNCHANGED events
             /\ running => UNCHANGED <<arguments, called>>
             /\ running /\ ~running' =>
                  events' = MarkProduced(called, NReplicas, derecho_id, last_id)
  <2>1. ASSUME NEW id \in EventId, Add(id) PROVE ~running /\ ~running'
    BY <2>1 DEF Add
  <2>2. ASSUME NEW n \in Instance, NEW id \in EventId, Call(n, id)
        PROVE  ~running /\ called' = events /\ UNCHANGED events
    BY <2>2 DEF Call
  <2>3. CASE Visit
    <3>1. running /\ running' /\ UNCHANGED <<arguments, called>>
      BY <2>3 DEF Visit
    <3> QED
      BY <3>1
  <2>4. CASE Return
    <3>1. running /\ UNCHANGED <<arguments, called>>
      BY <2>4 DEF Return
    <3>2. events' = MarkProduced(called, NReplicas, derecho_id, last_id)
      BY <1>1, <2>4, LoopComputesMarkProduced
    <3> QED
      BY <3>1, <3>2
  <2>5. CASE UNCHANGED vars
    BY <2>5 DEF vars
  <2> QED
    BY <1>1, <2>1, <2>2, <2>3, <2>4, <2>5 DEF Next
<1>2. LoopInv /\ [Next]_vars
        => [/\ ~running /\ running' => called' = events /\ UNCHANGED events
            /\ running => UNCHANGED <<arguments, called>>
            /\ running /\ ~running' =>
                 events' = MarkProduced(called, NReplicas, derecho_id, last_id)]_vars
  BY <1>1
<1>3. Spec => []LoopInv
  BY InitLoop, NextLoop, PTL DEF Spec
<1> QED
  BY <1>2, <1>3, PTL DEF Spec, LoopMarksTheList
=============================================================================
