------------------------ MODULE EventListCallsProofs ------------------------
(***************************************************************************)
(* The properties of EventListCalls, for every number of instances, every  *)
(* n_replicas, every chunk and lists of any length.                        *)
(***************************************************************************)
EXTENDS EventListCalls, EventListLemmas

(* The inductive invariant.  That no completed event is left, and that     *)
(* whole ranges of completed events are erased, needs the marks to be      *)
(* nested, and so does what get_events returns.                            *)
Inv == TypeOK /\ MarksNested /\ NoneCompleted

LEMMA EventsOfTheList == Seq(Event) = Events(EventId, {"any"}, Instance)
BY DEF Event, Events

LEMMA InitInv == Init => Inv
BY EmptySeq DEF Init, Inv, TypeOK, MarksNested, NoneCompleted

LEMMA NextInv == Inv /\ [Next]_events => Inv'
<1> SUFFICES ASSUME Inv, [Next]_events PROVE Inv'
  OBVIOUS
<1> USE DEF Inv
<1>1. /\ events \in Events(EventId, {"any"}, Instance)
      /\ Nested(events) /\ Incomplete(events, NReplicas)
  BY EventsOfTheList DEF TypeOK, MarksNested, NoneCompleted, Nested, Incomplete
<1>2. ASSUME NEW id \in EventId, Add(id) PROVE Inv'
  <2> DEFINE new == [id |-> id, payload |-> "any", replicas |-> {}]
  <2>1. new \in Event
    BY DEF Event
  <2>2. /\ events' \in Seq(Event)
        /\ Len(events') = Len(events) + 1
        /\ \A i \in 1..Len(events) : events'[i] = events[i]
        /\ events'[Len(events) + 1] = new
    BY <1>2, <2>1, AppendProperties DEF Add, AddEvent, TypeOK
  <2>3. /\ DOMAIN events = 1..Len(events) /\ DOMAIN events' = 1..(Len(events) + 1)
        /\ Len(events) \in Nat
    BY <2>2 DEF TypeOK
  <2>4. MarksNested'
    BY <2>2, <2>3 DEF MarksNested
  <2>5. NoneCompleted'
    <3>1. Cardinality(new.replicas) < NReplicas
      BY FS_EmptySet, ListAssumption
    <3> QED
      <4> SUFFICES ASSUME NEW i \in 1..(Len(events) + 1)
                   PROVE  Cardinality(events'[i].replicas) < NReplicas
        BY <2>3 DEF NoneCompleted
      <4>1. CASE i \in 1..Len(events)
        BY <2>2, <2>3, <4>1 DEF NoneCompleted
      <4>2. CASE i = Len(events) + 1
        BY <2>2, <3>1, <4>2
      <4> QED
        BY <2>3, <4>1, <4>2
  <2> QED
    BY <2>2, <2>4, <2>5 DEF TypeOK
<1>3. ASSUME NEW id \in EventId, NEW n \in Instance, Mark(n, id) PROVE Inv'
  <2>1. events' = MarkProduced(events, NReplicas, n, id)
    BY <1>3 DEF Mark
  <2>2. events' \in Events(EventId, {"any"}, Instance)
    BY <1>1, <2>1, MarkProducedProperties
  <2>3. Nested(events')
    BY <1>1, <2>1, MarkProducedIsNested
  <2>4. Incomplete(events', NReplicas)
    BY <1>1, <2>1, MarkProducedIsIncomplete, ListAssumption
  <2> QED
    BY <2>2, <2>3, <2>4, EventsOfTheList
       DEF TypeOK, MarksNested, NoneCompleted, Nested, Incomplete
<1>4. CASE UNCHANGED events
  BY <1>4 DEF TypeOK, MarksNested, NoneCompleted
<1> QED
  BY <1>2, <1>3, <1>4 DEF Next

(* The list stays a list of events, the marks of every event are marks of  *)
(* those before it, and no event marked by n_replicas instances stays,     *)
(* whatever calls arrive in whatever order (mark_produced).                *)
THEOREM ListInvariant == Spec => [](TypeOK /\ MarksNested /\ NoneCompleted)
<1>1. Spec => []Inv
  BY InitInv, NextInv, PTL DEF Spec
<1> QED
  BY <1>1 DEF Inv

(* Its three parts by themselves: the list is a list of events, ...        *)
THEOREM ListType == Spec => []TypeOK
BY ListInvariant, PTL

(* ... an instance that marked an event marked all that is before it, so   *)
(* that get_events may stop at the first unmarked one, ...                 *)
THEOREM MarksAreNested == Spec => []MarksNested
BY ListInvariant, PTL

(* ... and a completed event does not outlive the call that completed it.  *)
THEOREM CompletedLeave == Spec => []NoneCompleted
BY ListInvariant, PTL

(* mark_produced erases completed events only, all of them completed by    *)
(* its caller.                                                             *)
THEOREM ErasesCompletedOnly == Spec => OnlyCompletedErased
<1> DEFINE Erasure ==
      \A n \in Instance, id \in EventId :
        Mark(n, id) =>
          \A i \in 1..(Len(events) - Len(events')) :
             Cardinality(events[i].replicas \cup {n}) = NReplicas
<1>1. Inv => Erasure
  <2> SUFFICES ASSUME Inv, NEW n \in Instance, NEW id \in EventId, Mark(n, id),
                      NEW i \in 1..(Len(events) - Len(events'))
               PROVE  Cardinality(events[i].replicas \cup {n}) = NReplicas
    OBVIOUS
  <2> DEFINE k == LastCompleted(events, NReplicas, n, id)
  <2>1. /\ events \in Events(EventId, {"any"}, Instance)
        /\ Nested(events) /\ Incomplete(events, NReplicas)
    BY EventsOfTheList
       DEF Inv, TypeOK, MarksNested, NoneCompleted, Nested, Incomplete
  <2>2. Len(events') = Len(events) - k
    BY <2>1, MarkProducedProperties DEF Mark
  <2>3. Len(events) \in Nat /\ k \in 0..Len(events)
    <3>1. Len(events) \in Nat
      BY DEF Inv, TypeOK
    <3>2. k \in 0..Len(events)
      BY <2>1, LastCompletedProperties
    <3> QED
      BY <3>1, <3>2
  <2>4. i \in 1..k
    BY <2>2, <2>3
  <2> QED
    BY <2>1, <2>4, ErasedAreCompleted, ListAssumption
<1>2. Spec => []Inv
  BY InitInv, NextInv, PTL DEF Spec
<1>3. Inv => [Erasure]_events
  BY <1>1
<1>4. [](Inv) => [][Erasure]_events
  BY <1>3, PTL
<1> QED
  BY <1>2, <1>4 DEF OnlyCompletedErased

(* get_events gives an instance the oldest events it has not marked,       *)
(* neither more nor fewer than fit in its chunk.                           *)
THEOREM QueriesAreExact == Spec => []GetEventsExact
<1>1. Inv => GetEventsExact
  <2> SUFFICES ASSUME Inv, NEW n \in Instance
               PROVE
        LET result == GetEvents(events, EventChunk, n)
            unmarked == {i \in DOMAIN events : n \notin events[i].replicas}
        IN  /\ Len(result) = Max({0, Min({EventChunk, Cardinality(unmarked)})})
            /\ \A k \in 1..Len(result) :
                 \E i \in unmarked :
                    /\ result[k] = events[i]
                    /\ Cardinality({j \in unmarked : j < i}) = k - 1
    BY DEF GetEventsExact
  <2> DEFINE unmarked == {i \in DOMAIN events : n \notin events[i].replicas}
             first == Find(events, unmarked)
             result == GetEvents(events, EventChunk, n)
  <2>1. events \in Seq(Event) /\ Len(events) \in Nat
        /\ DOMAIN events = 1..Len(events)
    BY DEF Inv, TypeOK
  <2>2. /\ first \in 1..(Len(events) + 1)
        /\ \A i \in unmarked : first <= i
        /\ first # Len(events) + 1 => first \in unmarked
    BY <2>1, FindProperties
  <2>3. unmarked = first..Len(events)
    <3>1. unmarked \subseteq first..Len(events)
      BY <2>1, <2>2
    <3>2. ASSUME NEW i \in first..Len(events) PROVE i \in unmarked
      <4>1. first \in unmarked /\ i \in DOMAIN events
        <5> HIDE DEF first, unmarked
        <5> QED
          BY <2>1, <2>2
      <4>2. first \in DOMAIN events /\ n \notin events[first].replicas
        BY <4>1
      <4>3. i = first \/ first < i
        <5> HIDE DEF first
        <5> QED
          BY <2>2, <2>1
      <4>4. first < i => events[i].replicas \subseteq events[first].replicas
        <5> HIDE DEF first
        <5> QED
          BY <4>1, <4>2 DEF Inv, MarksNested
      <4> QED
        BY <4>1, <4>2, <4>3, <4>4
    <3> QED
      BY <3>1, <3>2
  <2>4. Cardinality(unmarked) = Len(events) - first + 1
    <3> HIDE DEF first, unmarked
    <3>1. first \in Int /\ Len(events) \in Int
          /\ (first > Len(events) => Len(events) - first + 1 = 0)
      BY <2>1, <2>2
    <3>2. Cardinality(first..Len(events))
            = IF first > Len(events) THEN 0 ELSE Len(events) - first + 1
      BY <3>1, FS_Interval
    <3> QED
      BY <2>3, <3>1, <3>2
  <2>5. result = Chunk(events, EventChunk, first)
    BY DEF GetEvents
  <2>6. /\ Len(result) = Max({0, Min({EventChunk, Len(events) - first + 1})})
        /\ \A k \in 1..Len(result) :
             /\ first + k - 1 \in 1..Len(events)
             /\ result[k] = events[first + k - 1]
    <3> HIDE DEF first, result, unmarked
    <3>0. EventChunk \in Int
      BY ListAssumption
    <3>1. EventChunk \in Int /\ first \in 1..(Len(events) + 1)
      BY <2>2, <3>0
    <3>2. /\ Len(Chunk(events, EventChunk, first))
               = Max({0, Min({EventChunk, Len(events) - first + 1})})
          /\ \A k \in 1..Len(Chunk(events, EventChunk, first)) :
               /\ first + k - 1 \in 1..Len(events)
               /\ Chunk(events, EventChunk, first)[k] = events[first + k - 1]
      <4>1. /\ events \in Seq(Event)
            /\ EventChunk \in Int
            /\ first \in 1..(Len(events) + 1)
        BY <2>1, <3>1
      <4>2. Len(Chunk(events, EventChunk, first))
              = ChunkLength(events, EventChunk, first)
        BY ONLY <4>1, ChunkProperties
      <4>4. ChunkLength(events, EventChunk, first)
              = Max({0, Min({EventChunk, Len(events) - first + 1})})
        BY DEF ChunkLength
      <4>3. ASSUME NEW k \in 1..Len(Chunk(events, EventChunk, first))
            PROVE  /\ first + k - 1 \in 1..Len(events)
                   /\ Chunk(events, EventChunk, first)[k] = events[first + k - 1]
        BY ONLY <4>1, <4>3, ChunkProperties
      <4> QED
        BY <4>2, <4>3, <4>4
    <3> QED
      BY <2>5, <3>2
  <2>7. ASSUME NEW k \in 1..Len(result)
        PROVE  \E i \in unmarked :
                 /\ result[k] = events[i]
                 /\ Cardinality({j \in unmarked : j < i}) = k - 1
    <3> DEFINE i == first + k - 1
    <3> HIDE DEF result, first, unmarked
    <3>0. k \in Nat /\ k >= 1 /\ first \in Nat /\ i \in 1..Len(events)
          /\ result[k] = events[i]
      <4>1. k \in Nat /\ k >= 1
        BY <2>7
      <4>2. i \in 1..Len(events) /\ result[k] = events[i]
        BY <2>6, <2>7
      <4> QED
        BY <2>2, <4>1, <4>2
    <3>1. i \in unmarked
      BY <2>1, <2>3, <3>0
    <3>2. {j \in unmarked : j < i} = first..(i - 1)
      <4>1. \A j : j \in unmarked /\ j < i <=> j \in first..(i - 1)
        BY <2>1, <2>3, <3>0
      <4> QED
        BY <4>1
    <3>3. Cardinality(first..(i - 1)) = k - 1
      <4>1. first \in Int /\ i - 1 \in Int /\ (i - 1) - first + 1 = k - 1
            /\ (first > i - 1 => k - 1 = 0)
        BY <3>0
      <4> HIDE DEF i
      <4>2. Cardinality(first..(i - 1))
              = IF first > i - 1 THEN 0 ELSE (i - 1) - first + 1
        BY <4>1, FS_Interval
      <4> QED
        BY <4>1, <4>2
    <3> QED
      BY <3>0, <3>1, <3>2, <3>3
  <2> QED
    BY <2>4, <2>6, <2>7
<1>2. Spec => []Inv
  BY InitInv, NextInv, PTL DEF Spec
<1> QED
  BY <1>1, <1>2, PTL
=============================================================================
