------------------------- MODULE KdsyncSafetyProofs -------------------------
(***************************************************************************)
(* The safety of a group of kdsync instances, for every number of          *)
(* instances, every chunk and any number of records, when no two clusters  *)
(* replicate the same topic.                                               *)
(***************************************************************************)
EXTENDS KdsyncSafety, KdsyncTypeProofs

(* In a log without repetitions an id has one place, ...                   *)
Distinct(contents) ==
  \A k, l \in DOMAIN contents : contents[k].id = contents[l].id => k = l

LEMMA PlaceIsUnique ==
  ASSUME NEW contents, Distinct(contents), NEW k \in DOMAIN contents
  PROVE  IsPlaced(contents, contents[k].id) /\ Place(contents, contents[k].id) = k
BY DEF Distinct, IsPlaced, Place

(* The place of an id holds that id.                                       *)
LEMMA PlaceIsThere ==
  ASSUME NEW contents, NEW id, IsPlaced(contents, id)
  PROVE  /\ Place(contents, id) \in DOMAIN contents
         /\ contents[Place(contents, id)].id = id
BY DEF IsPlaced, Place

(* ... and keeps it when the log grows.                                    *)
LEMMA PlaceStays ==
  ASSUME NEW S, NEW contents \in Seq(S), NEW content \in S,
         Distinct(Append(contents, content)), NEW id, IsPlaced(contents, id)
  PROVE  /\ IsPlaced(Append(contents, content), id)
         /\ Place(Append(contents, content), id) = Place(contents, id)
<1> DEFINE k == Place(contents, id)
           longer == Append(contents, content)
<1>1. k \in 1..Len(contents) /\ contents[k].id = id /\ Len(contents) \in Nat
  BY PlaceIsThere
<1>2. longer \in Seq(S) /\ Len(longer) = Len(contents) + 1
      /\ \A i \in 1..Len(contents) : longer[i] = contents[i]
  BY AppendProperties
<1> HIDE DEF k, longer
<1>3. k \in DOMAIN longer /\ longer[k].id = id
  BY <1>1, <1>2
<1>4. Distinct(longer)
  BY DEF longer
<1>5. IsPlaced(longer, longer[k].id) /\ Place(longer, longer[k].id) = k
  BY <1>3, <1>4, PlaceIsUnique
<1> QED
  BY <1>3, <1>5 DEF k, longer

----------------------------------------------------------------------------
(* What the parts of the invariant depend on.                              *)
LEMMA EventsOnceUnchanged ==
  ASSUME EventsOnce, UNCHANGED <<position, polled, outbox, log>>
  PROVE  EventsOnce'
BY DEF EventsOnce, EventIsNew, Issued, AddsInOutbox

LEMMA LogFollowsOrderUnchanged ==
  ASSUME LogFollowsOrder, UNCHANGED <<order, log, logged>>
  PROVE  LogFollowsOrder'
BY DEF LogFollowsOrder, LogLen

LEMMA ListsAreSegmentsUnchanged ==
  ASSUME ListsAreSegments, UNCHANGED <<events, delivered, log, logged>>
  PROVE  ListsAreSegments'
BY DEF ListsAreSegments, Forgotten, AddedCount, LogLen

LEMMA CopiesAreAPrefixUnchanged ==
  ASSUME CopiesAreAPrefix,
         UNCHANGED <<global, batch, last, pc, delivered, log, logged>>
  PROVE  CopiesAreAPrefix'
BY DEF CopiesAreAPrefix, Copied, AddedCount, LogLen

LEMMA MarksArePlacedUnchanged ==
  ASSUME MarksArePlaced, UNCHANGED <<order, outbox, log, logged>>
  PROVE  MarksArePlaced'
BY DEF MarksArePlaced, MarksInOrder, MarksInOutbox, AddsInOutbox, OrderPlace,
       LogLen

LEMMA MarksAreCopiedUnchanged ==
  ASSUME MarksAreCopied, UNCHANGED <<order, outbox, global, log>>,
         \A n \in Node : pc'[n] = "mark" => pc[n] = "mark"
  PROVE  MarksAreCopied'
BY DEF MarksAreCopied, MarkIsCopied, MarksInOrder, MarksInOutbox, AddsInOutbox,
       Copied

LEMMA MarksMoveForwardUnchanged ==
  ASSUME MarksMoveForward, UNCHANGED <<order, outbox, log>>
  PROVE  MarksMoveForward'
BY DEF MarksMoveForward, MarksInOrder, MarksInOutbox, AddsInOutbox,
       OrderPlace, OutboxPlace

LEMMA LogInvariantUnchanged ==
  ASSUME LogInvariant, TypeOK',
         UNCHANGED <<position, polled, outbox, order, delivered, events, log, logged>>
  PROVE  LogInvariant'
BY EventsOnceUnchanged, LogFollowsOrderUnchanged, ListsAreSegmentsUnchanged,
   MarksArePlacedUnchanged, MarksMoveForwardUnchanged DEF LogInvariant

LEMMA MarksAreAheadUnchanged ==
  ASSUME MarksAreAhead,
         UNCHANGED <<events, delivered, order, outbox, global, log, logged>>,
         \A n \in Node : pc'[n] = "mark" => pc[n] = "mark"
  PROVE  MarksAreAhead'
BY DEF MarksAreAhead, IsAhead, MarksInOrder, MarksInOutbox, AddsInOutbox,
       OrderPlace, OutboxPlace, Copied, Forgotten, AddedCount, LogLen

(* What holds a number of things holds them at 1, 2, ... of them.          *)
LEMMA Domains ==
  ASSUME TypeOK, NEW n \in Node
  PROVE  /\ DOMAIN log = 1..Len(log) /\ DOMAIN order = 1..Len(order)
         /\ DOMAIN outbox[n] = 1..Len(outbox[n])
         /\ DOMAIN events[n] = 1..Len(events[n])
         /\ DOMAIN batch[n] = 1..Len(batch[n])
         /\ DOMAIN global[n] = 1..Copied(n)
         /\ Len(batch[n]) \in Nat /\ Len(outbox[n]) \in Nat
BY DEF TypeOK, Copied

(* The numbers of the invariant are numbers.                               *)
LEMMA Counts ==
  ASSUME TypeOK, LogFollowsOrder, ListsAreSegments, NEW n \in Node
  PROVE  /\ delivered[n] \in 0..Len(order)
         /\ AddedCount(n) \in 0..Len(log)
         /\ Len(log) \in Nat /\ Len(order) \in Nat
         /\ Copied(n) \in Nat
         /\ Len(events[n]) \in Nat
         /\ Forgotten(n) \in Nat
         /\ Forgotten(n) + Len(events[n]) = AddedCount(n)
<1>1. /\ Len(log) \in Nat /\ Len(order) \in Nat /\ Copied(n) \in Nat
      /\ Len(events[n]) \in Nat /\ delivered[n] \in 0..Len(order)
  BY DEF TypeOK, Copied
<1>2. \A i \in 0..Len(order) : LogLen(i) \in Nat
  BY <1>1, ElementOfSeq DEF TypeOK, LogFollowsOrder, LogLen
<1>3. AddedCount(n) \in Nat /\ AddedCount(n) <= Len(log)
  BY <1>1, <1>2 DEF AddedCount, LogFollowsOrder
<1> QED
  BY <1>1, <1>3 DEF ListsAreSegments, Forgotten

----------------------------------------------------------------------------
(* The steps.  kafka_polling reads a record nobody has read before.        *)
LEMMA KafkaPollSafe ==
  ASSUME UniqueIds, LogInvariant, NEW n \in Node, NEW p \in Partition,
         KafkaPoll(n, p)
  PROVE  EventsOnce'
<1> DEFINE id == <<Topic[n], p, position[n][p]>>
<1>1. position[n][p] \in Nat /\ position[n][p] < Records[n] /\ Records[n] \in Nat
  BY SettingsAssumption DEF LogInvariant, TypeOK, KafkaPoll
<1>2. id \in Id(n) /\ id \notin Issued(n)
  BY <1>1 DEF Id, Issued
<1>3. /\ position' = [position EXCEPT ![n][p] = @ + 1]
      /\ position'[n] = [position[n] EXCEPT ![p] = @ + 1]
      /\ \A m \in Node : m # n => position'[m] = position[m]
  BY DEF LogInvariant, TypeOK, KafkaPoll
<1>4. \A m \in Node : Issued(m) \subseteq Issued(m)'
  <2> SUFFICES ASSUME NEW m \in Node, NEW x \in Issued(m) PROVE x \in Issued(m)'
    OBVIOUS
  <2>1. x \in Id(m) /\ x[3] < position[m][x[2]] /\ x[2] \in Partition
        /\ x[3] \in Nat
    <3>1. x \in Id(m) /\ x[3] < position[m][x[2]]
      BY DEF Issued
    <3>2. Records[m] \in Nat
      BY SettingsAssumption
    <3> QED
      BY <3>1, <3>2 DEF Id
  <2>2. position'[m][x[2]] \in Nat /\ position'[m][x[2]] >= position[m][x[2]]
        /\ position[m][x[2]] \in Nat
    <3> DEFINE q == x[2]
    <3>1. q \in Partition
      BY <2>1
    <3> HIDE DEF q
    <3>2. position[m] \in [Partition -> Nat] /\ position[m][q] \in Nat
      BY <3>1 DEF LogInvariant, TypeOK
    <3>3. \/ position'[m][q] = position[m][q]
          \/ position'[m][q] = position[m][q] + 1
      BY <1>3, <3>1, <3>2
    <3> QED
      BY <3>2, <3>3 DEF q
  <2>3. x[3] < position'[m][x[2]]
    BY <2>1, <2>2
  <2> QED
    BY <2>1, <2>3 DEF Issued
<1>5. id \in Issued(n)'
  <2>1. position'[n][p] = position[n][p] + 1
    BY <1>3 DEF LogInvariant, TypeOK
  <2> QED
    BY <1>1, <1>2, <2>1 DEF Issued
<1>6. \A k \in DOMAIN log : log[k].id # id
  <2> SUFFICES ASSUME NEW k \in DOMAIN log, log[k].id = id PROVE FALSE
    OBVIOUS
  <2>1. PICK m \in Node : id \in Issued(m)
    BY DEF LogInvariant, EventsOnce
  <2>2. m = n
    BY <1>2, <2>1 DEF Issued, UniqueIds
  <2> QED
    BY <1>2, <2>1, <2>2
<1>7. \A j \in AddsInOutbox(n) : outbox[n][j].event.id # id
  BY <1>2 DEF LogInvariant, EventsOnce, EventIsNew
<1>8. /\ polled[n] = Nil
      /\ polled' = [polled EXCEPT ![n] = NewEvent(n, p, position[n][p])]
      /\ NewEvent(n, p, position[n][p]).id = id
      /\ NewEvent(n, p, position[n][p]).replicas = {}
  BY DEF KafkaPoll, NewEvent
<1>9. UNCHANGED <<outbox, log>>
  BY DEF KafkaPoll, multicast, history
<1> HIDE DEF id
<1>10. \A m \in Node : AddsInOutbox(m)' = AddsInOutbox(m)
  BY <1>9 DEF AddsInOutbox
<1>11. \A k \in DOMAIN log' : \E m \in Node : log'[k].id \in Issued(m)'
  BY <1>4, <1>9 DEF LogInvariant, EventsOnce
<1>12. \A k, l \in DOMAIN log' : log'[k].id = log'[l].id => k = l
  BY <1>9 DEF LogInvariant, EventsOnce
<1>13. ASSUME NEW m \in Node
       PROVE  /\ \A j \in AddsInOutbox(m)' : EventIsNew(m, outbox[m][j].event)'
              /\ \A i, j \in AddsInOutbox(m)' :
                   outbox'[m][i].event.id = outbox'[m][j].event.id => i = j
  <2>1. /\ \A j \in AddsInOutbox(m) : EventIsNew(m, outbox[m][j].event)
        /\ \A i, j \in AddsInOutbox(m) :
             outbox[m][i].event.id = outbox[m][j].event.id => i = j
    BY DEF LogInvariant, EventsOnce
  <2>2. ASSUME NEW j \in AddsInOutbox(m) PROVE EventIsNew(m, outbox[m][j].event)'
    BY <1>4, <1>9, <2>1 DEF EventIsNew
  <2> QED
    BY <1>9, <1>10, <2>1, <2>2
<1>14. ASSUME NEW m \in Node, polled'[m] # Nil
       PROVE  /\ EventIsNew(m, polled[m])'
              /\ \A j \in AddsInOutbox(m)' :
                   outbox'[m][j].event.id # polled'[m].id
  <2>1. CASE m = n
    <3>1. polled'[n] = NewEvent(n, p, position[n][p])
      BY <1>8 DEF LogInvariant, TypeOK
    <3>2. polled'[n].id = id /\ polled'[n].replicas = {}
      BY <1>8, <3>1
    <3>3. EventIsNew(n, polled[n])'
      BY <1>5, <1>6, <1>9, <3>2 DEF EventIsNew
    <3>4. \A j \in AddsInOutbox(n)' : outbox'[n][j].event.id # polled'[n].id
      BY <1>7, <1>9, <1>10, <3>2
    <3> QED
      BY <2>1, <3>3, <3>4
  <2>2. CASE m # n
    <3>1. polled'[m] = polled[m]
      BY <1>8, <2>2 DEF LogInvariant, TypeOK
    <3>2. /\ EventIsNew(m, polled[m])
          /\ \A j \in AddsInOutbox(m) : outbox[m][j].event.id # polled[m].id
      BY <1>14, <3>1 DEF LogInvariant, EventsOnce
    <3>3. EventIsNew(m, polled[m])'
      BY <1>4, <1>9, <3>1, <3>2 DEF EventIsNew
    <3> QED
      BY <1>9, <1>10, <3>1, <3>2, <3>3
  <2> QED
    BY <2>1, <2>2
<1> QED
  BY <1>11, <1>12, <1>13, <1>14 DEF EventsOnce

(* get_events_from finds the cursor where the list holds it, or starts at  *)
(* the first event when it was the last one to be forgotten.               *)
LEMMA CursorInTheList ==
  ASSUME LogInvariant, NEW n \in Node, NEW event_chunk,
         NEW id, IsPlaced(log, id), NEW p, p = Place(log, id),
         Forgotten(n) <= p, p <= AddedCount(n)
  PROVE  GetEventsFrom(events[n], event_chunk, id)
           = Chunk(events[n], event_chunk, p - Forgotten(n) + 1)
<1>0. PICK b, list : b = Forgotten(n) /\ list = events[n]
  OBVIOUS
<1>1. /\ b \in Nat /\ Len(list) \in Nat /\ b + Len(list) = AddedCount(n)
      /\ AddedCount(n) <= Len(log) /\ Len(log) \in Nat /\ AddedCount(n) \in Nat
  BY <1>0, Counts DEF LogInvariant
<1>2. /\ list \in Seq(Event) /\ DOMAIN list = 1..Len(list)
      /\ DOMAIN log = 1..Len(log)
  BY <1>0 DEF LogInvariant, TypeOK
<1>3. p \in DOMAIN log /\ log[p].id = id /\ p \in Nat
  BY <1>2, PlaceIsThere
<1> DEFINE matching == {j \in DOMAIN list : list[j].id = id}
           found == Find(list, matching)
           first == IF found = Len(list) + 1 THEN 1 ELSE found + 1
<1>4. ASSUME NEW j \in 1..Len(list) PROVE list[j].id = id <=> b + j = p
  <2>1. list[j].id = log[b + j].id
    <3>1. Content(list[j]) = log[b + j]
      BY <1>0, <1>2 DEF LogInvariant, ListsAreSegments
    <3>2. Content(list[j]).id = list[j].id
      BY DEF Content
    <3> QED
      BY <3>1, <3>2
  <2>2. b + j \in DOMAIN log
    BY <1>1, <1>2
  <2> QED
    BY <1>3, <2>1, <2>2 DEF LogInvariant, EventsOnce
<1>5. /\ found \in 1..(Len(list) + 1)
      /\ \A j \in matching : found <= j
      /\ found # Len(list) + 1 => found \in matching
  <2>1. matching \subseteq 1..Len(list)
    BY <1>2
  <2> QED
    BY <1>2, <2>1, FindProperties
<1>6. \A j \in 1..Len(list) : j \in matching <=> b + j = p
  BY <1>2, <1>4
<1>7. first = p - b + 1
  <2> HIDE DEF found, matching
  <2>1. CASE p = b
    <3>1. found \notin matching \/ found = Len(list) + 1
      BY <1>1, <1>5, <1>6, <2>1
    <3> QED
      BY <1>1, <1>5, <2>1, <3>1
  <2>2. CASE p # b
    <3>1. p - b \in 1..Len(list) /\ b + (p - b) = p
      BY <1>0, <1>1, <1>3, <2>2
    <3>2. p - b \in matching
      BY <1>6, <3>1
    <3>3. found <= p - b /\ found # Len(list) + 1
      BY <1>1, <1>5, <3>1, <3>2
    <3>4. found \in matching /\ found \in 1..Len(list)
      BY <1>1, <1>5, <3>3
    <3>5. b + found = p
      BY <1>6, <3>4
    <3> QED
      BY <1>1, <3>3, <3>4, <3>5
  <2> QED
    BY <2>1, <2>2
<1>8. GetEventsFrom(list, event_chunk, id) = Chunk(list, event_chunk, first)
  BY DEF GetEventsFrom
<1> HIDE DEF first
<1> QED
  BY <1>0, <1>7, <1>8

(* The events of list follow place c of the log, in what n has received.   *)
FollowsPlace(list, n, c) ==
  \A k \in 1..Len(list) : /\ c + k <= AddedCount(n)
                          /\ Content(list[k]) = log[c + k]

(* A reply is the part of the log that follows its place.                  *)
LEMMA ChunkOfTheLog ==
  ASSUME LogInvariant, NEW n \in Node, NEW event_chunk \in Int,
         NEW first \in 1..(Len(events[n]) + 1),
         NEW c, c = Forgotten(n) + first - 1,
         NEW result, result = Chunk(events[n], event_chunk, first)
  PROVE  result \in Seq(Event) /\ c \in Nat /\ FollowsPlace(result, n, c)
<1>0. PICK b, list : b = Forgotten(n) /\ list = events[n]
  OBVIOUS
<1>1. /\ b \in Nat /\ Len(list) \in Nat /\ b + Len(list) = AddedCount(n)
      /\ list \in Seq(Event) /\ DOMAIN list = 1..Len(list)
  BY <1>0, Counts DEF LogInvariant, TypeOK
<1>2. /\ result \in Seq(Event)
      /\ \A k \in 1..Len(result) : /\ first + k - 1 \in 1..Len(list)
                                   /\ result[k] = list[first + k - 1]
  <2>1. first \in 1..(Len(list) + 1) /\ result = Chunk(list, event_chunk, first)
    BY <1>0
  <2>2. result \in Seq(Event)
    BY ONLY event_chunk \in Int, <1>1, <2>1, ChunkProperties
  <2>3. ASSUME NEW k \in 1..Len(result)
        PROVE  first + k - 1 \in 1..Len(list) /\ result[k] = list[first + k - 1]
    BY ONLY event_chunk \in Int, <1>1, <2>1, <2>3, ChunkProperties
  <2> QED
    BY <2>2, <2>3
<1>3. c \in Nat /\ first \in Nat
  BY <1>0, <1>1
<1>4. ASSUME NEW k \in 1..Len(result)
      PROVE  c + k <= AddedCount(n) /\ Content(result[k]) = log[c + k]
  <2>1. PICK l : l = first + k - 1
    OBVIOUS
  <2>2. k \in Nat /\ l \in 1..Len(list) /\ result[k] = list[l]
    BY <1>2, <2>1
  <2>3. b + l = c + k
    BY <1>0, <1>1, <1>3, <2>1, <2>2
  <2>4. Content(list[l]) = log[b + l]
    BY <1>0, <1>1, <2>2 DEF LogInvariant, ListsAreSegments
  <2> QED
    BY <1>1, <2>2, <2>3, <2>4
<1> QED
  BY <1>2, <1>3, <1>4 DEF FollowsPlace

(* A query on the own list starts behind the events copied so far.         *)
LEMMA QueryStarts ==
  ASSUME SafetyInvariant, NEW n \in Node, pc[n] = "query"
  PROVE  /\ QueryResult(n) =
              Chunk(events[n], EventChunk[n], Copied(n) - Forgotten(n) + 1)
         /\ Forgotten(n) <= Copied(n) /\ Copied(n) <= AddedCount(n)
         /\ last[n] # Nil => Copied(n) > 0 /\ last[n] = log[Copied(n)].id
<1> DEFINE b == Forgotten(n)
           list == events[n]
<1>1. /\ Copied(n) \in Nat /\ b \in Nat /\ Len(list) \in Nat
      /\ b + Len(list) = AddedCount(n) /\ AddedCount(n) <= Len(log)
      /\ Len(log) \in Nat
  BY Counts DEF SafetyInvariant, LogInvariant
<1>2. /\ list \in Seq(Event) /\ DOMAIN list = 1..Len(list)
      /\ EventChunk[n] \in Int
  BY SettingsAssumption DEF SafetyInvariant, LogInvariant, TypeOK
<1>3. \A j \in 1..Len(list) : Content(list[j]) = log[b + j]
  BY <1>2 DEF SafetyInvariant, LogInvariant, ListsAreSegments
<1>4. b <= Copied(n)
  BY <1>1 DEF SafetyInvariant, LogInvariant, MarksAreAhead, IsAhead
<1>5. Copied(n) <= AddedCount(n)
  <2>1. Len(batch[n]) \in Nat
    BY DEF SafetyInvariant, LogInvariant, TypeOK
  <2> QED
    BY <1>1, <2>1 DEF SafetyInvariant, LogInvariant, CopiesAreAPrefix
<1>7. /\ last[n] = Nil => Copied(n) = 0
      /\ last[n] # Nil => Copied(n) > 0 /\ last[n] = log[Copied(n)].id
  <2>1. \/ last[n] = Nil /\ Copied(n) = 0
        \/ Copied(n) > 0 /\ last[n] = log[Copied(n)].id
    BY DEF SafetyInvariant, LogInvariant, CopiesAreAPrefix
  <2>2. Copied(n) > 0 => log[Copied(n)].id # Nil
    <3>1. Copied(n) > 0 => Copied(n) \in 1..Len(log)
      BY <1>1, <1>5
    <3>2. Copied(n) > 0 => log[Copied(n)] \in Record
      BY <3>1, ElementOfSeq DEF SafetyInvariant, LogInvariant, TypeOK
    <3> QED
      BY <3>2, NilAssumption DEF Record
  <2> QED
    BY <2>1, <2>2
<1>6. QueryResult(n) = Chunk(list, EventChunk[n], Copied(n) - b + 1)
  <2>1. CASE last[n] = Nil
    <3> DEFINE matching == {j \in DOMAIN list : n \notin list[j].replicas}
               first == Find(list, matching)
    <3>1. \A j \in 1..Len(list) : n \notin list[j].replicas
      <4> SUFFICES ASSUME NEW j \in 1..Len(list), n \in list[j].replicas
                   PROVE  FALSE
        OBVIOUS
      <4>1. b + j < Copied(n) + 1
        BY <1>2 DEF SafetyInvariant, LogInvariant, MarksAreAhead, IsAhead
      <4> QED
        BY <1>1, <1>7, <2>1, <4>1
    <3>2. matching = 1..Len(list)
      BY <1>2, <3>1
    <3>3. /\ first \in 1..(Len(list) + 1)
          /\ \A j \in matching : first <= j
      BY <1>2, <3>2, FindProperties
    <3>4. first = 1
      <4> HIDE DEF first, matching
      <4>1. Len(list) = 0 \/ 1 \in matching
        BY <1>1, <3>2
      <4> QED
        BY <1>1, <3>3, <4>1
    <3>5. QueryResult(n) = Chunk(list, EventChunk[n], first)
      BY <2>1 DEF QueryResult, QueryReply, GetEvents
    <3>6. Copied(n) - b + 1 = 1
      BY <1>1, <1>4, <1>7, <2>1
    <3> HIDE DEF first
    <3> QED
      BY <3>4, <3>5, <3>6
  <2>2. CASE last[n] # Nil
    <3>1. Copied(n) \in DOMAIN log
      <4>1. DOMAIN log = 1..Len(log)
        BY DEF SafetyInvariant, LogInvariant, TypeOK
      <4> QED
        BY <1>1, <1>5, <1>7, <2>2, <4>1
    <3>2. IsPlaced(log, last[n]) /\ Place(log, last[n]) = Copied(n)
      <4>1. Distinct(log)
        BY DEF SafetyInvariant, LogInvariant, EventsOnce, Distinct
      <4> QED
        BY <1>7, <2>2, <3>1, <4>1, PlaceIsUnique
    <3>3. GetEventsFrom(list, EventChunk[n], last[n])
            = Chunk(list, EventChunk[n], Copied(n) - b + 1)
      BY <1>4, <1>5, <3>2, CursorInTheList DEF SafetyInvariant
    <3> QED
      BY <2>2, <3>3 DEF QueryResult, QueryReply
  <2> QED
    BY <2>1, <2>2
<1> QED
  BY <1>4, <1>5, <1>6, <1>7

(* ... and returns what follows them.                                      *)
LEMMA QueryGoesOn ==
  ASSUME SafetyInvariant, NEW n \in Node, pc[n] = "query"
  PROVE  /\ QueryResult(n) \in Seq(Event)
         /\ Copied(n) + Len(QueryResult(n)) <= AddedCount(n)
         /\ \A k \in 1..Len(QueryResult(n)) :
              Content(QueryResult(n)[k]) = log[Copied(n) + k]
<1>1. PICK first, result, c :
        /\ first = Copied(n) - Forgotten(n) + 1 /\ c = Copied(n)
        /\ result = Chunk(events[n], EventChunk[n], first)
  OBVIOUS
<1>2. /\ Forgotten(n) \in Nat /\ Len(events[n]) \in Nat /\ Copied(n) \in Nat
      /\ Forgotten(n) + Len(events[n]) = AddedCount(n)
  BY Counts DEF SafetyInvariant, LogInvariant
<1>3. /\ Forgotten(n) <= Copied(n) /\ Copied(n) <= AddedCount(n)
      /\ QueryResult(n) = result
  BY <1>1, QueryStarts
<1>4. /\ first \in 1..(Len(events[n]) + 1) /\ EventChunk[n] \in Int
      /\ c = Forgotten(n) + first - 1
  BY <1>1, <1>2, <1>3, SettingsAssumption
<1>5. /\ result \in Seq(Event)
      /\ \A k \in 1..Len(result) : /\ c + k <= AddedCount(n)
                                   /\ Content(result[k]) = log[c + k]
  <2>1. LogInvariant
    BY DEF SafetyInvariant
  <2>2. result \in Seq(Event) /\ FollowsPlace(result, n, c)
    BY ONLY <1>1, <1>4, <2>1, n \in Node, ChunkOfTheLog
  <2> QED
    BY <2>2 DEF FollowsPlace
<1>6. Copied(n) + Len(result) <= AddedCount(n)
  <2>1. Len(result) \in Nat
    BY <1>5
  <2>2. Len(result) # 0 => Len(result) \in 1..Len(result)
    BY <2>1
  <2> QED
    BY <1>1, <1>2, <1>3, <1>5, <2>1, <2>2
<1> QED
  BY <1>1, <1>3, <1>5, <1>6

(* derecho_polling gets its next reply, ...                                *)
LEMMA QueryEventsSafe ==
  ASSUME SafetyInvariant, NEW n \in Node, QueryEvents(n)
  PROVE  /\ CopiesAreAPrefix'
         /\ \A m \in Node : pc'[m] = "mark" => pc[m] = "mark"
<1>1. UNCHANGED <<last, global, delivered, log, logged>> /\ pc[n] = "query"
  BY DEF QueryEvents, AcceptReply, multicast, history
<1>2. CASE UNCHANGED <<pc, batch>>
  BY <1>1, <1>2, CopiesAreAPrefixUnchanged DEF SafetyInvariant, LogInvariant
<1>3. CASE /\ batch' = [batch EXCEPT ![n] = QueryResult(n)]
           /\ pc' = [pc EXCEPT ![n] = "replicate"]
  <2>1. /\ batch'[n] = QueryResult(n) /\ pc'[n] = "replicate"
        /\ \A m \in Node : m # n => batch'[m] = batch[m] /\ pc'[m] = pc[m]
    BY <1>3 DEF SafetyInvariant, LogInvariant, TypeOK
  <2>2. \A m \in Node : Copied(m)' = Copied(m) /\ AddedCount(m)' = AddedCount(m)
    BY <1>1 DEF Copied, AddedCount, LogLen
  <2>3. DOMAIN QueryResult(n) = 1..Len(QueryResult(n))
    BY <1>1, QueryGoesOn
  <2>4. CopiesAreAPrefix'
    <3> SUFFICES ASSUME NEW m \in Node
                 PROVE  /\ Copied(m)' + Len(batch'[m]) <= AddedCount(m)'
                        /\ \A k \in DOMAIN global'[m] : global'[m][k] = log'[k]
                        /\ \A k \in DOMAIN batch'[m] :
                             Content(batch'[m][k]) = log'[Copied(m)' + k]
                        /\ pc'[m] # "replicate" =>
                             \/ last'[m] = Nil /\ Copied(m)' = 0
                             \/ /\ Copied(m)' > 0
                                /\ last'[m] = log'[Copied(m)'].id
      BY DEF CopiesAreAPrefix, Content
    <3>1. CASE m = n
      BY <1>1, <2>1, <2>2, <2>3, <3>1, QueryGoesOn
         DEF SafetyInvariant, LogInvariant, CopiesAreAPrefix
    <3>2. CASE m # n
      BY <1>1, <2>1, <2>2, <3>2 DEF SafetyInvariant, LogInvariant, CopiesAreAPrefix
    <3> QED
      BY <3>1, <3>2
  <2> QED
    BY <2>1, <2>4
<1> QED
  BY <1>1, <1>2, <1>3 DEF QueryEvents, AcceptReply

(* What is news for one place is news for every later place.               *)
LEMMA IsAheadGrows ==
  ASSUME SafetyInvariant, NEW m \in Node, NEW n \in Node,
         NEW k \in Int, NEW l \in Int, k <= l, IsAhead(m, n, k)
  PROVE  IsAhead(m, n, l)
<1>1. Forgotten(m) \in Nat /\ DOMAIN events[m] \subseteq Nat
  <2>1. DOMAIN events[m] = 1..Len(events[m])
    BY DEF SafetyInvariant, LogInvariant, TypeOK
  <2> QED
    BY <2>1, Counts DEF SafetyInvariant, LogInvariant
<1> QED
  BY <1>1 DEF IsAhead

(* ... copies the next event of it, ...                                    *)
LEMMA ReplicateEventSafe ==
  ASSUME SafetyInvariant, NEW n \in Node, ReplicateEvent(n)
  PROVE  CopiesAreAPrefix' /\ MarksAreCopied' /\ MarksAreAhead'
<1>1. UNCHANGED <<outbox, order, delivered, events, log, logged>>
  BY DEF ReplicateEvent, GoOn, multicast, history
<1>2. /\ batch[n] \in Seq(Event) /\ batch[n] # <<>>
      /\ global[n] \in Seq(Record)
  BY DEF SafetyInvariant, LogInvariant, TypeOK, ReplicateEvent, GoOn
<1>3. /\ Head(batch[n]) = batch[n][1] /\ Head(batch[n]) \in Event
      /\ Tail(batch[n]) \in Seq(Event)
      /\ Len(Tail(batch[n])) = Len(batch[n]) - 1 /\ Len(batch[n]) \in Nat \ {0}
      /\ \A k \in 1..(Len(batch[n]) - 1) : Tail(batch[n])[k] = batch[n][k + 1]
  <2>1. Len(batch[n]) \in Nat /\ (Len(batch[n]) = 0 <=> batch[n] = <<>>)
    BY <1>2, EmptySeq
  <2> QED
    BY <1>2, <2>1, HeadTailProperties
<1>4. /\ batch'[n] = Tail(batch[n])
      /\ global'[n] = Append(global[n], Content(Head(batch[n])))
      /\ \A m \in Node : m # n => /\ batch'[m] = batch[m]
                                  /\ global'[m] = global[m]
                                  /\ pc'[m] = pc[m] /\ last'[m] = last[m]
  BY DEF SafetyInvariant, LogInvariant, TypeOK, ReplicateEvent, GoOn
<1>5. /\ \A m \in Node : AddedCount(m)' = AddedCount(m) /\ Copied(m) \in Nat
      /\ \A m \in Node : m # n => Copied(m)' = Copied(m)
  BY <1>1, <1>4, Counts DEF SafetyInvariant, LogInvariant, AddedCount, LogLen, Copied
<1>6. /\ Copied(n)' = Copied(n) + 1
      /\ DOMAIN global'[n] = 1..(Copied(n) + 1) /\ DOMAIN global[n] = 1..Copied(n)
      /\ \A k \in 1..Copied(n) : global'[n][k] = global[n][k]
      /\ global'[n][Copied(n) + 1] = Content(batch[n][1])
  <2>1. Content(Head(batch[n])) \in Record
    BY <1>3 DEF Content, Event, Record
  <2> QED
    BY <1>2, <1>3, <1>4, <2>1, AppendProperties DEF Copied
<1>7. /\ Copied(n) + Len(batch[n]) <= AddedCount(n)
      /\ \A k \in 1..Copied(n) : global[n][k] = log[k]
      /\ \A k \in 1..Len(batch[n]) : Content(batch[n][k]) = log[Copied(n) + k]
  <2>1. DOMAIN batch[n] = 1..Len(batch[n])
    BY <1>2
  <2>2. Copied(n) + Len(batch[n]) <= AddedCount(n)
    BY DEF SafetyInvariant, LogInvariant, CopiesAreAPrefix
  <2>3. \A k \in 1..Copied(n) : global[n][k] = log[k]
    BY <1>6 DEF SafetyInvariant, LogInvariant, CopiesAreAPrefix
  <2>4. \A k \in 1..Len(batch[n]) : Content(batch[n][k]) = log[Copied(n) + k]
    BY <2>1 DEF SafetyInvariant, LogInvariant, CopiesAreAPrefix
  <2> QED
    BY <2>2, <2>3, <2>4
<1>8. pc[n] = "replicate"
  BY DEF ReplicateEvent, GoOn
<1>9. \/ pc'[n] = "replicate"
      \/ pc'[n] = "mark" /\ last'[n] = log[Copied(n) + 1].id
  <2>1. CASE UNCHANGED <<pc, last>>
    BY <1>8, <2>1
  <2>2. CASE /\ last' = [last EXCEPT ![n] = Head(batch[n]).id]
             /\ pc' = [pc EXCEPT ![n] = "mark"]
    <3>1. last'[n] = batch[n][1].id /\ pc'[n] = "mark"
      BY <1>3, <2>2 DEF SafetyInvariant, LogInvariant, TypeOK
    <3>2. Content(batch[n][1]) = log[Copied(n) + 1]
      BY <1>3, <1>7
    <3>3. Content(batch[n][1]).id = batch[n][1].id
      BY DEF Content
    <3> QED
      BY <3>1, <3>2, <3>3
  <2> QED
    BY <2>1, <2>2 DEF ReplicateEvent, GoOn
<1>10. CopiesAreAPrefix'
  <2> SUFFICES ASSUME NEW m \in Node
               PROVE  /\ Copied(m)' + Len(batch'[m]) <= AddedCount(m)'
                      /\ \A k \in DOMAIN global'[m] : global'[m][k] = log'[k]
                      /\ \A k \in DOMAIN batch'[m] :
                           Content(batch'[m][k]) = log'[Copied(m)' + k]
                      /\ pc'[m] # "replicate" =>
                           \/ last'[m] = Nil /\ Copied(m)' = 0
                           \/ /\ Copied(m)' > 0
                              /\ last'[m] = log'[Copied(m)'].id
    BY DEF CopiesAreAPrefix, Content
  <2>1. CASE m = n
    <3>1. Copied(n)' + Len(batch'[n]) <= AddedCount(n)'
      <4>1. AddedCount(n) \in Nat
        BY Counts DEF SafetyInvariant, LogInvariant
      <4> QED
        BY <1>3, <1>4, <1>5, <1>6, <1>7, <4>1
    <3>2. ASSUME NEW k \in 1..(Copied(n) + 1) PROVE global'[n][k] = log[k]
      <4>1. CASE k = Copied(n) + 1
        BY <1>3, <1>6, <1>7, <4>1
      <4>2. CASE k \in 1..Copied(n)
        BY <1>6, <1>7, <4>2
      <4> QED
        BY <1>5, <4>1, <4>2
    <3>3. ASSUME NEW k \in DOMAIN batch'[n]
          PROVE  Content(batch'[n][k]) = log[Copied(n)' + k]
      <4>1. k \in 1..(Len(batch[n]) - 1)
        BY <1>3, <1>4
      <4>2. batch'[n][k] = batch[n][k + 1] /\ k + 1 \in 1..Len(batch[n])
        BY <1>3, <1>4, <4>1
      <4>3. Copied(n)' + k = Copied(n) + (k + 1)
        BY <1>5, <1>6, <4>1
      <4> QED
        BY <1>7, <4>2, <4>3
    <3>4. pc'[n] # "replicate" => Copied(n)' > 0 /\ last'[n] = log[Copied(n)'].id
      BY <1>5, <1>6, <1>9
    <3> QED
      BY <1>1, <1>6, <2>1, <3>1, <3>2, <3>3, <3>4
  <2>2. CASE m # n
    <3>1. /\ batch'[m] = batch[m] /\ global'[m] = global[m]
          /\ pc'[m] = pc[m] /\ last'[m] = last[m] /\ log' = log
          /\ AddedCount(m)' = AddedCount(m) /\ Copied(m)' = Copied(m)
      BY <1>1, <1>4, <1>5, <2>2
    <3>2. CopiesAreAPrefix
      BY DEF SafetyInvariant, LogInvariant
    <3> HIDE DEF SafetyInvariant, LogInvariant
    <3> QED
      BY <3>1, <3>2 DEF CopiesAreAPrefix
  <2> QED
    BY <2>1, <2>2
<1>11. \A m \in Node : /\ Copied(m)' \in Nat /\ Copied(m)' >= Copied(m)
                         /\ \/ pc'[m] = "mark" => pc[m] = "mark"
                            \/ Copied(m)' = Copied(m) + 1
  BY <1>4, <1>5, <1>6
<1>12. MarksAreCopied'
  <2>1. ASSUME NEW m \in Node, NEW id, IsPlaced(log, id), MarkIsCopied(m, id)
        PROVE  /\ Place(log, id) <= Copied(m)'
               /\ pc'[m] = "mark" => Place(log, id) < Copied(m)'
    <3>1. Place(log, id) \in Nat
      <4>1. Place(log, id) \in DOMAIN log
        BY <2>1, PlaceIsThere
      <4>2. DOMAIN log = 1..Len(log)
        BY DEF SafetyInvariant, LogInvariant, TypeOK
      <4> HIDE DEF SafetyInvariant
      <4> QED
        BY <4>1, <4>2
    <3>2. /\ Copied(m) \in Nat /\ Copied(m)' \in Nat /\ Copied(m)' >= Copied(m)
          /\ (pc'[m] = "mark" => pc[m] = "mark") \/ Copied(m)' = Copied(m) + 1
      BY <1>5, <1>11
    <3>3. /\ Place(log, id) <= Copied(m)
          /\ pc[m] = "mark" => Place(log, id) < Copied(m)
      BY <2>1 DEF MarkIsCopied
    <3> QED
      BY <3>1, <3>2, <3>3
  <2>2. \A m \in Node : /\ MarksInOrder(m)' = MarksInOrder(m)
                         /\ MarksInOutbox(m)' = MarksInOutbox(m)
    BY <1>1 DEF MarksInOrder, MarksInOutbox, AddsInOutbox
  <2>3. ASSUME NEW m \in Node, NEW i \in MarksInOrder(m)
        PROVE  MarkIsCopied(m, order[i].id)'
    <3>1. MarkIsCopied(m, order[i].id) /\ IsPlaced(log, order[i].id)
      BY DEF SafetyInvariant, LogInvariant, MarksAreCopied, MarksArePlaced
    <3> QED
      BY <1>1, <2>1, <3>1 DEF MarkIsCopied
  <2>4. ASSUME NEW m \in Node, NEW j \in MarksInOutbox(m)
        PROVE  MarkIsCopied(m, outbox[m][j].id)'
    <3>1. MarkIsCopied(m, outbox[m][j].id) /\ IsPlaced(log, outbox[m][j].id)
      BY DEF SafetyInvariant, LogInvariant, MarksAreCopied, MarksArePlaced
    <3> QED
      BY <1>1, <2>1, <3>1 DEF MarkIsCopied
  <2> QED
    BY <2>2, <2>3, <2>4 DEF MarksAreCopied
<1>13. MarksAreAhead'
  <2>2. \A o \in Node : /\ MarksInOrder(o)' = MarksInOrder(o)
                         /\ MarksInOutbox(o)' = MarksInOutbox(o)
                         /\ \A j : OutboxPlace(o, j)' = OutboxPlace(o, j)
    BY <1>1 DEF MarksInOrder, MarksInOutbox, AddsInOutbox, OutboxPlace
  <2>3. \A i : OrderPlace(i)' = OrderPlace(i)
    BY <1>1 DEF OrderPlace
  <2>4. ASSUME NEW m \in Node, NEW o \in Node
        PROVE  /\ IsAhead(m, o, Copied(o)' + 1)
               /\ pc'[o] = "mark" => IsAhead(m, o, Copied(o)')
    <3>1. /\ IsAhead(m, o, Copied(o) + 1)
          /\ pc[o] = "mark" => IsAhead(m, o, Copied(o))
      BY DEF SafetyInvariant, LogInvariant, MarksAreAhead
    <3>2. CASE o = n
      <4>1. IsAhead(m, o, Copied(o)')
        BY <1>6, <3>1, <3>2
      <4>2. IsAhead(m, o, Copied(o)' + 1)
        BY <1>11, <4>1, IsAheadGrows
      <4> QED
        BY <4>1, <4>2
    <3>3. CASE o # n
      BY <1>4, <1>5, <3>1, <3>3
    <3> QED
      BY <3>2, <3>3
  <2>5. ASSUME NEW m \in Node, NEW o \in Node
        PROVE  /\ IsAhead(m, o, Copied(o) + 1)'
               /\ pc'[o] = "mark" => IsAhead(m, o, Copied(o))'
    BY <1>1, <2>4 DEF IsAhead, Forgotten, AddedCount, LogLen
  <2>6. ASSUME NEW m \in Node, NEW o \in Node
        PROVE  /\ \A j \in MarksInOutbox(o)' : IsAhead(m, o, OutboxPlace(o, j))'
               /\ \A i \in MarksInOrder(o)' :
                    delivered'[m] < i => IsAhead(m, o, OrderPlace(i))'
    <3>1. /\ \A j \in MarksInOutbox(o) : IsAhead(m, o, OutboxPlace(o, j))
          /\ \A i \in MarksInOrder(o) :
               delivered[m] < i => IsAhead(m, o, OrderPlace(i))
      BY DEF SafetyInvariant, LogInvariant, MarksAreAhead
    <3> QED
      BY <1>1, <2>2, <2>3, <3>1 DEF IsAhead, Forgotten, AddedCount, LogLen
  <2> QED
    BY <2>5, <2>6 DEF MarksAreAhead
<1> QED
  BY <1>10, <1>12, <1>13

(* An outbox that only gets or loses add_events changes nothing for the    *)
(* marks.                                                                  *)
SameMarks ==
  \A m \in Node : /\ MarksInOutbox(m)' = MarksInOutbox(m)
                  /\ \A j \in MarksInOutbox(m) : outbox'[m][j] = outbox[m][j]

LEMMA MarksStay ==
  ASSUME UNCHANGED <<order, log, logged>>, SameMarks
  PROVE  /\ \A m \in Node : MarksInOrder(m)' = MarksInOrder(m)
         /\ \A i : OrderPlace(i)' = OrderPlace(i) /\ LogLen(i)' = LogLen(i)
         /\ \A m \in Node : \A j \in MarksInOutbox(m) :
              OutboxPlace(m, j)' = OutboxPlace(m, j)
BY DEF MarksInOrder, OrderPlace, LogLen, OutboxPlace, SameMarks

LEMMA MarksUnchanged ==
  ASSUME LogInvariant, UNCHANGED <<order, log, logged>>, SameMarks
  PROVE  MarksArePlaced' /\ MarksMoveForward'
<1>1. \A m \in Node : /\ MarksInOutbox(m)' = MarksInOutbox(m)
                      /\ \A j \in MarksInOutbox(m) : outbox'[m][j] = outbox[m][j]
  BY DEF SameMarks
<1>2. ASSUME NEW m \in Node
      PROVE  /\ \A i \in MarksInOrder(m)' :
                  IsPlaced(log', order'[i].id) /\ OrderPlace(i)' <= LogLen(i)'
             /\ \A j \in MarksInOutbox(m)' :
                  IsPlaced(log', outbox'[m][j].id) /\ outbox'[m][j].derecho_id = m
  BY <1>1, MarksStay DEF LogInvariant, MarksArePlaced
<1>3. MarksArePlaced'
  BY <1>2 DEF MarksArePlaced, IsPlaced
<1>4. MarksMoveForward'
  BY <1>1, MarksStay DEF LogInvariant, MarksMoveForward
<1> QED
  BY <1>3, <1>4

LEMMA CopiedMarksUnchanged ==
  ASSUME SafetyInvariant, SameMarks,
         UNCHANGED <<order, delivered, events, global, log, logged, pc>>
  PROVE  MarksAreCopied' /\ MarksAreAhead'
<1>0. \A m \in Node : /\ MarksInOutbox(m)' = MarksInOutbox(m)
                      /\ \A j \in MarksInOutbox(m) : outbox'[m][j] = outbox[m][j]
  BY DEF SameMarks
<1>1. /\ \A m \in Node : /\ MarksInOrder(m)' = MarksInOrder(m)
                          /\ Copied(m)' = Copied(m)
      /\ \A i : OrderPlace(i)' = OrderPlace(i) /\ LogLen(i)' = LogLen(i)
  BY MarksStay DEF Copied
<1>2. \A m \in Node : \A j \in MarksInOutbox(m) :
        OutboxPlace(m, j)' = OutboxPlace(m, j)
  BY MarksStay
<1>3. ASSUME NEW m \in Node
      PROVE  /\ \A i \in MarksInOrder(m)' : MarkIsCopied(m, order[i].id)'
             /\ \A j \in MarksInOutbox(m)' : MarkIsCopied(m, outbox[m][j].id)'
  <2>1. ASSUME NEW i \in MarksInOrder(m) PROVE MarkIsCopied(m, order[i].id)'
    BY <1>1 DEF SafetyInvariant, MarksAreCopied, MarkIsCopied
  <2>2. ASSUME NEW j \in MarksInOutbox(m) PROVE MarkIsCopied(m, outbox[m][j].id)'
    BY <1>0, <1>1 DEF SafetyInvariant, MarksAreCopied, MarkIsCopied
  <2> QED
    BY <1>0, <1>1, <2>1, <2>2
<1>5. ASSUME NEW m \in Node, NEW o \in Node
      PROVE  /\ IsAhead(m, o, Copied(o) + 1)'
             /\ pc'[o] = "mark" => IsAhead(m, o, Copied(o))'
             /\ \A j \in MarksInOutbox(o)' : IsAhead(m, o, OutboxPlace(o, j))'
             /\ \A i \in MarksInOrder(o)' :
                  delivered'[m] < i => IsAhead(m, o, OrderPlace(i))'
  <2>1. /\ IsAhead(m, o, Copied(o) + 1)
        /\ pc[o] = "mark" => IsAhead(m, o, Copied(o))
        /\ \A j \in MarksInOutbox(o) : IsAhead(m, o, OutboxPlace(o, j))
        /\ \A i \in MarksInOrder(o) :
             delivered[m] < i => IsAhead(m, o, OrderPlace(i))
    BY DEF SafetyInvariant, MarksAreAhead
  <2>2. ASSUME NEW j \in MarksInOutbox(o)' PROVE IsAhead(m, o, OutboxPlace(o, j))'
    BY <1>0, <1>2, <2>1 DEF IsAhead, Forgotten, AddedCount, LogLen
  <2>3. ASSUME NEW i \in MarksInOrder(o)', delivered'[m] < i
        PROVE  IsAhead(m, o, OrderPlace(i))'
    BY <1>1, <2>1, <2>3 DEF IsAhead, Forgotten, AddedCount, LogLen
  <2>4. /\ IsAhead(m, o, Copied(o) + 1)'
        /\ pc'[o] = "mark" => IsAhead(m, o, Copied(o))'
    BY <1>1, <2>1 DEF IsAhead, Forgotten, AddedCount, LogLen
  <2> QED
    BY <2>2, <2>3, <2>4
<1> QED
  BY <1>3, <1>5 DEF MarksAreCopied, MarksAreAhead

(* What kafka_polling sends goes to the end of the window.                 *)
LEMMA SendAddEventAppends ==
  ASSUME LogInvariant, NEW n \in Node, SendAddEvent(n),
         NEW new, new = Len(outbox[n]) + 1
  PROVE  /\ UNCHANGED <<position, order, delivered, events, global, log, logged, pc>>
         /\ polled[n] # Nil
         /\ polled' = [polled EXCEPT ![n] = Nil]
         /\ AddMessage(polled[n]).event = polled[n]
         /\ \A m \in Node : m # n => outbox'[m] = outbox[m]
         /\ DOMAIN outbox'[n] = 1..new /\ DOMAIN outbox[n] = 1..(new - 1)
         /\ new \in Nat /\ Len(outbox'[n]) = new
         /\ \A j \in 1..(new - 1) : outbox'[n][j] = outbox[n][j]
         /\ outbox'[n][new] = AddMessage(polled[n])
         /\ AddsInOutbox(n)' = AddsInOutbox(n) \cup {new}
         /\ new \notin AddsInOutbox(n)
         /\ AddsInOutbox(n) \subseteq 1..(new - 1)
         /\ \A m \in Node : m # n => AddsInOutbox(m)' = AddsInOutbox(m)
<1>1. /\ UNCHANGED <<position, order, delivered, events, global, log, logged, pc>>
      /\ polled[n] # Nil
      /\ polled' = [polled EXCEPT ![n] = Nil]
      /\ outbox' = [outbox EXCEPT ![n] = Append(@, AddMessage(polled[n]))]
  BY DEF SendAddEvent, OrderedSend, derechoThread, history
<1>2. outbox[n] \in Seq(Message) /\ polled[n] \in Event
  BY <1>1 DEF LogInvariant, TypeOK
<1>3. /\ AddMessage(polled[n]) \in Message
      /\ AddMessage(polled[n]).type = "add_event"
      /\ AddMessage(polled[n]).event = polled[n]
  BY <1>2 DEF AddMessage, Message
<1>4. /\ \A m \in Node : m # n => outbox'[m] = outbox[m]
      /\ DOMAIN outbox'[n] = 1..new /\ DOMAIN outbox[n] = 1..(new - 1)
      /\ new \in Nat /\ Len(outbox'[n]) = new
      /\ \A j \in 1..(new - 1) : outbox'[n][j] = outbox[n][j]
      /\ outbox'[n][new] = AddMessage(polled[n])
  <2>1. outbox'[n] = Append(outbox[n], AddMessage(polled[n]))
    BY <1>1 DEF LogInvariant, TypeOK
  <2>2. \A m \in Node : m # n => outbox'[m] = outbox[m]
    BY <1>1 DEF LogInvariant, TypeOK
  <2> QED
    BY <1>2, <1>3, <2>1, <2>2, AppendProperties
<1>5. /\ AddsInOutbox(n)' = AddsInOutbox(n) \cup {new}
      /\ new \notin AddsInOutbox(n)
      /\ AddsInOutbox(n) \subseteq 1..(new - 1)
      /\ \A m \in Node : m # n => AddsInOutbox(m)' = AddsInOutbox(m)
  <2>1. AddsInOutbox(n)' = {j \in 1..new : outbox'[n][j].type = "add_event"}
    BY <1>4 DEF AddsInOutbox
  <2>2. AddsInOutbox(n) = {j \in 1..(new - 1) : outbox[n][j].type = "add_event"}
    BY <1>4 DEF AddsInOutbox
  <2>3. outbox'[n][new].type = "add_event"
    BY <1>3, <1>4
  <2>4. 1..new = 1..(new - 1) \cup {new} /\ new \notin 1..(new - 1)
    <3>1. new >= 1
      BY <1>2
    <3> QED
      BY <1>4, <3>1
  <2>5. \A m \in Node : m # n => AddsInOutbox(m)' = AddsInOutbox(m)
    BY <1>4 DEF AddsInOutbox
  <2>6. \A j \in 1..(new - 1) : outbox'[n][j].type = outbox[n][j].type
    BY <1>4
  <2> QED
    BY <2>1, <2>2, <2>3, <2>4, <2>5, <2>6
<1> QED
  BY <1>1, <1>3, <1>4, <1>5

(* kafka_polling sends what it has read.                                   *)
LEMMA SendAddEventLog ==
  ASSUME LogInvariant, NEW n \in Node, SendAddEvent(n)
  PROVE  EventsOnce' /\ MarksArePlaced' /\ MarksMoveForward' /\ SameMarks
<1>0. PICK new : new = Len(outbox[n]) + 1
  OBVIOUS
<1>1. /\ UNCHANGED <<position, order, delivered, events, global, log, logged, pc>>
      /\ polled[n] # Nil
      /\ polled' = [polled EXCEPT ![n] = Nil]
  BY <1>0, SendAddEventAppends
<1>3. AddMessage(polled[n]).event = polled[n]
  BY <1>0, SendAddEventAppends
<1>4. /\ \A m \in Node : m # n => outbox'[m] = outbox[m]
      /\ DOMAIN outbox'[n] = 1..new /\ DOMAIN outbox[n] = 1..(new - 1)
      /\ new \in Nat
      /\ \A j \in 1..(new - 1) : outbox'[n][j] = outbox[n][j]
      /\ outbox'[n][new] = AddMessage(polled[n])
  BY <1>0, SendAddEventAppends
<1>5. /\ AddsInOutbox(n)' = AddsInOutbox(n) \cup {new}
      /\ new \notin AddsInOutbox(n)
      /\ AddsInOutbox(n) \subseteq 1..(new - 1)
      /\ \A m \in Node : m # n => AddsInOutbox(m)' = AddsInOutbox(m)
  BY <1>0, SendAddEventAppends
<1>6. \A m \in Node : /\ MarksInOutbox(m)' = MarksInOutbox(m)
                      /\ \A j \in MarksInOutbox(m) : outbox'[m][j] = outbox[m][j]
  <2> SUFFICES ASSUME NEW m \in Node
               PROVE  /\ MarksInOutbox(m)' = MarksInOutbox(m)
                      /\ \A j \in MarksInOutbox(m) : outbox'[m][j] = outbox[m][j]
    OBVIOUS
  <2>1. CASE m = n
    BY <1>4, <1>5, <2>1 DEF MarksInOutbox
  <2>2. CASE m # n
    BY <1>4, <1>5, <2>2 DEF MarksInOutbox
  <2> QED
    BY <2>1, <2>2
<1>7. EventsOnce'
  <2>1. \A k \in DOMAIN log' : \E m \in Node : log'[k].id \in Issued(m)'
    BY <1>1 DEF LogInvariant, EventsOnce, Issued
  <2>2. \A k, l \in DOMAIN log' : log'[k].id = log'[l].id => k = l
    BY <1>1 DEF LogInvariant, EventsOnce
  <2>3. EventIsNew(n, polled[n])
        /\ \A j \in AddsInOutbox(n) : outbox[n][j].event.id # polled[n].id
    BY <1>1 DEF LogInvariant, EventsOnce
  <2>4. ASSUME NEW m \in Node
        PROVE  /\ \A j \in AddsInOutbox(m)' : EventIsNew(m, outbox[m][j].event)'
               /\ \A i, j \in AddsInOutbox(m)' :
                    outbox'[m][i].event.id = outbox'[m][j].event.id => i = j
    <3>1. /\ \A j \in AddsInOutbox(m) : EventIsNew(m, outbox[m][j].event)
          /\ \A i, j \in AddsInOutbox(m) :
               outbox[m][i].event.id = outbox[m][j].event.id => i = j
      BY DEF LogInvariant, EventsOnce
    <3>2. CASE m # n
      BY <1>1, <1>4, <1>5, <3>1, <3>2 DEF EventIsNew, Issued
    <3>3. CASE m = n
      <4>1. ASSUME NEW j \in AddsInOutbox(n)' PROVE EventIsNew(n, outbox[n][j].event)'
        <5>1. CASE j = new
          BY <1>1, <1>3, <1>4, <2>3, <5>1 DEF EventIsNew, Issued
        <5>2. CASE j \in AddsInOutbox(n)
          BY <1>1, <1>4, <1>5, <3>1, <3>3, <5>2 DEF EventIsNew, Issued
        <5> QED
          BY <1>5, <5>1, <5>2
      <4>2. /\ outbox'[n][new].event.id = polled[n].id
            /\ \A j \in AddsInOutbox(n) : outbox'[n][j] = outbox[n][j]
        BY <1>3, <1>4, <1>5
      <4>3. \A i, j \in AddsInOutbox(n)' :
              outbox'[n][i].event.id = outbox'[n][j].event.id => i = j
        BY <1>5, <2>3, <3>1, <3>3, <4>2
      <4> QED
        BY <3>3, <4>1, <4>3
    <3> QED
      BY <3>2, <3>3
  <2>5. ASSUME NEW m \in Node, polled'[m] # Nil
        PROVE  /\ EventIsNew(m, polled[m])'
               /\ \A j \in AddsInOutbox(m)' : outbox'[m][j].event.id # polled'[m].id
    <3>1. m # n /\ polled'[m] = polled[m]
      BY <1>1, <2>5 DEF LogInvariant, TypeOK
    <3>2. /\ EventIsNew(m, polled[m])
          /\ \A j \in AddsInOutbox(m) : outbox[m][j].event.id # polled[m].id
      BY <2>5, <3>1 DEF LogInvariant, EventsOnce
    <3> QED
      BY <1>1, <1>4, <1>5, <3>1, <3>2 DEF EventIsNew, Issued
  <2> QED
    BY <2>1, <2>2, <2>4, <2>5 DEF EventsOnce
<1>8. SameMarks
  BY <1>6 DEF SameMarks
<1> QED
  BY <1>1, <1>7, <1>8, MarksUnchanged

LEMMA SendAddEventSafe ==
  ASSUME SafetyInvariant, NEW n \in Node, SendAddEvent(n)
  PROVE  MarksAreCopied' /\ MarksAreAhead'
<1>1. UNCHANGED <<order, delivered, events, global, log, logged, pc>>
  BY DEF SendAddEvent, OrderedSend, derechoThread, history
<1>2. SameMarks
  BY SendAddEventLog DEF SafetyInvariant
<1> QED
  BY <1>1, <1>2, CopiedMarksUnchanged

(* An outbox that only gets or loses marks changes nothing for the events. *)
LEMMA AddsUnchanged ==
  ASSUME LogInvariant, UNCHANGED <<position, polled, log>>,
         \A m \in Node : /\ AddsInOutbox(m)' = AddsInOutbox(m)
                         /\ \A j \in AddsInOutbox(m) : outbox'[m][j] = outbox[m][j]
  PROVE  EventsOnce'
<1>1. \A k \in DOMAIN log' : \E m \in Node : log'[k].id \in Issued(m)'
  BY DEF LogInvariant, EventsOnce, Issued
<1>2. \A k, l \in DOMAIN log' : log'[k].id = log'[l].id => k = l
  BY DEF LogInvariant, EventsOnce
<1>3. ASSUME NEW m \in Node, NEW j \in AddsInOutbox(m)'
      PROVE  EventIsNew(m, outbox[m][j].event)'
  <2>1. EventIsNew(m, outbox[m][j].event)
    BY DEF LogInvariant, EventsOnce
  <2> QED
    BY <2>1 DEF EventIsNew, Issued
<1>4. ASSUME NEW m \in Node
      PROVE  \A i, j \in AddsInOutbox(m)' :
               outbox'[m][i].event.id = outbox'[m][j].event.id => i = j
  BY DEF LogInvariant, EventsOnce
<1>5. ASSUME NEW m \in Node, polled'[m] # Nil
      PROVE  /\ EventIsNew(m, polled[m])'
             /\ \A j \in AddsInOutbox(m)' : outbox'[m][j].event.id # polled'[m].id
  <2>1. /\ EventIsNew(m, polled[m])
        /\ \A j \in AddsInOutbox(m) : outbox[m][j].event.id # polled[m].id
    BY <1>5 DEF LogInvariant, EventsOnce
  <2> QED
    BY <2>1 DEF EventIsNew, Issued
<1> QED
  BY <1>1, <1>2, <1>3, <1>4, <1>5 DEF EventsOnce

(* ... and marks the last one of them: the mark goes to the end of the     *)
(* window.                                                                 *)
LEMMA SendMarkAppends ==
  ASSUME LogInvariant, NEW n \in Node, SendMarkProduced(n),
         NEW new, new = Len(outbox[n]) + 1
  PROVE  /\ UNCHANGED <<position, polled, order, delivered, events, global, batch,
                       last, log, logged>>
         /\ pc[n] = "mark" /\ pc'[n] = "query" /\ last[n] # Nil
         /\ \A m \in Node : m # n => outbox'[m] = outbox[m] /\ pc'[m] = pc[m]
         /\ new \in Nat /\ new >= 1
         /\ \A j \in 1..(new - 1) : outbox'[n][j] = outbox[n][j]
         /\ outbox'[n][new].derecho_id = n /\ outbox'[n][new].id = last[n]
         /\ AddsInOutbox(n)' = AddsInOutbox(n)
         /\ AddsInOutbox(n) \subseteq 1..(new - 1)
         /\ MarksInOutbox(n)' = MarksInOutbox(n) \cup {new}
         /\ MarksInOutbox(n) \subseteq 1..(new - 1)
         /\ \A m \in Node : m # n => /\ AddsInOutbox(m)' = AddsInOutbox(m)
                                     /\ MarksInOutbox(m)' = MarksInOutbox(m)
         /\ \A m \in Node : MarksInOrder(m)' = MarksInOrder(m)
         /\ \A i : OrderPlace(i)' = OrderPlace(i) /\ LogLen(i)' = LogLen(i)
         /\ \A m \in Node : \A j \in MarksInOutbox(m) :
              OutboxPlace(m, j)' = OutboxPlace(m, j)
         /\ OutboxPlace(n, new)' = Place(log, last[n])
<1> DEFINE mark == MarkMessage(n, last[n])
<1>1. /\ UNCHANGED <<position, polled, order, delivered, events, global, batch,
                     last, log, logged>>
      /\ pc[n] = "mark"
      /\ pc' = [pc EXCEPT ![n] = "query"]
      /\ outbox' = [outbox EXCEPT ![n] = Append(@, mark)]
  BY DEF SendMarkProduced, SendMark, OrderedSend, kafkaThread, history
<1>2. outbox[n] \in Seq(Message) /\ last[n] \in Ids /\ last[n] # Nil
  BY <1>1 DEF LogInvariant, TypeOK
<1>3. /\ mark \in Message
      /\ mark.type = "mark_produced" /\ mark.type # "add_event"
      /\ mark.derecho_id = n /\ mark.id = last[n]
  BY <1>2 DEF MarkMessage, Message
<1> HIDE DEF mark
<1>0. new \in Nat
  BY <1>2
<1>4. /\ \A m \in Node : m # n => outbox'[m] = outbox[m] /\ pc'[m] = pc[m]
      /\ pc'[n] = "query"
      /\ DOMAIN outbox'[n] = 1..new /\ DOMAIN outbox[n] = 1..(new - 1)
      /\ new \in Nat /\ new >= 1
      /\ \A j \in 1..(new - 1) : outbox'[n][j] = outbox[n][j]
      /\ outbox'[n][new] = mark
  <2>1. outbox'[n] = Append(outbox[n], mark) /\ pc'[n] = "query"
    BY <1>1 DEF LogInvariant, TypeOK
  <2>2. \A m \in Node : m # n => outbox'[m] = outbox[m] /\ pc'[m] = pc[m]
    BY <1>1 DEF LogInvariant, TypeOK
  <2> QED
    BY <1>0, <1>2, <1>3, <2>1, <2>2, AppendProperties
<1>5. /\ AddsInOutbox(n)' = AddsInOutbox(n)
      /\ AddsInOutbox(n) \subseteq 1..(new - 1)
      /\ MarksInOutbox(n)' = MarksInOutbox(n) \cup {new}
      /\ MarksInOutbox(n) \subseteq 1..(new - 1)
      /\ new \notin MarksInOutbox(n)
      /\ \A m \in Node : m # n => /\ AddsInOutbox(m)' = AddsInOutbox(m)
                                  /\ MarksInOutbox(m)' = MarksInOutbox(m)
  <2>1. AddsInOutbox(n)' = {j \in 1..new : outbox'[n][j].type = "add_event"}
    BY <1>4 DEF AddsInOutbox
  <2>2. AddsInOutbox(n) = {j \in 1..(new - 1) : outbox[n][j].type = "add_event"}
    BY <1>4 DEF AddsInOutbox
  <2>3. outbox'[n][new].type # "add_event"
    BY <1>3, <1>4
  <2>4. 1..new = 1..(new - 1) \cup {new} /\ new \notin 1..(new - 1)
    BY <1>4
  <2>5. \A j \in 1..(new - 1) : outbox'[n][j].type = outbox[n][j].type
    BY <1>4
  <2>6. /\ MarksInOutbox(n)' = (1..new) \ AddsInOutbox(n)'
        /\ MarksInOutbox(n) = (1..(new - 1)) \ AddsInOutbox(n)
    BY <1>4 DEF MarksInOutbox
  <2>7. AddsInOutbox(n)' = AddsInOutbox(n) /\ AddsInOutbox(n) \subseteq 1..(new - 1)
    BY <2>1, <2>2, <2>3, <2>4, <2>5
  <2>8. /\ MarksInOutbox(n)' = MarksInOutbox(n) \cup {new}
        /\ MarksInOutbox(n) \subseteq 1..(new - 1)
        /\ new \notin MarksInOutbox(n)
    BY <2>4, <2>6, <2>7
  <2>9. \A m \in Node : m # n => /\ AddsInOutbox(m)' = AddsInOutbox(m)
                                 /\ MarksInOutbox(m)' = MarksInOutbox(m)
    BY <1>4 DEF AddsInOutbox, MarksInOutbox
  <2> QED
    BY <2>7, <2>8, <2>9
<1>6. /\ \A m \in Node : MarksInOrder(m)' = MarksInOrder(m)
      /\ \A i : OrderPlace(i)' = OrderPlace(i) /\ LogLen(i)' = LogLen(i)
  BY <1>1 DEF MarksInOrder, OrderPlace, LogLen
<1>7. ASSUME NEW m \in Node, NEW j \in MarksInOutbox(m)
      PROVE  OutboxPlace(m, j)' = OutboxPlace(m, j)
  <2>1. outbox'[m][j] = outbox[m][j]
    BY <1>4, <1>5
  <2> QED
    BY <1>1, <2>1 DEF OutboxPlace
<1>8. OutboxPlace(n, new)' = Place(log, last[n])
  BY <1>1, <1>3, <1>4 DEF OutboxPlace
<1> QED
  BY <1>1, <1>2, <1>3, <1>4, <1>5, <1>6, <1>7, <1>8

(* When it is for an event behind all that n has marked, the marks of n    *)
(* go on moving forward.                                                   *)
LEMMA SendMarkLog ==
  ASSUME LogInvariant, NEW n \in Node, SendMarkProduced(n),
         IsPlaced(log, last[n]),
         \A i \in MarksInOrder(n) : OrderPlace(i) < Place(log, last[n]),
         \A j \in MarksInOutbox(n) : OutboxPlace(n, j) < Place(log, last[n])
  PROVE  EventsOnce' /\ MarksArePlaced' /\ MarksMoveForward'
<1>0. PICK new : new = Len(outbox[n]) + 1
  OBVIOUS
<1>1. /\ UNCHANGED <<position, polled, order, last, log, logged>>
      /\ \A m \in Node : m # n => outbox'[m] = outbox[m]
      /\ new \in Nat /\ new >= 1
      /\ \A j \in 1..(new - 1) : outbox'[n][j] = outbox[n][j]
      /\ outbox'[n][new].derecho_id = n /\ outbox'[n][new].id = last[n]
  BY <1>0, SendMarkAppends
<1>2. /\ AddsInOutbox(n)' = AddsInOutbox(n)
      /\ AddsInOutbox(n) \subseteq 1..(new - 1)
      /\ MarksInOutbox(n)' = MarksInOutbox(n) \cup {new}
      /\ MarksInOutbox(n) \subseteq 1..(new - 1)
      /\ \A m \in Node : m # n => /\ AddsInOutbox(m)' = AddsInOutbox(m)
                                  /\ MarksInOutbox(m)' = MarksInOutbox(m)
  BY <1>0, SendMarkAppends
<1>3. /\ \A m \in Node : MarksInOrder(m)' = MarksInOrder(m)
      /\ \A i : OrderPlace(i)' = OrderPlace(i) /\ LogLen(i)' = LogLen(i)
      /\ \A m \in Node : \A j \in MarksInOutbox(m) :
           OutboxPlace(m, j)' = OutboxPlace(m, j)
      /\ OutboxPlace(n, new)' = Place(log, last[n])
  BY <1>0, SendMarkAppends
<1>4. EventsOnce'
  BY <1>1, <1>2, AddsUnchanged
<1>5. MarksArePlaced'
  <2>1. ASSUME NEW m \in Node, NEW i \in MarksInOrder(m)'
        PROVE  IsPlaced(log', order'[i].id) /\ OrderPlace(i)' <= LogLen(i)'
    BY <1>1, <1>3 DEF LogInvariant, MarksArePlaced
  <2>2. ASSUME NEW m \in Node, NEW j \in MarksInOutbox(m)'
        PROVE  IsPlaced(log', outbox'[m][j].id) /\ outbox'[m][j].derecho_id = m
    <3>1. CASE m = n /\ j = new
      BY <1>1, <3>1
    <3>2. CASE j \in MarksInOutbox(m) /\ outbox'[m][j] = outbox[m][j]
      BY <1>1, <3>2 DEF LogInvariant, MarksArePlaced
    <3> QED
      BY <1>1, <1>2, <3>1, <3>2
  <2> QED
    BY <2>1, <2>2 DEF MarksArePlaced, IsPlaced
<1>6. MarksMoveForward'
  <2> SUFFICES ASSUME NEW m \in Node
               PROVE  /\ \A i, j \in MarksInOrder(m)' :
                           i < j => OrderPlace(i)' < OrderPlace(j)'
                      /\ \A i \in MarksInOrder(m)', j \in MarksInOutbox(m)' :
                           OrderPlace(i)' < OutboxPlace(m, j)'
                      /\ \A i, j \in MarksInOutbox(m)' :
                           i < j => OutboxPlace(m, i)' < OutboxPlace(m, j)'
    BY DEF MarksMoveForward
  <2>1. /\ \A i, j \in MarksInOrder(m) : i < j => OrderPlace(i) < OrderPlace(j)
        /\ \A i \in MarksInOrder(m), j \in MarksInOutbox(m) :
             OrderPlace(i) < OutboxPlace(m, j)
        /\ \A i, j \in MarksInOutbox(m) :
             i < j => OutboxPlace(m, i) < OutboxPlace(m, j)
    BY DEF LogInvariant, MarksMoveForward
  <2>2. CASE m # n
    BY <1>2, <1>3, <2>1, <2>2
  <2>3. CASE m = n
    <3>1. \A i \in MarksInOrder(n)', j \in MarksInOutbox(n)' :
            OrderPlace(i)' < OutboxPlace(n, j)'
      BY <1>2, <1>3, <2>1, <2>3
    <3>2. ASSUME NEW i \in MarksInOutbox(n)', NEW j \in MarksInOutbox(n)', i < j
          PROVE  OutboxPlace(n, i)' < OutboxPlace(n, j)'
      <4>1. i # new
        BY <1>1, <1>2, <3>2
      <4> QED
        BY <1>2, <1>3, <2>1, <2>3, <3>2, <4>1
    <3> QED
      BY <1>3, <2>1, <2>3, <3>1, <3>2
  <2> QED
    BY <2>2, <2>3
<1> QED
  BY <1>4, <1>5, <1>6

LEMMA SendMarkProducedSafe ==
  ASSUME SafetyInvariant, NEW n \in Node, SendMarkProduced(n)
  PROVE  /\ EventsOnce' /\ CopiesAreAPrefix' /\ MarksArePlaced'
         /\ MarksAreCopied' /\ MarksMoveForward' /\ MarksAreAhead'
<1>0. PICK new : new = Len(outbox[n]) + 1
  OBVIOUS
<1>1. /\ UNCHANGED <<order, delivered, events, global, batch, last, log, logged>>
      /\ pc[n] = "mark" /\ last[n] # Nil
  BY <1>0, SendMarkAppends DEF SafetyInvariant
<1>4. /\ \A m \in Node : m # n => outbox'[m] = outbox[m] /\ pc'[m] = pc[m]
      /\ pc'[n] = "query"
      /\ new \in Nat /\ new >= 1
      /\ \A j \in 1..(new - 1) : outbox'[n][j] = outbox[n][j]
  BY <1>0, SendMarkAppends DEF SafetyInvariant
<1>5. /\ MarksInOutbox(n)' = MarksInOutbox(n) \cup {new}
      /\ MarksInOutbox(n) \subseteq 1..(new - 1)
      /\ \A m \in Node : m # n => MarksInOutbox(m)' = MarksInOutbox(m)
  BY <1>0, SendMarkAppends DEF SafetyInvariant
<1>7. /\ \A m \in Node : /\ MarksInOrder(m)' = MarksInOrder(m)
                         /\ Copied(m)' = Copied(m)
                         /\ AddedCount(m)' = AddedCount(m)
      /\ \A i : OrderPlace(i)' = OrderPlace(i) /\ LogLen(i)' = LogLen(i)
  BY <1>0, <1>1, SendMarkAppends DEF SafetyInvariant, Copied, AddedCount, LogLen
<1>8. \A m \in Node : \A j \in MarksInOutbox(m) :
        OutboxPlace(m, j)' = OutboxPlace(m, j)
  BY <1>0, SendMarkAppends DEF SafetyInvariant
<1>9. Copied(n) > 0 /\ last[n] = log[Copied(n)].id
  BY <1>1 DEF SafetyInvariant, LogInvariant, CopiesAreAPrefix
<1>10. /\ IsPlaced(log, last[n]) /\ Place(log, last[n]) = Copied(n)
       /\ Copied(n) \in Nat
  <2>1. Len(batch[n]) \in Nat
    BY DEF SafetyInvariant, LogInvariant, TypeOK
  <2>2. Copied(n) <= AddedCount(n) /\ AddedCount(n) <= Len(log) /\ Len(log) \in Nat
        /\ Copied(n) \in Nat
    BY <2>1, Counts DEF SafetyInvariant, LogInvariant, CopiesAreAPrefix
  <2>3. Copied(n) \in DOMAIN log
    <3>1. DOMAIN log = 1..Len(log)
      BY DEF SafetyInvariant, LogInvariant, TypeOK
    <3>2. AddedCount(n) \in Int
      BY Counts DEF SafetyInvariant, LogInvariant
    <3> QED
      BY <1>9, <2>2, <3>1, <3>2
  <2>4. Distinct(log)
    BY DEF SafetyInvariant, LogInvariant, EventsOnce, Distinct
  <2> QED
    BY <1>9, <2>2, <2>3, <2>4, PlaceIsUnique
<1>11. OutboxPlace(n, new)' = Copied(n) /\ outbox'[n][new].id = last[n]
  BY <1>0, <1>10, SendMarkAppends DEF SafetyInvariant
<1>12. CopiesAreAPrefix'
  <2> SUFFICES ASSUME NEW m \in Node
               PROVE  /\ Copied(m)' + Len(batch'[m]) <= AddedCount(m)'
                      /\ \A k \in DOMAIN global'[m] : global'[m][k] = log'[k]
                      /\ \A k \in DOMAIN batch'[m] :
                           Content(batch'[m][k]) = log'[Copied(m)' + k]
                      /\ pc'[m] # "replicate" =>
                           \/ last'[m] = Nil /\ Copied(m)' = 0
                           \/ /\ Copied(m)' > 0
                              /\ last'[m] = log'[Copied(m)'].id
    BY DEF CopiesAreAPrefix, Content
  <2>1. pc'[m] # "replicate" => pc[m] # "replicate"
    BY <1>1, <1>4
  <2> QED
    BY <1>1, <1>7, <2>1 DEF SafetyInvariant, LogInvariant, CopiesAreAPrefix
<1>13. MarksAreCopied'
  <2>1. ASSUME NEW m \in Node, NEW i \in MarksInOrder(m)'
        PROVE  MarkIsCopied(m, order[i].id)'
    <3>1. MarkIsCopied(m, order[i].id)
      BY <1>7 DEF SafetyInvariant, MarksAreCopied
    <3> QED
      BY <1>1, <1>4, <1>7, <3>1 DEF MarkIsCopied
  <2>2. ASSUME NEW m \in Node, NEW j \in MarksInOutbox(m)'
        PROVE  MarkIsCopied(m, outbox[m][j].id)'
    <3>1. CASE m = n /\ j = new
      BY <1>1, <1>4, <1>7, <1>10, <1>11, <3>1 DEF MarkIsCopied
    <3>2. CASE j \in MarksInOutbox(m) /\ outbox'[m][j] = outbox[m][j]
      <4>1. MarkIsCopied(m, outbox[m][j].id)
        BY <3>2 DEF SafetyInvariant, MarksAreCopied
      <4> QED
        BY <1>1, <1>4, <1>7, <3>2, <4>1 DEF MarkIsCopied
    <3> QED
      BY <1>4, <1>5, <3>1, <3>2
  <2> QED
    BY <2>1, <2>2 DEF MarksAreCopied
<1>14. /\ \A i \in MarksInOrder(n) : OrderPlace(i) < Copied(n)
       /\ \A j \in MarksInOutbox(n) : OutboxPlace(n, j) < Copied(n)
  BY <1>1 DEF SafetyInvariant, MarksAreCopied, MarkIsCopied, OrderPlace, OutboxPlace
<1>15. EventsOnce' /\ MarksArePlaced' /\ MarksMoveForward'
  BY <1>10, <1>14, SendMarkLog DEF SafetyInvariant
<1>16. MarksAreAhead'
  <2> SUFFICES ASSUME NEW m \in Node, NEW o \in Node
               PROVE  /\ IsAhead(m, o, Copied(o) + 1)'
                      /\ pc'[o] = "mark" => IsAhead(m, o, Copied(o))'
                      /\ \A j \in MarksInOutbox(o)' :
                           IsAhead(m, o, OutboxPlace(o, j))'
                      /\ \A i \in MarksInOrder(o)' :
                           delivered'[m] < i => IsAhead(m, o, OrderPlace(i))'
    BY DEF MarksAreAhead
  <2>1. /\ IsAhead(m, o, Copied(o) + 1)
        /\ pc[o] = "mark" => IsAhead(m, o, Copied(o))
        /\ \A j \in MarksInOutbox(o) : IsAhead(m, o, OutboxPlace(o, j))
        /\ \A i \in MarksInOrder(o) :
             delivered[m] < i => IsAhead(m, o, OrderPlace(i))
    BY DEF SafetyInvariant, LogInvariant, MarksAreAhead
  <2>2. ASSUME NEW j \in MarksInOutbox(o)' PROVE IsAhead(m, o, OutboxPlace(o, j))'
    <3>1. CASE o = n /\ j = new
      <4>1. IsAhead(m, n, Copied(n))
        BY <1>1, <2>1, <3>1
      <4> QED
        BY <1>1, <1>11, <3>1, <4>1 DEF IsAhead, Forgotten, AddedCount, LogLen
    <3>2. CASE j \in MarksInOutbox(o) /\ OutboxPlace(o, j)' = OutboxPlace(o, j)
      BY <1>1, <2>1, <3>2 DEF IsAhead, Forgotten, AddedCount, LogLen
    <3> QED
      BY <1>5, <1>8, <3>1, <3>2
  <2>3. ASSUME NEW i \in MarksInOrder(o)', delivered'[m] < i
        PROVE  IsAhead(m, o, OrderPlace(i))'
    BY <1>1, <1>7, <2>1, <2>3 DEF IsAhead, Forgotten, AddedCount, LogLen
  <2>4. /\ IsAhead(m, o, Copied(o) + 1)'
        /\ pc'[o] = "mark" => IsAhead(m, o, Copied(o))'
    BY <1>1, <1>4, <1>7, <2>1 DEF IsAhead, Forgotten, AddedCount, LogLen
  <2> QED
    BY <2>2, <2>3, <2>4
<1> QED
  BY <1>12, <1>13, <1>15, <1>16

(* A delivery to n changes no other replica, and never takes an event of   *)
(* the log from it.                                                        *)
LEMMA DeliverMoves ==
  ASSUME LogInvariant, NEW n \in Node, NEW type, Deliver(n, type),
         NEW i, i = delivered[n] + 1
  PROVE  /\ i \in DOMAIN order /\ i \in Nat
         /\ order[i] \in Message /\ order[i].type = type
         /\ delivered'[n] = i
         /\ AddedCount(n) = LogLen(i - 1) /\ AddedCount(n)' = LogLen(i)
         /\ \A m \in Node : m # n => /\ delivered'[m] = delivered[m]
                                     /\ AddedCount(m)' = AddedCount(m)
         /\ AddedCount(n) <= AddedCount(n)' /\ AddedCount(n)' \in Nat
<1>1. /\ UNCHANGED <<outbox, order, pc, batch, last, global, log, logged>>
      /\ delivered[n] < Len(order) /\ delivered[n] \in Nat /\ Len(order) \in Nat
      /\ order \in Seq(Message) /\ NextMessage(n).type = type
  BY DEF LogInvariant, TypeOK, Deliver, derechoThread, history
<1>2. /\ delivered'[n] = i /\ i \in Nat /\ delivered[n] = i - 1
      /\ \A m \in Node : m # n => delivered'[m] = delivered[m]
  <2>1. i \in Nat /\ delivered[n] = i - 1
    BY <1>1
  <2>2. /\ delivered'[n] = delivered[n] + 1
        /\ \A m \in Node : m # n => delivered'[m] = delivered[m]
    BY DEF LogInvariant, TypeOK, Deliver
  <2> QED
    BY <2>1, <2>2
<1>3. /\ i \in 1..Len(order)
      /\ DOMAIN order = 1..Len(order)
      /\ order[i] \in Message
  BY <1>1, <1>2, ElementOfSeq
<1>4. /\ AddedCount(n) = LogLen(i - 1)
      /\ AddedCount(n)' = LogLen(i)
      /\ \A m \in Node : m # n => AddedCount(m)' = AddedCount(m)
  BY <1>1, <1>2 DEF AddedCount, LogLen
<1>5. /\ AddedCount(n) <= AddedCount(n)' /\ AddedCount(n)' \in Nat
      /\ \A m \in Node : AddedCount(m) \in Nat
  <2>1. \A l \in 0..Len(order) : LogLen(l) \in Nat
    BY <1>1, ElementOfSeq DEF LogInvariant, TypeOK, LogFollowsOrder, LogLen
  <2>2. LogLen(i - 1) <= LogLen(i)
    BY <1>1, <1>2, <1>3 DEF LogInvariant, LogFollowsOrder
  <2>3. \A m \in Node : AddedCount(m) \in Nat
    BY Counts DEF LogInvariant
  <2> QED
    BY <1>1, <1>3, <1>4, <2>1, <2>2, <2>3
<1> QED
  BY <1>1, <1>2, <1>3, <1>4, <1>5 DEF NextMessage

LEMMA DeliverSafe ==
  ASSUME SafetyInvariant, NEW n \in Node, NEW type, Deliver(n, type)
  PROVE  CopiesAreAPrefix'
<1>0. PICK i : i = delivered[n] + 1
  OBVIOUS
<1>1. UNCHANGED <<outbox, order, pc, batch, last, global, log, logged>>
  BY DEF Deliver, derechoThread, history
<1>4. /\ \A m \in Node : m # n => AddedCount(m)' = AddedCount(m)
      /\ AddedCount(n) <= AddedCount(n)' /\ AddedCount(n)' \in Nat
  BY <1>0, DeliverMoves DEF SafetyInvariant
<1>5. \A m \in Node : AddedCount(m) \in Nat
  BY Counts DEF SafetyInvariant, LogInvariant
<1>6. CopiesAreAPrefix'
  <2> SUFFICES ASSUME NEW m \in Node
               PROVE  /\ Copied(m)' + Len(batch'[m]) <= AddedCount(m)'
                      /\ \A k \in DOMAIN global'[m] : global'[m][k] = log'[k]
                      /\ \A k \in DOMAIN batch'[m] :
                           Content(batch'[m][k]) = log'[Copied(m)' + k]
                      /\ pc'[m] # "replicate" =>
                           \/ last'[m] = Nil /\ Copied(m)' = 0
                           \/ /\ Copied(m)' > 0
                              /\ last'[m] = log'[Copied(m)'].id
    BY DEF CopiesAreAPrefix, Content
  <2>1. Copied(m)' = Copied(m) /\ Copied(m) \in Nat /\ Len(batch[m]) \in Nat
    BY <1>1, Counts, Domains DEF SafetyInvariant, LogInvariant, Copied
  <2>2. Copied(m) + Len(batch[m]) <= AddedCount(m)
    BY DEF SafetyInvariant, LogInvariant, CopiesAreAPrefix
  <2>3. Copied(m)' + Len(batch'[m]) <= AddedCount(m)'
    BY <1>1, <1>4, <1>5, <2>1, <2>2
  <2> QED
    BY <1>1, <2>1, <2>3 DEF SafetyInvariant, LogInvariant, CopiesAreAPrefix
<1> QED
  BY <1>6

(* Derecho delivers an add_event, ...                                      *)
LEMMA DeliverAddEventLog ==
  ASSUME LogInvariant, NEW n \in Node, DeliverAddEvent(n),
         NEW i, i = delivered[n] + 1,
         NEW length, length = Len(events[n])
  PROVE  /\ ListsAreSegments'
         /\ i \in DOMAIN order /\ order[i].type = "add_event"
         /\ order[i].event \in Event /\ order[i].event.replicas = {}
         /\ delivered'[n] = i
         /\ \A m \in Node : m # n => /\ delivered'[m] = delivered[m]
                                     /\ AddedCount(m)' = AddedCount(m)
                                     /\ events'[m] = events[m]
         /\ length \in Nat
         /\ DOMAIN events'[n] = 1..(length + 1) /\ DOMAIN events[n] = 1..length
         /\ \A j \in 1..length : events'[n][j] = events[n][j]
         /\ events'[n][length + 1] = order[i].event
         /\ AddedCount(n)' = AddedCount(n) + 1
         /\ \A m \in Node : Forgotten(m)' = Forgotten(m)
<1>1. /\ Deliver(n, "add_event")
      /\ UNCHANGED <<outbox, order, pc, global, log, logged>>
  BY DEF DeliverAddEvent, Deliver, derechoThread, history
<1>2. /\ i \in DOMAIN order
      /\ order[i] \in Message /\ order[i].type = "add_event"
      /\ delivered'[n] = i
      /\ AddedCount(n) = LogLen(i - 1) /\ AddedCount(n)' = LogLen(i)
      /\ \A m \in Node : m # n => /\ delivered'[m] = delivered[m]
                                  /\ AddedCount(m)' = AddedCount(m)
  BY <1>1, DeliverMoves
<1>3. order[i].event \in Event
  BY <1>2 DEF Message
<1>4. /\ LogLen(i) = LogLen(i - 1) + 1
      /\ log[LogLen(i)] = Content(order[i].event)
      /\ order[i].event.replicas = {}
  BY <1>2 DEF LogInvariant, LogFollowsOrder
<1>5. /\ events'[n] = Append(events[n], order[i].event)
      /\ \A m \in Node : m # n => events'[m] = events[m]
  BY DEF LogInvariant, TypeOK, DeliverAddEvent, AddEvent, NextMessage
<1>6. PICK b \in Nat : b = Forgotten(n)
  BY Counts DEF LogInvariant
<1>7. length \in Nat
  BY Counts DEF LogInvariant
<1>8. /\ Len(events'[n]) = length + 1
      /\ DOMAIN events'[n] = 1..(length + 1) /\ DOMAIN events[n] = 1..length
      /\ \A j \in 1..length : events'[n][j] = events[n][j]
      /\ events'[n][length + 1] = order[i].event
  <2>1. events[n] \in Seq(Event)
    BY DEF LogInvariant, TypeOK
  <2> QED
    BY <1>3, <1>5, <1>7, <2>1, AppendProperties
<1>9. /\ AddedCount(n)' = AddedCount(n) + 1
      /\ Forgotten(n)' = b
      /\ AddedCount(n) = b + length
  <2>1. Forgotten(n) + Len(events[n]) = AddedCount(n) /\ AddedCount(n) \in Nat
    BY Counts DEF LogInvariant
  <2>2. AddedCount(n)' = AddedCount(n) + 1
    BY <1>2, <1>4
  <2> QED
    BY <1>6, <1>7, <1>8, <2>1, <2>2 DEF Forgotten
<1>10. \A m \in Node : m # n => Forgotten(m)' = Forgotten(m)
  BY <1>2, <1>5 DEF Forgotten
<1>11. ListsAreSegments'
  <2> SUFFICES ASSUME NEW m \in Node
               PROVE  /\ Len(events'[m]) <= AddedCount(m)'
                      /\ \A j \in DOMAIN events'[m] :
                           Content(events'[m][j]) = log'[Forgotten(m)' + j]
    BY DEF ListsAreSegments, Content
  <2>1. CASE m # n
    BY <1>1, <1>2, <1>5, <1>10, <2>1 DEF LogInvariant, ListsAreSegments
  <2>2. CASE m = n
    <3>1. \A j \in 1..length : Content(events[n][j]) = log[b + j]
      BY <1>6, <1>8 DEF LogInvariant, ListsAreSegments
    <3>2. Content(order[i].event) = log[b + (length + 1)]
      BY <1>2, <1>4, <1>9
    <3>3. ASSUME NEW j \in 1..(length + 1) PROVE Content(events'[n][j]) = log[b + j]
      <4>1. CASE j = length + 1
        BY <1>8, <3>2, <4>1
      <4>2. CASE j \in 1..length
        BY <1>8, <3>1, <4>2
      <4> QED
        BY <4>1, <4>2
    <3>4. Len(events'[n]) <= AddedCount(n)'
      BY <1>8, <1>9
    <3>5. \A j \in DOMAIN events'[n] : Content(events'[n][j]) = log'[Forgotten(n)' + j]
      BY <1>1, <1>8, <1>9, <3>3
    <3> QED
      BY <2>2, <3>4, <3>5
  <2> QED
    BY <2>1, <2>2
<1> QED
  BY <1>2, <1>3, <1>4, <1>5, <1>6, <1>7, <1>8, <1>9, <1>10, <1>11

LEMMA DeliverAddEventSafe ==
  ASSUME SafetyInvariant, NEW n \in Node, DeliverAddEvent(n)
  PROVE  CopiesAreAPrefix' /\ MarksAreAhead'
<1>0. PICK i, length : i = delivered[n] + 1 /\ length = Len(events[n])
  OBVIOUS
<1>1. /\ Deliver(n, "add_event")
      /\ UNCHANGED <<outbox, order, pc, global, log, logged>>
  BY DEF DeliverAddEvent, Deliver, derechoThread, history
<1>2. /\ delivered'[n] = i
      /\ \A m \in Node : m # n => /\ delivered'[m] = delivered[m]
                                  /\ events'[m] = events[m]
  BY <1>0, DeliverAddEventLog DEF SafetyInvariant
<1>4. order[i].event.replicas = {}
  BY <1>0, DeliverAddEventLog DEF SafetyInvariant
<1>8. /\ DOMAIN events'[n] = 1..(length + 1) /\ DOMAIN events[n] = 1..length
      /\ \A j \in 1..length : events'[n][j] = events[n][j]
      /\ events'[n][length + 1] = order[i].event /\ length \in Nat
  BY <1>0, DeliverAddEventLog DEF SafetyInvariant
<1>10. \A m \in Node : Forgotten(m)' = Forgotten(m)
  BY <1>0, DeliverAddEventLog DEF SafetyInvariant
<1>11. PICK b \in Nat : b = Forgotten(n)
  BY Counts DEF SafetyInvariant, LogInvariant
<1>12. ASSUME NEW m \in Node, NEW o \in Node, NEW k, IsAhead(m, o, k)
       PROVE  /\ Forgotten(m)' < k
              /\ \A j \in DOMAIN events'[m] :
                   o \in events'[m][j].replicas => Forgotten(m)' + j < k
  <2>1. CASE m # n
    BY <1>2, <1>10, <1>12, <2>1 DEF IsAhead
  <2>2. CASE m = n
    <3>1. /\ b < k
          /\ \A j \in 1..length : o \in events[n][j].replicas => b + j < k
      BY <1>8, <1>11, <1>12, <2>2 DEF IsAhead
    <3>2. ASSUME NEW j \in 1..(length + 1), o \in events'[n][j].replicas
          PROVE  b + j < k
      <4>1. CASE j = length + 1
        BY <1>4, <1>8, <3>2, <4>1
      <4>2. CASE j \in 1..length
        BY <1>8, <3>1, <3>2, <4>2
      <4> QED
        BY <1>8, <4>1, <4>2
    <3> QED
      BY <1>8, <1>10, <1>11, <2>2, <3>1, <3>2
  <2> QED
    BY <2>1, <2>2
<1>13. MarksAreAhead'
  <2> SUFFICES ASSUME NEW m \in Node, NEW o \in Node
               PROVE  /\ IsAhead(m, o, Copied(o) + 1)'
                      /\ pc'[o] = "mark" => IsAhead(m, o, Copied(o))'
                      /\ \A j \in MarksInOutbox(o)' :
                           IsAhead(m, o, OutboxPlace(o, j))'
                      /\ \A l \in MarksInOrder(o)' :
                           delivered'[m] < l => IsAhead(m, o, OrderPlace(l))'
    BY DEF MarksAreAhead
  <2>1. /\ MarksInOutbox(o)' = MarksInOutbox(o)
        /\ MarksInOrder(o)' = MarksInOrder(o)
        /\ Copied(o)' = Copied(o)
    BY <1>1 DEF MarksInOutbox, AddsInOutbox, MarksInOrder, Copied
  <2>2. /\ \A j : OutboxPlace(o, j)' = OutboxPlace(o, j)
        /\ \A l : OrderPlace(l)' = OrderPlace(l)
    BY <1>1 DEF OutboxPlace, OrderPlace
  <2>3. /\ IsAhead(m, o, Copied(o) + 1)
        /\ pc[o] = "mark" => IsAhead(m, o, Copied(o))
        /\ \A j \in MarksInOutbox(o) : IsAhead(m, o, OutboxPlace(o, j))
        /\ \A l \in MarksInOrder(o) :
             delivered[m] < l => IsAhead(m, o, OrderPlace(l))
    BY DEF SafetyInvariant, LogInvariant, MarksAreAhead
  <2>4. IsAhead(m, o, Copied(o) + 1)'
    BY <1>12, <2>1, <2>3 DEF IsAhead
  <2>5. pc'[o] = "mark" => IsAhead(m, o, Copied(o))'
    BY <1>1, <1>12, <2>1, <2>3 DEF IsAhead
  <2>6. ASSUME NEW j \in MarksInOutbox(o)' PROVE IsAhead(m, o, OutboxPlace(o, j))'
    <3>1. IsAhead(m, o, OutboxPlace(o, j))
      BY <2>1, <2>3
    <3> QED
      BY <1>12, <2>2, <3>1 DEF IsAhead
  <2>7. ASSUME NEW l \in MarksInOrder(o)', delivered'[m] < l
        PROVE  IsAhead(m, o, OrderPlace(l))'
    <3>1. delivered[m] < l
      <4>1. delivered[m] \in Nat
        BY Counts DEF SafetyInvariant, LogInvariant
      <4>2. l \in Nat
        BY <2>1, Domains DEF SafetyInvariant, LogInvariant, MarksInOrder
      <4> QED
        BY <1>0, <1>2, <2>7, <4>1, <4>2
    <3>2. IsAhead(m, o, OrderPlace(l))
      BY <2>1, <2>3, <3>1
    <3> QED
      BY <1>12, <2>2, <3>2 DEF IsAhead
  <2> QED
    BY <2>4, <2>5, <2>6, <2>7
<1> QED
  BY <1>1, <1>13, DeliverSafe

(* What mark_produced does to a list that holds the event at place m: the  *)
(* events up to m are marked, the first c leave, and when any leave, the   *)
(* last of them has the marks of all instances.                            *)
MarkedUpTo(list, result, d, m, c) ==
  /\ result \in Seq(Event)
  /\ Len(result) = Len(list) - c
  /\ \A j \in 1..(Len(list) - c) :
       /\ Content(result[j]) = Content(list[j + c])
       /\ result[j].replicas \subseteq list[j + c].replicas \cup {d}
       /\ j + c > m => result[j].replicas = list[j + c].replicas
       /\ j + c <= m => result[j].replicas = list[j + c].replicas \cup {d}
  /\ c # 0 => list[c].replicas \cup {d} = Node

(* That is so when the list holds the event once.                          *)
LEMMA MarkProducedAtPlace ==
  ASSUME NEW list \in Seq(Event), NEW d \in Node, NEW id,
         NEW m \in 1..Len(list),
         \A j \in 1..Len(list) : list[j].id = id <=> j = m
  PROVE  \E c \in 0..m :
           MarkedUpTo(list, MarkProduced(list, Replicas, d, id), d, m, c)
<1> DEFINE result == MarkProduced(list, Replicas, d, id)
           marked == Marked(list, d, id)
<1>1. PICK c : c = LastCompleted(list, Replicas, d, id)
  OBVIOUS
<1>2. list \in Events(Ids, Node, Node) /\ Len(list) \in Nat
      /\ DOMAIN list = 1..Len(list)
  BY EventsOfTheLists
<1>3. ASSUME NEW j \in 1..Len(list) PROVE j \in Visited(list, id) <=> j <= m
  <2>1. j \in Visited(list, id) <=> \A i \in 1..(j - 1) : list[i].id # id
    BY <1>2 DEF Visited
  <2>2. \A i \in 1..(j - 1) : i \in 1..Len(list)
    BY <1>2
  <2>3. \A i \in 1..(j - 1) : list[i].id = id <=> i = m
    BY <2>2
  <2> QED
    BY <1>2, <2>1, <2>3
<1>4. /\ c \in 0..Len(list)
      /\ c # 0 => c \in Completed(list, Replicas, d, id)
  BY <1>1, <1>2, LastCompletedProperties
<1>5. c # 0 => /\ c <= m
               /\ Cardinality(marked[c].replicas) = Replicas
  <2>1. c # 0 => /\ c \in Visited(list, id)
                 /\ Cardinality(marked[c].replicas) = Replicas
    BY <1>4 DEF Completed
  <2> QED
    BY <1>2, <1>3, <1>4, <2>1
<1>6. c \in 0..m
  BY <1>2, <1>4, <1>5
<1>7. /\ marked \in Seq(Event) /\ Len(marked) = Len(list)
      /\ \A j \in 1..Len(list) :
           /\ marked[j].id = list[j].id
           /\ marked[j].payload = list[j].payload
           /\ j \in Visited(list, id) => marked[j].replicas = list[j].replicas \cup {d}
           /\ j \notin Visited(list, id) => marked[j].replicas = list[j].replicas
  BY <1>2, MarkedProperties, EventsOfTheLists
<1>8. /\ result \in Seq(Event) /\ Len(result) = Len(list) - c
      /\ \A j \in 1..(Len(list) - c) : result[j] = marked[j + c]
  BY <1>1, <1>2, MarkProducedProperties, EventsOfTheLists
<1> HIDE DEF result, marked
<1>9. c # 0 => list[c].replicas \cup {d} = Node
  <2> SUFFICES ASSUME c # 0 PROVE list[c].replicas \cup {d} = Node
    OBVIOUS
  <2>1. c \in 1..Len(list) /\ c \in Visited(list, id)
    BY <1>2, <1>3, <1>4, <1>5
  <2>2. marked[c].replicas = list[c].replicas \cup {d}
    BY <1>7, <2>1
  <2>3. marked[c].replicas \subseteq Node
    <3>1. list[c] \in Event
      BY <2>1, ElementOfSeq
    <3> QED
      BY <2>2, <3>1 DEF Event
  <2>4. Cardinality(marked[c].replicas) = Cardinality(Node)
    BY <1>5, ReplicasAssumption
  <2>5. marked[c].replicas = Node
    BY <2>3, <2>4, ReplicasAssumption, FS_Subset
  <2> QED
    BY <2>2, <2>5
<1>10. ASSUME NEW j \in 1..(Len(list) - c)
       PROVE  /\ Content(result[j]) = Content(list[j + c])
              /\ result[j].replicas \subseteq list[j + c].replicas \cup {d}
              /\ j + c > m => result[j].replicas = list[j + c].replicas
              /\ j + c <= m => result[j].replicas = list[j + c].replicas \cup {d}
  <2>1. j + c \in 1..Len(list)
    BY <1>2, <1>4
  <2>2. result[j] = marked[j + c]
    BY <1>8
  <2>3. Content(result[j]) = Content(list[j + c])
    BY <1>7, <2>1, <2>2 DEF Content
  <2>4. j + c > m <=> j + c \notin Visited(list, id)
    BY <1>2, <1>3, <2>1
  <2> QED
    BY <1>7, <2>1, <2>2, <2>3, <2>4
<1>11. MarkedUpTo(list, result, d, m, c)
  BY <1>8, <1>9, <1>10 DEF MarkedUpTo
<1> QED
  BY <1>6, <1>11 DEF result

(* The places of marks are places of the log.                              *)
LEMMA PlacesAreNumbers ==
  ASSUME LogInvariant, NEW n \in Node
  PROVE  /\ \A i \in MarksInOrder(n) : i \in Nat /\ OrderPlace(i) \in 1..Len(log)
         /\ \A j \in MarksInOutbox(n) : j \in Nat /\ OutboxPlace(n, j) \in 1..Len(log)
<1>1. /\ DOMAIN log = 1..Len(log) /\ DOMAIN order = 1..Len(order)
      /\ DOMAIN outbox[n] = 1..Len(outbox[n])
  BY DEF LogInvariant, TypeOK
<1>2. ASSUME NEW i \in MarksInOrder(n)
      PROVE  i \in Nat /\ OrderPlace(i) \in 1..Len(log)
  <2>1. IsPlaced(log, order[i].id)
    BY DEF LogInvariant, MarksArePlaced
  <2>2. OrderPlace(i) \in DOMAIN log
    BY <2>1, PlaceIsThere DEF OrderPlace
  <2>3. i \in DOMAIN order
    BY DEF MarksInOrder
  <2> QED
    BY <1>1, <2>2, <2>3
<1>3. ASSUME NEW j \in MarksInOutbox(n)
      PROVE  j \in Nat /\ OutboxPlace(n, j) \in 1..Len(log)
  <2>1. IsPlaced(log, outbox[n][j].id)
    BY DEF LogInvariant, MarksArePlaced
  <2>2. OutboxPlace(n, j) \in DOMAIN log
    BY <2>1, PlaceIsThere DEF OutboxPlace
  <2>3. j \in DOMAIN outbox[n]
    BY DEF MarksInOutbox
  <2> QED
    BY <1>1, <2>2, <2>3
<1> QED
  BY <1>2, <1>3

(* The next mark of a replica names an event that the replica holds: place *)
(* k of the log is entry k - Forgotten(n) of its list.                     *)
LEMMA MarkIsInTheList ==
  ASSUME LogInvariant, NEW n \in Node,
         delivered[n] < Len(order), NextMessage(n).type = "mark_produced",
         NEW i, i = delivered[n] + 1,
         NEW d, d = order[i].derecho_id,
         NEW k, k = OrderPlace(i), Forgotten(n) < k
  PROVE  /\ d \in Node /\ i \in MarksInOrder(d)
         /\ k \in Nat
         /\ k - Forgotten(n) \in 1..Len(events[n])
         /\ \A j \in 1..Len(events[n]) :
              events[n][j].id = order[i].id <=> j = k - Forgotten(n)
<1>1. delivered[n] \in 0..Len(order) /\ Len(order) \in Nat
  BY Counts DEF LogInvariant
<1>2. /\ i \in DOMAIN order
      /\ order[i] \in Message /\ order[i].type = "mark_produced"
      /\ AddedCount(n) = LogLen(i - 1)
  <2>1. i \in 1..Len(order) /\ delivered[n] = i - 1
    BY <1>1
  <2>2. order \in Seq(Message)
    BY DEF LogInvariant, TypeOK
  <2>3. i \in DOMAIN order /\ order[i] \in Message
    BY <2>1, <2>2, ElementOfSeq
  <2> QED
    BY <2>1, <2>3 DEF NextMessage, AddedCount
<1>3. d \in Node /\ i \in MarksInOrder(d)
  BY <1>2 DEF Message, MarksInOrder
<1>4. /\ IsPlaced(log, order[i].id) /\ k <= LogLen(i)
      /\ LogLen(i) = LogLen(i - 1)
  BY <1>2, <1>3 DEF LogInvariant, MarksArePlaced, LogFollowsOrder
<1>5. k \in DOMAIN log /\ log[k].id = order[i].id
  BY <1>4, PlaceIsThere DEF OrderPlace
<1>6. DOMAIN log = 1..Len(log) /\ DOMAIN events[n] = 1..Len(events[n])
  BY DEF LogInvariant, TypeOK
<1>7. PICK b \in Nat : b = Forgotten(n)
  BY Counts DEF LogInvariant
<1>8. /\ Len(events[n]) \in Nat /\ AddedCount(n) \in Nat /\ Len(log) \in Nat
      /\ b + Len(events[n]) = AddedCount(n) /\ AddedCount(n) <= Len(log)
  BY <1>7, Counts DEF LogInvariant
<1>9. b < k
  BY <1>7
<1>10. k \in Nat /\ k <= AddedCount(n)
  BY <1>2, <1>4, <1>5, <1>6, <1>8
<1>11. k - b \in 1..Len(events[n])
  BY <1>8, <1>9, <1>10
<1>12. ASSUME NEW j \in 1..Len(events[n])
       PROVE  events[n][j].id = order[i].id <=> j = k - b
  <2>1. Content(events[n][j]) = log[b + j]
    BY <1>6, <1>7 DEF LogInvariant, ListsAreSegments
  <2>2. events[n][j].id = log[b + j].id
    <3>1. Content(events[n][j]).id = events[n][j].id
      BY DEF Content
    <3> QED
      BY <2>1, <3>1
  <2>3. b + j \in DOMAIN log
    BY <1>6, <1>8
  <2>4. log[b + j].id = log[k].id <=> b + j = k
    BY <1>5, <2>3 DEF LogInvariant, EventsOnce
  <2>5. b + j = k <=> j = k - b
    BY <1>8, <1>10
  <2> QED
    BY <1>5, <2>2, <2>4, <2>5
<1> QED
  BY <1>3, <1>5, <1>7, <1>10, <1>11, <1>12

(* ... or a mark_produced.                                                 *)
LEMMA DeliverMarkLog ==
  ASSUME LogInvariant, NEW n \in Node, DeliverMarkProduced(n),
         NEW i, i = delivered[n] + 1, NEW d, d = order[i].derecho_id,
         NEW k, k = OrderPlace(i), NEW b, b = Forgotten(n), b < k
  PROVE  /\ ListsAreSegments'
         /\ d \in Node /\ i \in MarksInOrder(d) /\ delivered'[n] = i
         /\ k \in Nat /\ b \in Nat /\ k - b \in 1..Len(events[n])
         /\ \A m \in Node : m # n => /\ delivered'[m] = delivered[m]
                                     /\ AddedCount(m)' = AddedCount(m)
                                     /\ events'[m] = events[m]
                                     /\ Forgotten(m)' = Forgotten(m)
         /\ AddedCount(n)' = AddedCount(n)
         /\ \E c \in 0..(k - b) :
              /\ MarkedUpTo(events[n], events'[n], d, k - b, c)
              /\ Forgotten(n)' = b + c
<1>1. /\ Deliver(n, "mark_produced")
      /\ UNCHANGED <<outbox, order, pc, global, log, logged>>
  BY DEF DeliverMarkProduced, Deliver, derechoThread, history
<1>2. /\ i \in DOMAIN order
      /\ order[i] \in Message /\ order[i].type = "mark_produced"
      /\ delivered'[n] = i
      /\ AddedCount(n) = LogLen(i - 1) /\ AddedCount(n)' = LogLen(i)
      /\ \A m \in Node : m # n => /\ delivered'[m] = delivered[m]
                                  /\ AddedCount(m)' = AddedCount(m)
  BY <1>1, DeliverMoves
<1>5. b \in Nat /\ b = Forgotten(n)
  BY Counts DEF LogInvariant
<1>6. PICK length \in Nat : length = Len(events[n])
  BY Counts DEF LogInvariant
<1>7. /\ d \in Node /\ i \in MarksInOrder(d)
      /\ k \in Nat
      /\ k - b \in 1..length
      /\ \A j \in 1..length : events[n][j].id = order[i].id <=> j = k - b
  <2>1. delivered[n] < Len(order) /\ NextMessage(n).type = "mark_produced"
    BY DEF DeliverMarkProduced, Deliver
  <2> QED
    BY <1>5, <1>6, <2>1, MarkIsInTheList
<1>8. /\ events'[n] = MarkProduced(events[n], Replicas, d, order[i].id)
      /\ \A m \in Node : m # n => events'[m] = events[m]
  BY DEF LogInvariant, TypeOK, DeliverMarkProduced, NextMessage
<1>9. events[n] \in Seq(Event) /\ DOMAIN events[n] = 1..length
  BY <1>6 DEF LogInvariant, TypeOK
<1>10. PICK c \in 0..(k - b) : MarkedUpTo(events[n], events'[n], d, k - b, c)
  <2>1. k - b \in 1..Len(events[n])
    BY <1>6, <1>7
  <2>2. \A j \in 1..Len(events[n]) : events[n][j].id = order[i].id <=> j = k - b
    BY <1>6, <1>7
  <2>3. \E c \in 0..(k - b) :
          MarkedUpTo(events[n], MarkProduced(events[n], Replicas, d, order[i].id),
                     d, k - b, c)
    BY <1>7, <1>9, <2>1, <2>2, MarkProducedAtPlace
  <2> QED
    BY <1>8, <2>3
<1>11. /\ Len(events'[n]) = length - c /\ events'[n] \in Seq(Event)
       /\ \A j \in 1..(length - c) :
            /\ Content(events'[n][j]) = Content(events[n][j + c])
            /\ events'[n][j].replicas \subseteq events[n][j + c].replicas \cup {d}
            /\ j + c > k - b => events'[n][j].replicas = events[n][j + c].replicas
       /\ c # 0 => events[n][c].replicas \cup {d} = Node
  BY <1>6, <1>10 DEF MarkedUpTo
<1>12. /\ AddedCount(n)' = b + length /\ AddedCount(n)' = AddedCount(n)
       /\ Forgotten(n)' = b + c
       /\ c <= length /\ c \in Nat /\ b \in Nat
  <2>1. Forgotten(n) + Len(events[n]) = AddedCount(n) /\ AddedCount(n) \in Nat
    BY Counts DEF LogInvariant
  <2>2. AddedCount(n)' = AddedCount(n)
    BY <1>2 DEF LogInvariant, LogFollowsOrder
  <2>3. c <= length /\ c \in Nat
    BY <1>7, <1>11
  <2> QED
    BY <1>5, <1>6, <1>11, <2>1, <2>2, <2>3 DEF Forgotten
<1>13. DOMAIN events'[n] = 1..(length - c)
  BY <1>11
<1>14. \A m \in Node : m # n => Forgotten(m)' = Forgotten(m)
  BY <1>2, <1>8 DEF Forgotten
<1>15. ListsAreSegments'
  <2> SUFFICES ASSUME NEW m \in Node
               PROVE  /\ Len(events'[m]) <= AddedCount(m)'
                      /\ \A j \in DOMAIN events'[m] :
                           Content(events'[m][j]) = log'[Forgotten(m)' + j]
    BY DEF ListsAreSegments, Content
  <2>1. CASE m # n
    BY <1>1, <1>2, <1>8, <1>14, <2>1 DEF LogInvariant, ListsAreSegments
  <2>2. CASE m = n
    <3>1. Len(events'[n]) <= AddedCount(n)'
      BY <1>11, <1>12
    <3>2. ASSUME NEW j \in 1..(length - c)
          PROVE  Content(events'[n][j]) = log[b + c + j]
      <4>1. j + c \in 1..length /\ b + (j + c) = b + c + j
        BY <1>12
      <4>2. Content(events[n][j + c]) = log[b + (j + c)]
        BY <1>5, <1>9, <4>1 DEF LogInvariant, ListsAreSegments
      <4>3. Content(events'[n][j]) = Content(events[n][j + c])
        BY <1>11
      <4> QED
        BY <4>1, <4>2, <4>3
    <3> QED
      BY <1>1, <1>12, <1>13, <2>2, <3>1, <3>2
  <2> QED
    BY <2>1, <2>2
<1> QED
  BY <1>2, <1>5, <1>6, <1>7, <1>8, <1>10, <1>12, <1>14, <1>15

LEMMA DeliverMarkProducedSafe ==
  ASSUME SafetyInvariant, NEW n \in Node, DeliverMarkProduced(n)
  PROVE  CopiesAreAPrefix' /\ ListsAreSegments' /\ MarksAreAhead'
<1>0. PICK i, d, k, b : /\ i = delivered[n] + 1 /\ d = order[i].derecho_id
                        /\ k = OrderPlace(i) /\ b = Forgotten(n)
  OBVIOUS
<1>1. /\ Deliver(n, "mark_produced")
      /\ UNCHANGED <<outbox, order, pc, global, log, logged>>
  BY DEF DeliverMarkProduced, Deliver, derechoThread, history
<1>2. d \in Node /\ i \in MarksInOrder(d)
  <2>1. i \in DOMAIN order /\ order[i] \in Message
        /\ order[i].type = "mark_produced"
    BY <1>0, <1>1, DeliverMoves DEF SafetyInvariant
  <2> QED
    BY <1>0, <2>1 DEF Message, MarksInOrder
<1>3. b < k
  <2>1. delivered[n] < i
    BY <1>0, Counts DEF SafetyInvariant, LogInvariant
  <2>2. IsAhead(n, d, OrderPlace(i))
    BY <1>2, <2>1 DEF SafetyInvariant, MarksAreAhead
  <2> QED
    BY <1>0, <2>2 DEF IsAhead
<1>4. k <= Copied(d) /\ (pc[d] = "mark" => k < Copied(d))
  BY <1>0, <1>2 DEF SafetyInvariant, MarksAreCopied, MarkIsCopied, OrderPlace
<1>5. /\ ListsAreSegments' /\ delivered'[n] = i
      /\ k \in Nat /\ b \in Nat /\ k - b \in 1..Len(events[n])
      /\ \A m \in Node : m # n => /\ delivered'[m] = delivered[m]
                                  /\ events'[m] = events[m]
                                  /\ Forgotten(m)' = Forgotten(m)
      /\ \E c \in 0..(k - b) :
           /\ MarkedUpTo(events[n], events'[n], d, k - b, c)
           /\ Forgotten(n)' = b + c
  BY <1>0, <1>3, DeliverMarkLog DEF SafetyInvariant
<1>6. PICK length \in Nat : length = Len(events[n])
  BY Counts DEF SafetyInvariant, LogInvariant
<1>9. DOMAIN events[n] = 1..length
  BY <1>6 DEF SafetyInvariant, LogInvariant, TypeOK
<1>10. PICK c \in 0..(k - b) :
              /\ MarkedUpTo(events[n], events'[n], d, k - b, c)
              /\ Forgotten(n)' = b + c
  BY <1>5
<1>11. /\ Len(events'[n]) = length - c /\ events'[n] \in Seq(Event)
       /\ \A j \in 1..(length - c) :
            /\ events'[n][j].replicas \subseteq events[n][j + c].replicas \cup {d}
            /\ j + c > k - b => events'[n][j].replicas = events[n][j + c].replicas
       /\ c # 0 => events[n][c].replicas \cup {d} = Node
  BY <1>6, <1>10 DEF MarkedUpTo
<1>12. c <= length /\ c \in Nat /\ b \in Nat
  BY <1>5, <1>6, <1>10
<1>13. DOMAIN events'[n] = 1..(length - c)
  BY <1>11
<1>16. ASSUME NEW m \in Node, NEW o \in Node, NEW l \in Int, IsAhead(m, o, l),
              m = n /\ o = d => k < l
       PROVE  /\ Forgotten(m)' < l
              /\ \A j \in DOMAIN events'[m] :
                   o \in events'[m][j].replicas => Forgotten(m)' + j < l
  <2>1. CASE m # n
    BY <1>5, <1>16, <2>1 DEF IsAhead
  <2>2. CASE m = n
    <3>1. /\ b < l
          /\ \A j \in 1..length : o \in events[n][j].replicas => b + j < l
      BY <1>0, <1>9, <1>16, <2>2 DEF IsAhead
    <3>2. o = d => k < l
      BY <1>16, <2>2
    <3>3. b + c < l
      <4>1. CASE c = 0
        BY <1>12, <3>1, <4>1
      <4>2. CASE c # 0 /\ o = d
        BY <1>5, <1>6, <1>10, <1>12, <3>2, <4>2
      <4>3. CASE c # 0 /\ o # d
        <5>1. o \in events[n][c].replicas /\ c \in 1..length
          BY <1>11, <1>12, <4>3
        <5> QED
          BY <3>1, <5>1
      <4> QED
        BY <4>1, <4>2, <4>3
    <3>4. ASSUME NEW j \in 1..(length - c), o \in events'[n][j].replicas
          PROVE  b + c + j < l
      <4>0. j \in Nat /\ j + c \in 1..length /\ b + (j + c) = b + c + j
        BY <1>12
      <4>1. /\ events'[n][j].replicas \subseteq events[n][j + c].replicas \cup {d}
            /\ j + c > k - b => events'[n][j].replicas = events[n][j + c].replicas
        BY <1>11
      <4>2. CASE o \in events[n][j + c].replicas
        BY <3>1, <4>0, <4>2
      <4>3. CASE o \notin events[n][j + c].replicas
        <5>1. o = d /\ ~(j + c > k - b)
          BY <3>4, <4>1, <4>3
        <5> QED
          BY <1>5, <1>12, <3>2, <4>0, <5>1
      <4> QED
        BY <4>2, <4>3
    <3> QED
      BY <1>10, <1>13, <2>2, <3>3, <3>4
  <2> QED
    BY <2>1, <2>2
<1>17. MarksAreAhead'
  <2> SUFFICES ASSUME NEW m \in Node, NEW o \in Node
               PROVE  /\ IsAhead(m, o, Copied(o) + 1)'
                      /\ pc'[o] = "mark" => IsAhead(m, o, Copied(o))'
                      /\ \A j \in MarksInOutbox(o)' :
                           IsAhead(m, o, OutboxPlace(o, j))'
                      /\ \A l \in MarksInOrder(o)' :
                           delivered'[m] < l => IsAhead(m, o, OrderPlace(l))'
    BY DEF MarksAreAhead
  <2>1. /\ MarksInOutbox(o)' = MarksInOutbox(o)
        /\ MarksInOrder(o)' = MarksInOrder(o)
        /\ Copied(o)' = Copied(o) /\ Copied(o) \in Nat
    BY <1>1, Counts DEF SafetyInvariant, LogInvariant, MarksInOutbox, AddsInOutbox,
                        MarksInOrder, Copied
  <2>2. /\ \A j : OutboxPlace(o, j)' = OutboxPlace(o, j)
        /\ \A l : OrderPlace(l)' = OrderPlace(l)
    BY <1>1 DEF OutboxPlace, OrderPlace
  <2>3. /\ IsAhead(m, o, Copied(o) + 1)
        /\ pc[o] = "mark" => IsAhead(m, o, Copied(o))
        /\ \A j \in MarksInOutbox(o) : IsAhead(m, o, OutboxPlace(o, j))
        /\ \A l \in MarksInOrder(o) :
             delivered[m] < l => IsAhead(m, o, OrderPlace(l))
    BY DEF SafetyInvariant, LogInvariant, MarksAreAhead
  <2>4. IsAhead(m, o, Copied(o) + 1)'
    <3>1. o = d => k < Copied(o) + 1
      BY <1>4, <1>5, <2>1
    <3> QED
      BY <1>16, <2>1, <2>3, <3>1 DEF IsAhead
  <2>5. pc'[o] = "mark" => IsAhead(m, o, Copied(o))'
    <3>1. pc[o] = "mark" /\ o = d => k < Copied(o)
      BY <1>4
    <3> QED
      BY <1>1, <1>16, <2>1, <2>3, <3>1 DEF IsAhead
  <2>6. ASSUME NEW j \in MarksInOutbox(o)' PROVE IsAhead(m, o, OutboxPlace(o, j))'
    <3>1. IsAhead(m, o, OutboxPlace(o, j)) /\ OutboxPlace(o, j) \in Int
      BY <2>1, <2>3, PlacesAreNumbers DEF SafetyInvariant
    <3>2. o = d => k < OutboxPlace(o, j)
      BY <1>0, <1>2, <2>1 DEF SafetyInvariant, LogInvariant, MarksMoveForward
    <3> QED
      BY <1>16, <2>2, <3>1, <3>2 DEF IsAhead
  <2>7. ASSUME NEW l \in MarksInOrder(o)', delivered'[m] < l
        PROVE  IsAhead(m, o, OrderPlace(l))'
    <3>1. delivered[m] < l
      <4>1. delivered[n] \in Nat
        BY DEF SafetyInvariant, LogInvariant, TypeOK
      <4>2. l \in Nat
        BY <2>1, PlacesAreNumbers DEF SafetyInvariant
      <4>3. CASE m = n
        <5>1. delivered'[m] = delivered[n] + 1
          BY <1>0, <1>5, <4>3
        <5> QED
          BY <2>7, <4>1, <4>2, <4>3, <5>1
      <4>4. CASE m # n
        BY <1>5, <2>7, <4>4
      <4> QED
        BY <4>3, <4>4
    <3>2. IsAhead(m, o, OrderPlace(l)) /\ OrderPlace(l) \in Int
      BY <2>1, <2>3, <3>1, PlacesAreNumbers
         DEF SafetyInvariant
    <3>3. m = n /\ o = d => k < OrderPlace(l)
      <4>1. m = n => i < l
        BY <1>5, <2>7
      <4> QED
        BY <1>0, <1>2, <2>1, <4>1 DEF SafetyInvariant, LogInvariant, MarksMoveForward
    <3> QED
      BY <1>16, <2>2, <3>2, <3>3 DEF IsAhead
  <2> QED
    BY <2>4, <2>5, <2>6, <2>7
<1> QED
  BY <1>1, <1>5, <1>17, DeliverSafe

(* Derecho orders the oldest message of n: the others move up, ...         *)
WasAt(m, n, j) == IF m = n THEN j + 1 ELSE j

LEMMA OutboxMovesUp ==
  ASSUME LogInvariant, NEW n \in Node, OrderMessage(n), NEW m \in Node
  PROVE  /\ \A j \in AddsInOutbox(m)' :
              /\ j \in Nat \ {0} /\ WasAt(m, n, j) \in AddsInOutbox(m)
              /\ outbox'[m][j] = outbox[m][WasAt(m, n, j)]
         /\ \A j \in MarksInOutbox(m)' :
              /\ j \in Nat \ {0} /\ WasAt(m, n, j) \in MarksInOutbox(m)
              /\ outbox'[m][j] = outbox[m][WasAt(m, n, j)]
<1>1. /\ outbox[n] \in Seq(Message) /\ outbox[n] # <<>>
      /\ outbox[m] \in Seq(Message)
  BY DEF LogInvariant, TypeOK, OrderMessage
<1>2. outbox'[n] = Tail(outbox[n]) /\ (m # n => outbox'[m] = outbox[m])
  BY DEF LogInvariant, TypeOK, OrderMessage
<1>3. /\ Len(Tail(outbox[n])) = Len(outbox[n]) - 1
      /\ Len(outbox[n]) \in Nat
      /\ \A j \in 1..(Len(outbox[n]) - 1) : Tail(outbox[n])[j] = outbox[n][j + 1]
      /\ Tail(outbox[n]) \in Seq(Message)
  BY <1>1, HeadTailProperties
<1>4. DOMAIN outbox[m] = 1..Len(outbox[m]) /\ Len(outbox[m]) \in Nat
  BY <1>1
<1>5. ASSUME NEW j \in DOMAIN outbox'[m]
      PROVE  /\ j \in Nat \ {0} /\ WasAt(m, n, j) \in DOMAIN outbox[m]
             /\ outbox'[m][j] = outbox[m][WasAt(m, n, j)]
  <2>1. CASE m = n
    <3>1. DOMAIN outbox'[n] = 1..(Len(outbox[n]) - 1)
      BY <1>2, <1>3
    <3>2. j \in 1..(Len(outbox[n]) - 1)
      BY <2>1, <3>1
    <3>3. j \in Nat \ {0} /\ j + 1 \in DOMAIN outbox[n]
      BY <1>3, <1>4, <2>1, <3>2
    <3> QED
      BY <1>2, <1>3, <2>1, <3>2, <3>3 DEF WasAt
  <2>2. CASE m # n
    BY <1>2, <1>4, <2>2 DEF WasAt
  <2> QED
    BY <2>1, <2>2
<1> QED
  BY <1>5 DEF AddsInOutbox, MarksInOutbox

(* ... and the order and the log grow.                                     *)
LEMMA OrderGrows ==
  ASSUME LogInvariant, NEW n \in Node, OrderMessage(n),
         NEW head, head = outbox[n][1], NEW top, top = Len(order) + 1
  PROVE  /\ UNCHANGED <<position, polled, pc, batch, last, delivered, events, global>>
         /\ head \in Message
         /\ head.type = "add_event" => 1 \in AddsInOutbox(n)
         /\ head.type = "mark_produced" => 1 \in MarksInOutbox(n)
         /\ top \in Nat /\ Len(order') = top
         /\ order'[top] = head
         /\ \A i \in 1..Len(order) : order'[i] = order[i]
         /\ Len(logged') = top
         /\ LogLen(top)' = Len(log')
         /\ \A i \in 0..Len(order) : LogLen(i)' = LogLen(i)
         /\ head.type = "add_event" => log' = Append(log, Content(head.event))
         /\ head.type = "mark_produced" => log' = log
<1>1. /\ outbox[n] \in Seq(Message) /\ outbox[n] # <<>>
      /\ order \in Seq(Message) /\ logged \in Seq(Nat) /\ log \in Seq(Record)
      /\ Len(logged) = Len(order)
  BY DEF LogInvariant, TypeOK, OrderMessage, LogFollowsOrder
<1>2. /\ Head(outbox[n]) = head
      /\ head \in Message
      /\ 1 \in DOMAIN outbox[n]
  <2>1. 1 \in 1..Len(outbox[n])
    <3>1. Len(outbox[n]) \in Nat /\ (Len(outbox[n]) = 0 <=> outbox[n] = <<>>)
      BY <1>1, EmptySeq
    <3> QED
      BY <1>1, <3>1
  <2>2. outbox[n][1] \in Message /\ 1 \in DOMAIN outbox[n]
    BY <1>1, <2>1, ElementOfSeq
  <2> QED
    BY <1>1, <2>2
<1>3. /\ UNCHANGED <<position, polled, pc, batch, last, delivered, events, global>>
      /\ order' = Append(order, head) /\ logged' = Append(logged, Len(log'))
      /\ head.type = "add_event" => log' = Append(log, Content(head.event))
      /\ head.type # "add_event" => log' = log
  BY <1>2 DEF OrderMessage, kafkaThread, derechoThread
<1>4. Len(log') \in Nat
  BY NextType DEF LogInvariant, TypeOK, Next, Multicast
<1>5. /\ Len(order') = Len(order) + 1 /\ order'[Len(order) + 1] = head
      /\ \A i \in 1..Len(order) : order'[i] = order[i]
      /\ Len(order) \in Nat
  BY <1>1, <1>2, <1>3, AppendProperties
<1>6. /\ Len(logged') = Len(logged) + 1 /\ logged'[Len(logged) + 1] = Len(log')
      /\ \A i \in 1..Len(logged) : logged'[i] = logged[i]
  BY <1>1, <1>3, <1>4, AppendProperties
<1>7. LogLen(top)' = Len(log')
  <2>1. top # 0 /\ logged'[top] = Len(log')
    BY <1>1, <1>5, <1>6
  <2> QED
    BY <2>1 DEF LogLen
<1>8. \A i \in 0..Len(order) : LogLen(i)' = LogLen(i)
  <2> SUFFICES ASSUME NEW i \in 0..Len(order) PROVE LogLen(i)' = LogLen(i)
    OBVIOUS
  <2>1. i = 0 \/ i \in 1..Len(logged)
    BY <1>1, <1>5
  <2> QED
    BY <1>6, <2>1 DEF LogLen
<1>9. /\ head.type = "add_event" => 1 \in AddsInOutbox(n)
      /\ head.type = "mark_produced" => 1 \in MarksInOutbox(n)
  BY <1>2 DEF AddsInOutbox, MarksInOutbox
<1> QED
  BY <1>1, <1>2, <1>3, <1>5, <1>6, <1>7, <1>8, <1>9

(* No event is ordered twice, ...                                          *)
LEMMA OrderMessageEventsOnce ==
  ASSUME UniqueIds, LogInvariant, NEW n \in Node, OrderMessage(n)
  PROVE  EventsOnce'
<1>0. PICK head, top : head = outbox[n][1] /\ top = Len(order) + 1
  OBVIOUS
<1>1. /\ UNCHANGED <<position, polled>>
      /\ head \in Message
      /\ head.type = "add_event" => /\ 1 \in AddsInOutbox(n)
                                    /\ log' = Append(log, Content(head.event))
      /\ head.type = "mark_produced" => log' = log
  BY <1>0, OrderGrows
<1>2. \A m \in Node : Issued(m)' = Issued(m)
  BY <1>1 DEF Issued
<1>3. head.type \in {"add_event", "mark_produced"}
      /\ (head.type = "add_event" => head.event \in Event)
  BY <1>1 DEF Message
<1>4. head.type = "add_event" => EventIsNew(n, head.event)
  BY <1>0, <1>1 DEF LogInvariant, EventsOnce
<1>5. ASSUME NEW k \in DOMAIN log'
      PROVE  \/ k \in DOMAIN log /\ log'[k] = log[k]
             \/ /\ head.type = "add_event" /\ k = Len(log) + 1
                /\ log'[k].id = head.event.id
  <2>1. CASE head.type = "mark_produced"
    BY <1>1, <2>1
  <2>2. CASE head.type = "add_event"
    <3>1. log \in Seq(Record) /\ Content(head.event) \in Record
      BY <1>3, <2>2 DEF LogInvariant, TypeOK, Content, Event, Record
    <3>2. /\ Len(log') = Len(log) + 1 /\ log' \in Seq(Record) /\ Len(log) \in Nat
          /\ \A i \in 1..Len(log) : log'[i] = log[i]
          /\ log'[Len(log) + 1] = Content(head.event)
      BY <1>1, <2>2, <3>1, AppendProperties
    <3>3. k \in 1..Len(log) \/ k = Len(log) + 1
      BY <3>2
    <3>4. DOMAIN log = 1..Len(log)
      BY <3>1
    <3> QED
      BY <2>2, <3>2, <3>3, <3>4 DEF Content
  <2> QED
    BY <1>3, <2>1, <2>2
<1>6. ASSUME NEW m \in Node, NEW j \in AddsInOutbox(m)'
      PROVE  /\ j \in Nat \ {0} /\ WasAt(m, n, j) \in AddsInOutbox(m)
             /\ outbox'[m][j] = outbox[m][WasAt(m, n, j)]
             /\ EventIsNew(m, outbox[m][WasAt(m, n, j)].event)
  BY OutboxMovesUp DEF LogInvariant, EventsOnce
<1>7. ASSUME NEW m \in Node, NEW event, EventIsNew(m, event),
             head.type = "add_event" /\ m = n => event.id # head.event.id
      PROVE  EventIsNew(m, event)'
  <2>1. head.type = "add_event" => event.id # head.event.id
    <3>1. m # n /\ head.type = "add_event" => event.id # head.event.id
      BY <1>4, <1>7 DEF EventIsNew, Issued, UniqueIds
    <3> QED
      BY <1>7, <3>1
  <2> QED
    BY <1>2, <1>5, <1>7, <2>1 DEF EventIsNew
<1>8. ASSUME NEW m \in Node, NEW j \in AddsInOutbox(m)'
      PROVE  EventIsNew(m, outbox[m][j].event)'
  <2>0. PICK event : event = outbox[m][WasAt(m, n, j)].event
    OBVIOUS
  <2>1. head.type = "add_event" /\ m = n => event.id # head.event.id
    <3>1. m = n => WasAt(m, n, j) # 1
      BY <1>6 DEF WasAt
    <3> QED
      BY <1>0, <1>1, <1>6, <2>0, <3>1 DEF LogInvariant, EventsOnce
  <2>2. EventIsNew(m, event)'
    BY <1>6, <1>7, <2>0, <2>1
  <2> QED
    BY <1>6, <2>0, <2>2 DEF EventIsNew
<1>9. ASSUME NEW m \in Node, NEW i \in AddsInOutbox(m)', NEW j \in AddsInOutbox(m)',
             outbox'[m][i].event.id = outbox'[m][j].event.id
      PROVE  i = j
  <2>1. WasAt(m, n, i) = WasAt(m, n, j)
    BY <1>6, <1>9 DEF LogInvariant, EventsOnce
  <2> QED
    BY <1>6, <2>1 DEF WasAt
<1>10. ASSUME NEW m \in Node, polled'[m] # Nil
       PROVE  /\ EventIsNew(m, polled[m])'
              /\ \A j \in AddsInOutbox(m)' :
                   outbox'[m][j].event.id # polled'[m].id
  <2>0. PICK event : event = polled[m]
    OBVIOUS
  <2>1. /\ EventIsNew(m, event)
        /\ \A j \in AddsInOutbox(m) : outbox[m][j].event.id # event.id
    BY <1>1, <1>10, <2>0 DEF LogInvariant, EventsOnce
  <2>2. head.type = "add_event" /\ m = n => event.id # head.event.id
    BY <1>0, <1>1, <2>1
  <2>3. EventIsNew(m, event)'
    BY <1>7, <2>1, <2>2
  <2> QED
    BY <1>1, <1>6, <2>0, <2>1, <2>3 DEF EventIsNew
<1>11. \A k \in DOMAIN log' : \E m \in Node : log'[k].id \in Issued(m)'
  BY <1>2, <1>4, <1>5 DEF LogInvariant, EventsOnce, EventIsNew
<1>12. \A k, l \in DOMAIN log' : log'[k].id = log'[l].id => k = l
  <2>1. \A k, l \in DOMAIN log : log[k].id = log[l].id => k = l
    BY DEF LogInvariant, EventsOnce
  <2>2. head.type = "add_event" => \A k \in DOMAIN log : log[k].id # head.event.id
    BY <1>4 DEF EventIsNew
  <2> QED
    BY <1>5, <2>1, <2>2
<1> QED
  BY <1>8, <1>9, <1>10, <1>11, <1>12 DEF EventsOnce

(* ... the log grows with the order, and what the instances hold stays     *)
(* where it is.                                                            *)
LEMMA OrderMessageLog ==
  ASSUME UniqueIds, LogInvariant, NEW n \in Node, OrderMessage(n)
  PROVE  /\ LogFollowsOrder' /\ ListsAreSegments'
         /\ \A m \in Node : /\ AddedCount(m)' = AddedCount(m)
                            /\ Forgotten(m)' = Forgotten(m)
         /\ Len(log') \in Nat /\ Len(log) <= Len(log')
         /\ \A k \in 1..Len(log) : log'[k] = log[k]
         /\ \A id : IsPlaced(log, id) => /\ IsPlaced(log, id)'
                                         /\ Place(log, id)' = Place(log, id)
<1>0. PICK head, top, old, len :
           head = outbox[n][1] /\ top = Len(order) + 1 /\ old = Len(log)
           /\ len = Len(log')
  OBVIOUS
<1>1. /\ UNCHANGED <<pc, batch, last, delivered, events, global>>
      /\ head \in Message
      /\ top \in Nat /\ Len(order') = top /\ Len(logged') = top
      /\ order'[top] = head
      /\ \A i \in 1..Len(order) : order'[i] = order[i]
      /\ LogLen(top)' = len
      /\ \A i \in 0..Len(order) : LogLen(i)' = LogLen(i)
      /\ head.type = "add_event" => /\ 1 \in AddsInOutbox(n)
                                    /\ log' = Append(log, Content(head.event))
      /\ head.type = "mark_produced" => log' = log
  BY <1>0, OrderGrows
<1>2. /\ head.type \in {"add_event", "mark_produced"}
      /\ head.type = "add_event" =>
           head.event \in Event /\ Content(head.event) \in Record
  BY <1>1 DEF Message, Event, Content, Record
<1>3. /\ log \in Seq(Record) /\ old \in Nat /\ DOMAIN log = 1..old
      /\ order \in Seq(Message) /\ Len(order) \in Nat /\ top = Len(order) + 1
      /\ DOMAIN order = 1..Len(order)
  BY <1>0 DEF LogInvariant, TypeOK
<1>4. /\ head.type = "add_event" => /\ len = old + 1
                                    /\ log'[len] = Content(head.event)
                                    /\ head.event.replicas = {}
      /\ head.type = "mark_produced" => len = old
      /\ \A k \in 1..old : log'[k] = log[k]
  <2>1. CASE head.type = "add_event"
    <3>1. /\ len = old + 1 /\ log'[old + 1] = Content(head.event)
          /\ \A k \in 1..old : log'[k] = log[k]
      BY <1>0, <1>1, <1>2, <1>3, <2>1, AppendProperties
    <3>2. head.event.replicas = {}
      BY <1>0, <1>1, <2>1 DEF LogInvariant, EventsOnce, EventIsNew
    <3> QED
      BY <2>1, <3>1, <3>2
  <2>2. CASE head.type = "mark_produced"
    BY <1>0, <1>1, <2>2
  <2> QED
    BY <1>2, <2>1, <2>2
<1>5. len \in Nat /\ old <= len
  BY <1>2, <1>3, <1>4
<1>6. /\ LogLen(Len(order)) = old /\ LogLen(top - 1) = old
      /\ \A i, j \in 0..Len(order) : i <= j => LogLen(i) <= LogLen(j)
      /\ \A i \in 0..Len(order) : LogLen(i) \in 0..old
  <2>1. /\ LogLen(Len(order)) = old
        /\ \A i, j \in 0..Len(order) : i <= j => LogLen(i) <= LogLen(j)
    BY <1>0 DEF LogInvariant, LogFollowsOrder
  <2>2. \A i \in 0..Len(order) : LogLen(i) \in Nat
    BY <1>3, ElementOfSeq DEF LogInvariant, TypeOK, LogFollowsOrder, LogLen
  <2>3. top - 1 = Len(order)
    BY <1>3
  <2> QED
    BY <1>3, <2>1, <2>2, <2>3
<1>7. LogFollowsOrder'
  <2>1. \A i, j \in 0..top : i <= j => LogLen(i)' <= LogLen(j)'
    <3> SUFFICES ASSUME NEW i \in 0..top, NEW j \in 0..top, i <= j
                 PROVE  LogLen(i)' <= LogLen(j)'
      OBVIOUS
    <3>1. CASE j \in 0..Len(order)
      BY <1>1, <1>3, <1>6, <3>1
    <3>2. CASE j = top /\ i \in 0..Len(order)
      BY <1>1, <1>3, <1>5, <1>6, <3>2
    <3>3. CASE i = top /\ j = top
      BY <1>1, <1>5, <3>3
    <3> QED
      BY <1>3, <3>1, <3>2, <3>3
  <2>2. ASSUME NEW i \in 1..top
        PROVE  /\ order'[i].type = "add_event" =>
                    /\ LogLen(i)' = LogLen(i - 1)' + 1
                    /\ log'[LogLen(i)'] = Content(order'[i].event)
                    /\ order'[i].event.replicas = {}
               /\ order'[i].type = "mark_produced" => LogLen(i)' = LogLen(i - 1)'
    <3>1. CASE i \in 1..Len(order)
      <4>1. /\ order'[i] = order[i] /\ i - 1 \in 0..Len(order) /\ i \in 0..Len(order)
            /\ LogLen(i)' = LogLen(i) /\ LogLen(i - 1)' = LogLen(i - 1)
        BY <1>1, <1>3, <3>1
      <4>2. /\ order[i].type = "add_event" =>
                 /\ LogLen(i) = LogLen(i - 1) + 1
                 /\ log[LogLen(i)] = Content(order[i].event)
                 /\ order[i].event.replicas = {}
            /\ order[i].type = "mark_produced" => LogLen(i) = LogLen(i - 1)
        BY <1>3, <3>1 DEF LogInvariant, LogFollowsOrder
      <4>3. order[i].type = "add_event" => LogLen(i) \in 1..old
        BY <1>3, <1>6, <4>1, <4>2
      <4> QED
        BY <1>4, <4>1, <4>2, <4>3
    <3>2. CASE i = top
      <4>1. /\ top - 1 \in 0..Len(order) /\ LogLen(top - 1)' = old
            /\ order'[top] = head /\ LogLen(top)' = len
        BY <1>1, <1>3, <1>6
      <4> QED
        BY <1>4, <3>2, <4>1
    <3> QED
      BY <1>3, <3>1, <3>2
  <2>3. Len(logged') = Len(order') /\ LogLen(top)' = Len(log')
        /\ DOMAIN order' = 1..top /\ 0..Len(order') = 0..top
    <3>1. order' \in Seq(Message)
      BY NextType DEF LogInvariant, TypeOK, Next, Multicast
    <3> QED
      BY <1>0, <1>1, <3>1
  <2>4. LogLen(Len(order))' = Len(log')
    BY <1>1, <2>3 DEF LogLen
  <2> QED
    BY <2>1, <2>2, <2>3, <2>4 DEF LogFollowsOrder, Content
<1>8. ASSUME NEW m \in Node
      PROVE  /\ AddedCount(m)' = AddedCount(m)
             /\ Forgotten(m)' = Forgotten(m)
  <2>1. PICK d : d = delivered[m]
    OBVIOUS
  <2>2. d \in 0..Len(order) /\ delivered'[m] = d
    BY <1>1, <1>3, <2>1 DEF LogInvariant, TypeOK
  <2>3. AddedCount(m)' = LogLen(d)' /\ AddedCount(m) = LogLen(d)
    BY <2>1, <2>2 DEF AddedCount, LogLen
  <2>4. AddedCount(m)' = AddedCount(m)
    BY <1>1, <2>2, <2>3
  <2> QED
    BY <1>1, <2>4 DEF Forgotten
<1>9. ListsAreSegments'
  <2> SUFFICES ASSUME NEW m \in Node
               PROVE  /\ Len(events'[m]) <= AddedCount(m)'
                      /\ \A j \in DOMAIN events'[m] :
                           Content(events'[m][j]) = log'[Forgotten(m)' + j]
    BY DEF ListsAreSegments, Content
  <2>1. /\ Len(events[m]) <= AddedCount(m)
        /\ \A j \in DOMAIN events[m] : Content(events[m][j]) = log[Forgotten(m) + j]
    BY DEF LogInvariant, ListsAreSegments
  <2>2. /\ AddedCount(m) \in 0..old /\ Forgotten(m) \in Nat /\ Len(events[m]) \in Nat
        /\ Forgotten(m) + Len(events[m]) = AddedCount(m)
    BY <1>0, Counts DEF LogInvariant
  <2>3. DOMAIN events[m] = 1..Len(events[m])
    BY DEF LogInvariant, TypeOK
  <2>4. \A j \in DOMAIN events[m] : Forgotten(m) + j \in 1..old
    BY <1>3, <2>2, <2>3
  <2> QED
    BY <1>1, <1>4, <1>8, <2>1, <2>4
<1>11. ASSUME NEW id, IsPlaced(log, id)
       PROVE  IsPlaced(log, id)' /\ Place(log, id)' = Place(log, id)
  <2>0. PICK grown : grown = log'
    OBVIOUS
  <2>1. Distinct(grown)
    BY <2>0, OrderMessageEventsOnce DEF EventsOnce, Distinct
  <2>2. IsPlaced(grown, id) /\ Place(grown, id) = Place(log, id)
    <3>1. CASE head.type = "add_event"
      <4>1. PICK content \in Record : grown = Append(log, content)
        BY <1>1, <1>2, <2>0, <3>1
      <4>2. Distinct(Append(log, content)) /\ log \in Seq(Record)
        BY <1>3, <2>1, <4>1
      <4>3. /\ IsPlaced(Append(log, content), id)
            /\ Place(Append(log, content), id) = Place(log, id)
        BY <1>11, <4>2, PlaceStays
      <4> QED
        BY <4>1, <4>3
    <3>2. CASE head.type = "mark_produced"
      BY <1>1, <1>11, <2>0, <3>2
    <3> QED
      BY <1>2, <3>1, <3>2
  <2> QED
    BY <2>0, <2>2 DEF IsPlaced, Place
<1> QED
  BY <1>0, <1>4, <1>5, <1>7, <1>8, <1>9, <1>11

LEMMA OrderMessageCopies ==
  ASSUME UniqueIds, SafetyInvariant, NEW n \in Node, OrderMessage(n)
  PROVE  CopiesAreAPrefix'
<1>1. UNCHANGED <<pc, batch, last, delivered, global>>
  BY DEF OrderMessage, derechoThread
<1>2. PICK old \in Nat : old = Len(log)
  BY DEF SafetyInvariant, LogInvariant, TypeOK
<1>3. /\ \A m \in Node : /\ Copied(m)' = Copied(m)
                         /\ AddedCount(m)' = AddedCount(m)
      /\ \A k \in 1..old : log'[k] = log[k]
  BY <1>1, <1>2, OrderMessageLog DEF SafetyInvariant, Copied
<1>4. CopiesAreAPrefix'
  <2> SUFFICES ASSUME NEW m \in Node
               PROVE  /\ Copied(m)' + Len(batch'[m]) <= AddedCount(m)'
                      /\ \A k \in DOMAIN global'[m] : global'[m][k] = log'[k]
                      /\ \A k \in DOMAIN batch'[m] :
                           Content(batch'[m][k]) = log'[Copied(m)' + k]
                      /\ pc'[m] # "replicate" =>
                           \/ last'[m] = Nil /\ Copied(m)' = 0
                           \/ /\ Copied(m)' > 0
                              /\ last'[m] = log'[Copied(m)'].id
    BY DEF CopiesAreAPrefix, Content
  <2>1. /\ Copied(m) + Len(batch[m]) <= AddedCount(m)
        /\ \A k \in DOMAIN global[m] : global[m][k] = log[k]
        /\ \A k \in DOMAIN batch[m] : Content(batch[m][k]) = log[Copied(m) + k]
        /\ pc[m] # "replicate" =>
             \/ last[m] = Nil /\ Copied(m) = 0
             \/ Copied(m) > 0 /\ last[m] = log[Copied(m)].id
    BY DEF SafetyInvariant, LogInvariant, CopiesAreAPrefix
  <2>2. AddedCount(m) \in 0..old /\ Copied(m) \in Nat
    BY <1>2, Counts DEF SafetyInvariant, LogInvariant
  <2>3. /\ Len(batch[m]) \in Nat /\ DOMAIN batch[m] = 1..Len(batch[m])
        /\ DOMAIN global[m] = 1..Copied(m)
    BY DEF SafetyInvariant, LogInvariant, TypeOK, Copied
  <2>4. /\ \A k \in DOMAIN global[m] : k \in 1..old
        /\ \A k \in DOMAIN batch[m] : Copied(m) + k \in 1..old
        /\ Copied(m) > 0 => Copied(m) \in 1..old
    BY <1>2, <2>1, <2>2, <2>3
  <2> QED
    BY <1>1, <1>2, <1>3, <2>1, <2>4
<1> QED
  BY <1>4

(* A mark that is ordered is the next one of its sender, the others keep   *)
(* their places.                                                           *)
LEMMA MarksMoveUp ==
  ASSUME UniqueIds, LogInvariant, NEW n \in Node, OrderMessage(n),
         NEW top, top = Len(order) + 1
  PROVE  /\ DOMAIN order = 1..Len(order) /\ Len(order) \in Nat
         /\ DOMAIN order' = 1..top /\ top \in Nat
         /\ \A m \in Node : \A i \in MarksInOrder(m)' : i # top =>
              /\ i \in MarksInOrder(m) /\ i \in 1..Len(order) /\ i < top
              /\ order'[i] = order[i] /\ OrderPlace(i)' = OrderPlace(i)
              /\ LogLen(i)' = LogLen(i)
         /\ \A m \in Node : top \in MarksInOrder(m)' =>
              /\ m = n /\ 1 \in MarksInOutbox(n) /\ log' = log
              /\ order'[top] = outbox[n][1]
              /\ OrderPlace(top)' = OutboxPlace(n, 1)
              /\ LogLen(top)' = Len(log)
         /\ \A m \in Node : \A j \in MarksInOutbox(m)' :
              /\ j \in Nat \ {0} /\ WasAt(m, n, j) \in MarksInOutbox(m)
              /\ outbox'[m][j] = outbox[m][WasAt(m, n, j)]
              /\ OutboxPlace(m, j)' = OutboxPlace(m, WasAt(m, n, j))
<1>0. PICK head : head = outbox[n][1]
  OBVIOUS
<1>1. /\ UNCHANGED <<pc, delivered, events>>
      /\ head \in Message
      /\ top \in Nat /\ Len(order') = top
      /\ order'[top] = head
      /\ \A i \in 1..Len(order) : order'[i] = order[i]
      /\ LogLen(top)' = Len(log')
      /\ \A i \in 0..Len(order) : LogLen(i)' = LogLen(i)
      /\ head.type = "mark_produced" => 1 \in MarksInOutbox(n) /\ log' = log
  BY <1>0, OrderGrows
<1>2. /\ \A id : IsPlaced(log, id) => /\ IsPlaced(log, id)'
                                      /\ Place(log, id)' = Place(log, id)
  BY OrderMessageLog
<1>3. DOMAIN order = 1..Len(order) /\ Len(order) \in Nat
  BY DEF LogInvariant, TypeOK
<1>4. DOMAIN order' = 1..top
  <2>1. order' \in Seq(Message)
    BY NextType DEF LogInvariant, TypeOK, Next, Multicast
  <2> QED
    BY <1>1, <2>1
<1>5. ASSUME NEW m \in Node, NEW i \in MarksInOrder(m)', i # top
      PROVE  /\ i \in MarksInOrder(m) /\ i \in 1..Len(order) /\ i < top
             /\ order'[i] = order[i] /\ OrderPlace(i)' = OrderPlace(i)
             /\ LogLen(i)' = LogLen(i)
  <2>1. i \in 1..Len(order) /\ i < top
    BY <1>0, <1>3, <1>4, <1>5 DEF MarksInOrder
  <2>2. order'[i] = order[i] /\ i \in MarksInOrder(m)
    BY <1>1, <1>3, <1>5, <2>1 DEF MarksInOrder
  <2>3. PICK id : id = order[i].id
    OBVIOUS
  <2>4. IsPlaced(log, id)
    BY <2>2, <2>3 DEF LogInvariant, MarksArePlaced
  <2>5. Place(log, id)' = Place(log, id)
    BY <1>2, <2>4
  <2> QED
    BY <1>1, <2>1, <2>2, <2>3, <2>5 DEF OrderPlace
<1>6. ASSUME NEW m \in Node, top \in MarksInOrder(m)'
      PROVE  /\ m = n /\ 1 \in MarksInOutbox(n) /\ log' = log
             /\ order'[top] = outbox[n][1]
             /\ OrderPlace(top)' = OutboxPlace(n, 1)
             /\ LogLen(top)' = Len(log)
  <2>1. head.type = "mark_produced" /\ head.derecho_id = m
    BY <1>1, <1>6 DEF MarksInOrder
  <2>2. head.derecho_id = n
    BY <1>0, <1>1, <2>1 DEF LogInvariant, MarksArePlaced
  <2> QED
    BY <1>0, <1>1, <2>1, <2>2 DEF OrderPlace, OutboxPlace
<1>7. ASSUME NEW m \in Node, NEW j \in MarksInOutbox(m)'
      PROVE  /\ j \in Nat \ {0} /\ WasAt(m, n, j) \in MarksInOutbox(m)
             /\ outbox'[m][j] = outbox[m][WasAt(m, n, j)]
             /\ OutboxPlace(m, j)' = OutboxPlace(m, WasAt(m, n, j))
  <2>1. /\ j \in Nat \ {0} /\ WasAt(m, n, j) \in MarksInOutbox(m)
        /\ outbox'[m][j] = outbox[m][WasAt(m, n, j)]
    BY OutboxMovesUp
  <2>2. PICK id : id = outbox[m][WasAt(m, n, j)].id
    OBVIOUS
  <2>3. IsPlaced(log, id)
    BY <2>1, <2>2 DEF LogInvariant, MarksArePlaced
  <2>4. Place(log, id)' = Place(log, id)
    BY <1>2, <2>3
  <2> QED
    BY <2>1, <2>2, <2>4 DEF OutboxPlace
<1> QED
  BY <1>1, <1>3, <1>4, <1>5, <1>6, <1>7

LEMMA OrderMessageForward ==
  ASSUME UniqueIds, LogInvariant, NEW n \in Node, OrderMessage(n)
  PROVE  MarksArePlaced' /\ MarksMoveForward'
<1>0. PICK top : top = Len(order) + 1
  OBVIOUS
<1>1. /\ DOMAIN order' = 1..top /\ top \in Nat
      /\ \A m \in Node : \A i \in MarksInOrder(m)' : i # top =>
           /\ i \in MarksInOrder(m) /\ i < top
           /\ order'[i] = order[i] /\ OrderPlace(i)' = OrderPlace(i)
           /\ LogLen(i)' = LogLen(i)
  BY <1>0, MarksMoveUp
<1>2. \A id : IsPlaced(log, id) => /\ IsPlaced(log, id)'
                                  /\ Place(log, id)' = Place(log, id)
  BY OrderMessageLog
<1>3. \A m \in Node : top \in MarksInOrder(m)' =>
        /\ m = n /\ 1 \in MarksInOutbox(n) /\ log' = log
        /\ order'[top] = outbox[n][1]
        /\ OrderPlace(top)' = OutboxPlace(n, 1) /\ LogLen(top)' = Len(log)
  BY <1>0, MarksMoveUp
<1>4. \A m \in Node : \A j \in MarksInOutbox(m)' :
        /\ j \in Nat \ {0} /\ WasAt(m, n, j) \in MarksInOutbox(m)
        /\ outbox'[m][j] = outbox[m][WasAt(m, n, j)]
        /\ OutboxPlace(m, j)' = OutboxPlace(m, WasAt(m, n, j))
  BY <1>0, MarksMoveUp
<1>5. MarksArePlaced'
  <2>1. ASSUME NEW m \in Node, NEW i \in MarksInOrder(m)'
        PROVE  IsPlaced(log, order[i].id)' /\ OrderPlace(i)' <= LogLen(i)'
    <3>0. PICK id : id = order'[i].id
      OBVIOUS
    <3>1. CASE i # top
      <4>1. IsPlaced(log, id) /\ OrderPlace(i) <= LogLen(i)
        BY <1>1, <3>0, <3>1 DEF LogInvariant, MarksArePlaced
      <4>2. IsPlaced(log, id)'
        BY <1>2, <4>1
      <4> QED
        BY <1>1, <3>0, <3>1, <4>1, <4>2 DEF IsPlaced
    <3>2. CASE i = top
      <4>1. m = n /\ 1 \in MarksInOutbox(n) /\ id = outbox[n][1].id
        BY <1>3, <3>0, <3>2
      <4>2. IsPlaced(log, id)
        BY <4>1 DEF LogInvariant, MarksArePlaced
      <4>3. IsPlaced(log, id)'
        BY <1>2, <4>2
      <4>4. OutboxPlace(n, 1) \in 1..Len(log) /\ Len(log) \in Nat
        BY <4>1, PlacesAreNumbers DEF LogInvariant, TypeOK
      <4> QED
        BY <1>3, <3>0, <3>2, <4>3, <4>4 DEF IsPlaced
    <3> QED
      BY <3>1, <3>2
  <2>2. ASSUME NEW m \in Node, NEW j \in MarksInOutbox(m)'
        PROVE  IsPlaced(log, outbox[m][j].id)' /\ outbox'[m][j].derecho_id = m
    <3>0. PICK id : id = outbox'[m][j].id
      OBVIOUS
    <3>1. IsPlaced(log, id) /\ outbox'[m][j].derecho_id = m
      BY <1>4, <3>0 DEF LogInvariant, MarksArePlaced
    <3>2. IsPlaced(log, id)'
      BY <1>2, <3>1
    <3> QED
      BY <3>0, <3>1, <3>2 DEF IsPlaced
  <2> QED
    BY <2>1, <2>2 DEF MarksArePlaced
<1>6. MarksMoveForward'
  <2> SUFFICES ASSUME NEW m \in Node
               PROVE  /\ \A i, j \in MarksInOrder(m)' :
                           i < j => OrderPlace(i)' < OrderPlace(j)'
                      /\ \A i \in MarksInOrder(m)', j \in MarksInOutbox(m)' :
                           OrderPlace(i)' < OutboxPlace(m, j)'
                      /\ \A i, j \in MarksInOutbox(m)' :
                           i < j => OutboxPlace(m, i)' < OutboxPlace(m, j)'
    BY DEF MarksMoveForward
  <2>1. /\ \A i, j \in MarksInOrder(m) : i < j => OrderPlace(i) < OrderPlace(j)
        /\ \A i \in MarksInOrder(m), j \in MarksInOutbox(m) :
             OrderPlace(i) < OutboxPlace(m, j)
        /\ \A i, j \in MarksInOutbox(m) :
             i < j => OutboxPlace(m, i) < OutboxPlace(m, j)
    BY DEF LogInvariant, MarksMoveForward
  <2>2. ASSUME NEW i \in MarksInOrder(m)', NEW j \in MarksInOrder(m)', i < j
        PROVE  OrderPlace(i)' < OrderPlace(j)'
    <3>1. i # top
      <4>1. i \in 1..top /\ j \in 1..top
        BY <1>1 DEF MarksInOrder
      <4> QED
        BY <1>1, <2>2, <4>1
    <3>2. CASE j # top
      BY <1>1, <2>1, <2>2, <3>1, <3>2
    <3>3. CASE j = top
      <4>1. /\ m = n /\ 1 \in MarksInOutbox(n)
            /\ OrderPlace(j)' = OutboxPlace(n, 1)
        BY <1>3, <3>3
      <4>2. i \in MarksInOrder(m) /\ OrderPlace(i)' = OrderPlace(i)
        BY <1>1, <3>1
      <4> QED
        BY <2>1, <4>1, <4>2
    <3> QED
      BY <3>2, <3>3
  <2>3. ASSUME NEW i \in MarksInOrder(m)', NEW j \in MarksInOutbox(m)'
        PROVE  OrderPlace(i)' < OutboxPlace(m, j)'
    <3>1. CASE i # top
      BY <1>1, <1>4, <2>1, <3>1
    <3>2. CASE i = top
      <4>1. /\ m = n /\ 1 \in MarksInOutbox(n)
            /\ OrderPlace(i)' = OutboxPlace(n, 1)
        BY <1>3, <3>2
      <4>2. /\ WasAt(m, n, j) \in MarksInOutbox(n) /\ 1 < WasAt(m, n, j)
            /\ OutboxPlace(m, j)' = OutboxPlace(n, WasAt(m, n, j))
        BY <1>4, <4>1 DEF WasAt
      <4> QED
        BY <2>1, <4>1, <4>2
    <3> QED
      BY <3>1, <3>2
  <2>4. ASSUME NEW i \in MarksInOutbox(m)', NEW j \in MarksInOutbox(m)', i < j
        PROVE  OutboxPlace(m, i)' < OutboxPlace(m, j)'
    <3>1. WasAt(m, n, i) < WasAt(m, n, j)
      BY <1>4, <2>4 DEF WasAt
    <3> QED
      BY <1>4, <2>1, <3>1
  <2> QED
    BY <2>2, <2>3, <2>4
<1> QED
  BY <1>5, <1>6

LEMMA OrderMessageMarks ==
  ASSUME UniqueIds, SafetyInvariant, NEW n \in Node, OrderMessage(n)
  PROVE  MarksAreCopied' /\ MarksAreAhead'
<1>0. PICK top : top = Len(order) + 1
  OBVIOUS
<1>1. /\ DOMAIN order' = 1..top /\ top \in Nat
      /\ \A m \in Node : \A i \in MarksInOrder(m)' : i # top =>
           /\ i \in MarksInOrder(m) /\ i < top
           /\ order'[i] = order[i] /\ OrderPlace(i)' = OrderPlace(i)
           /\ LogLen(i)' = LogLen(i)
  BY <1>0, MarksMoveUp DEF SafetyInvariant
<1>2. \A id : IsPlaced(log, id) => /\ IsPlaced(log, id)'
                                  /\ Place(log, id)' = Place(log, id)
  BY OrderMessageLog DEF SafetyInvariant
<1>3. \A m \in Node : top \in MarksInOrder(m)' =>
        /\ m = n /\ 1 \in MarksInOutbox(n) /\ log' = log
        /\ order'[top] = outbox[n][1]
        /\ OrderPlace(top)' = OutboxPlace(n, 1) /\ LogLen(top)' = Len(log)
  BY <1>0, MarksMoveUp DEF SafetyInvariant
<1>4. \A m \in Node : \A j \in MarksInOutbox(m)' :
        /\ j \in Nat \ {0} /\ WasAt(m, n, j) \in MarksInOutbox(m)
        /\ outbox'[m][j] = outbox[m][WasAt(m, n, j)]
        /\ OutboxPlace(m, j)' = OutboxPlace(m, WasAt(m, n, j))
  BY <1>0, MarksMoveUp DEF SafetyInvariant
<1>5. UNCHANGED <<pc, delivered, events, global>>
  BY DEF OrderMessage, derechoThread
<1>6. /\ \A m \in Node : Copied(m)' = Copied(m) /\ Forgotten(m)' = Forgotten(m)
      /\ top \notin DOMAIN order
  <2>1. top \notin 1..Len(order) /\ DOMAIN order = 1..Len(order)
    BY <1>0 DEF SafetyInvariant, LogInvariant, TypeOK
  <2> QED
    BY <1>5, <2>1, OrderMessageLog DEF SafetyInvariant, Copied
<1>7. ASSUME NEW m \in Node, NEW id, IsPlaced(log, id), MarkIsCopied(m, id)
      PROVE  MarkIsCopied(m, id)'
  BY <1>2, <1>5, <1>6, <1>7 DEF MarkIsCopied
<1>8. MarksAreCopied'
  <2>1. ASSUME NEW m \in Node, NEW i \in MarksInOrder(m)'
        PROVE  MarkIsCopied(m, order[i].id)'
    <3>0. PICK id : id = order'[i].id
      OBVIOUS
    <3>1. IsPlaced(log, id) /\ MarkIsCopied(m, id)
      BY <1>1, <1>3, <3>0
         DEF SafetyInvariant, LogInvariant, MarksArePlaced, MarksAreCopied
    <3>2. MarkIsCopied(m, id)'
      BY <1>7, <3>1
    <3> QED
      BY <3>0, <3>2 DEF MarkIsCopied
  <2>2. ASSUME NEW m \in Node, NEW j \in MarksInOutbox(m)'
        PROVE  MarkIsCopied(m, outbox[m][j].id)'
    <3>0. PICK id : id = outbox'[m][j].id
      OBVIOUS
    <3>1. IsPlaced(log, id) /\ MarkIsCopied(m, id)
      BY <1>4, <3>0
         DEF SafetyInvariant, LogInvariant, MarksArePlaced, MarksAreCopied
    <3>2. MarkIsCopied(m, id)'
      BY <1>7, <3>1
    <3> QED
      BY <3>0, <3>2 DEF MarkIsCopied
  <2> QED
    BY <2>1, <2>2 DEF MarksAreCopied
<1>9. MarksAreAhead'
  <2> SUFFICES ASSUME NEW m \in Node, NEW o \in Node
               PROVE  /\ IsAhead(m, o, Copied(o) + 1)'
                      /\ pc'[o] = "mark" => IsAhead(m, o, Copied(o))'
                      /\ \A j \in MarksInOutbox(o)' :
                           IsAhead(m, o, OutboxPlace(o, j))'
                      /\ \A i \in MarksInOrder(o)' :
                           delivered'[m] < i => IsAhead(m, o, OrderPlace(i))'
    BY DEF MarksAreAhead
  <2>1. /\ IsAhead(m, o, Copied(o) + 1)
        /\ pc[o] = "mark" => IsAhead(m, o, Copied(o))
        /\ \A j \in MarksInOutbox(o) : IsAhead(m, o, OutboxPlace(o, j))
        /\ \A i \in MarksInOrder(o) :
             delivered[m] < i => IsAhead(m, o, OrderPlace(i))
    BY DEF SafetyInvariant, LogInvariant, MarksAreAhead
  <2>2. ASSUME NEW j \in MarksInOutbox(o)' PROVE IsAhead(m, o, OutboxPlace(o, j))'
    <3>1. IsAhead(m, o, OutboxPlace(o, WasAt(o, n, j)))
      BY <1>4, <2>1
    <3> QED
      BY <1>4, <1>5, <1>6, <3>1 DEF IsAhead
  <2>3. ASSUME NEW i \in MarksInOrder(o)', delivered'[m] < i
        PROVE  IsAhead(m, o, OrderPlace(i))'
    <3>1. IsAhead(m, o, OrderPlace(i)')
      <4>1. CASE i # top
        BY <1>1, <1>5, <2>1, <2>3, <4>1
      <4>2. CASE i = top
        BY <1>3, <2>1, <4>2
      <4> QED
        BY <4>1, <4>2
    <3> QED
      BY <1>5, <1>6, <3>1 DEF IsAhead
  <2>4. /\ IsAhead(m, o, Copied(o) + 1)'
        /\ pc'[o] = "mark" => IsAhead(m, o, Copied(o))'
    BY <1>5, <1>6, <2>1 DEF IsAhead
  <2> QED
    BY <2>2, <2>3, <2>4
<1> QED
  BY <1>8, <1>9

----------------------------------------------------------------------------
(* The invariant holds at the start, ...                                   *)
LEMMA InitSafe == Init => SafetyInvariant
<1> SUFFICES ASSUME Init PROVE SafetyInvariant
  OBVIOUS
<1>1. TypeOK
  BY InitType
<1>2. /\ order = <<>> /\ log = <<>> /\ logged = <<>>
      /\ Len(order) = 0 /\ Len(log) = 0 /\ Len(logged) = 0
      /\ DOMAIN order = {} /\ DOMAIN log = {}
  BY DEF Init
<1>3. ASSUME NEW n \in Node
      PROVE  /\ DOMAIN outbox[n] = {} /\ DOMAIN events[n] = {}
             /\ DOMAIN global[n] = {} /\ DOMAIN batch[n] = {}
             /\ Len(events[n]) = 0 /\ Len(global[n]) = 0 /\ Len(batch[n]) = 0
             /\ delivered[n] = 0 /\ polled[n] = Nil /\ last[n] = Nil
             /\ pc[n] = "query"
  BY DEF Init
<1>4. ASSUME NEW n \in Node
      PROVE  /\ AddsInOutbox(n) = {} /\ MarksInOutbox(n) = {}
             /\ MarksInOrder(n) = {} /\ AddedCount(n) = 0
             /\ Copied(n) = 0 /\ Forgotten(n) = 0
  BY <1>2, <1>3 DEF AddsInOutbox, MarksInOutbox, MarksInOrder, AddedCount,
                    LogLen, Copied, Forgotten
<1>5. EventsOnce
  BY <1>2, <1>3, <1>4 DEF EventsOnce
<1>6. LogFollowsOrder
  <2>1. \A i \in 0..Len(order) : i = 0
    BY <1>2
  <2> QED
    BY <1>2, <2>1 DEF LogFollowsOrder, LogLen
<1>7. ListsAreSegments
  BY <1>3, <1>4 DEF ListsAreSegments
<1>8. CopiesAreAPrefix
  BY <1>3, <1>4 DEF CopiesAreAPrefix
<1>9. MarksArePlaced /\ MarksAreCopied /\ MarksMoveForward
  BY <1>4 DEF MarksArePlaced, MarksAreCopied, MarksMoveForward
<1>10. MarksAreAhead
  BY <1>3, <1>4 DEF MarksAreAhead, IsAhead
<1> QED
  BY <1>1, <1>5, <1>6, <1>7, <1>8, <1>9, <1>10 DEF SafetyInvariant, LogInvariant

(* ... and every step keeps it, one lemma per step above.                  *)
LEMMA NextSafe ==
  ASSUME UniqueIds, SafetyInvariant, [Next]_vars
  PROVE  SafetyInvariant'
<1> USE DEF kafkaThread, derechoThread, multicast, history
<1>1. TypeOK'
  BY NextType DEF SafetyInvariant, LogInvariant
<1>2. ASSUME NEW n \in Node, NEW p \in Partition, KafkaPoll(n, p)
      PROVE  SafetyInvariant'
  <2>1. UNCHANGED <<pc, batch, last, outbox, order, delivered, events, global,
                    log, logged>>
    BY <1>2 DEF KafkaPoll
  <2>2. LogInvariant'
    BY <1>1, <1>2, <2>1, KafkaPollSafe, LogFollowsOrderUnchanged,
       ListsAreSegmentsUnchanged, MarksArePlacedUnchanged,
       MarksMoveForwardUnchanged
       DEF SafetyInvariant, LogInvariant
  <2> QED
    BY <2>1, <2>2, CopiesAreAPrefixUnchanged, MarksAreCopiedUnchanged,
       MarksAreAheadUnchanged DEF SafetyInvariant
<1>3. ASSUME NEW n \in Node, SendAddEvent(n) PROVE SafetyInvariant'
  <2>1. UNCHANGED <<pc, batch, last, order, delivered, events, global, log, logged>>
    BY <1>3 DEF SendAddEvent, OrderedSend
  <2>2. LogInvariant'
    BY <1>1, <1>3, <2>1, SendAddEventLog, LogFollowsOrderUnchanged,
       ListsAreSegmentsUnchanged DEF SafetyInvariant, LogInvariant
  <2> QED
    BY <1>3, <2>1, <2>2, SendAddEventSafe, CopiesAreAPrefixUnchanged
       DEF SafetyInvariant
<1>4. ASSUME NEW n \in Node, QueryEvents(n) PROVE SafetyInvariant'
  <2>1. UNCHANGED <<position, polled, outbox, order, delivered, events, global,
                    log, logged>>
    BY <1>4 DEF QueryEvents, AcceptReply
  <2>2. LogInvariant'
    BY <1>1, <2>1, LogInvariantUnchanged DEF SafetyInvariant
  <2> QED
    BY <1>4, <2>1, <2>2, QueryEventsSafe, MarksAreCopiedUnchanged,
       MarksAreAheadUnchanged DEF SafetyInvariant
<1>5. ASSUME NEW n \in Node, ReplicateEvent(n) PROVE SafetyInvariant'
  <2>1. UNCHANGED <<position, polled, outbox, order, delivered, events, log, logged>>
    BY <1>5 DEF ReplicateEvent, GoOn
  <2>2. LogInvariant'
    BY <1>1, <2>1, LogInvariantUnchanged DEF SafetyInvariant
  <2> QED
    BY <1>5, <2>2, ReplicateEventSafe DEF SafetyInvariant
<1>6. ASSUME NEW n \in Node, SendMarkProduced(n) PROVE SafetyInvariant'
  <2>1. UNCHANGED <<order, delivered, events, log, logged>>
    BY <1>6 DEF SendMarkProduced, SendMark, OrderedSend
  <2> QED
    BY <1>1, <1>6, <2>1, SendMarkProducedSafe, LogFollowsOrderUnchanged,
       ListsAreSegmentsUnchanged
       DEF SafetyInvariant, LogInvariant
<1>7. ASSUME NEW n \in Node, OrderMessage(n) PROVE SafetyInvariant'
  <2>1. LogInvariant'
    BY <1>1, <1>7, OrderMessageEventsOnce, OrderMessageLog, OrderMessageForward
       DEF SafetyInvariant, LogInvariant
  <2> QED
    BY <1>7, <2>1, OrderMessageCopies, OrderMessageMarks DEF SafetyInvariant
<1>8. ASSUME NEW n \in Node, NEW type, Deliver(n, type), ListsAreSegments'
      PROVE  LogInvariant' /\ MarksAreCopied'
  <2>1. UNCHANGED <<position, polled, pc, outbox, order, global, log, logged>>
    BY <1>8 DEF Deliver
  <2> QED
    BY <1>1, <1>8, <2>1, EventsOnceUnchanged, LogFollowsOrderUnchanged,
       MarksArePlacedUnchanged, MarksAreCopiedUnchanged,
       MarksMoveForwardUnchanged
       DEF SafetyInvariant, LogInvariant
<1>9. ASSUME NEW n \in Node, DeliverAddEvent(n) PROVE SafetyInvariant'
  <2>1. Deliver(n, "add_event")
    BY <1>9 DEF DeliverAddEvent
  <2>2. ListsAreSegments'
    BY <1>9, DeliverAddEventLog DEF SafetyInvariant
  <2> QED
    BY <1>8, <1>9, <2>1, <2>2, DeliverAddEventSafe DEF SafetyInvariant
<1>10. ASSUME NEW n \in Node, DeliverMarkProduced(n) PROVE SafetyInvariant'
  <2>1. Deliver(n, "mark_produced")
    BY <1>10 DEF DeliverMarkProduced
  <2> QED
    BY <1>8, <1>10, <2>1, DeliverMarkProducedSafe DEF SafetyInvariant
<1>11. CASE UNCHANGED vars
  <2>1. UNCHANGED <<position, polled, pc, batch, last, outbox, order, delivered,
                    events, global, log, logged>>
    BY <1>11 DEF vars
  <2>2. LogInvariant'
    BY <1>1, <2>1, LogInvariantUnchanged DEF SafetyInvariant
  <2> QED
    BY <2>1, <2>2, CopiesAreAPrefixUnchanged, MarksAreCopiedUnchanged,
       MarksAreAheadUnchanged DEF SafetyInvariant
<1>12. CASE Next
  <2>1. PICK n \in Node : KafkaPolling(n) \/ DerechoPolling(n) \/ Multicast(n)
    BY <1>12 DEF Next
  <2> QED
    BY <1>2, <1>3, <1>4, <1>5, <1>6, <1>7, <1>9, <1>10, <2>1
       DEF KafkaPolling, DerechoPolling, Multicast
<1> QED
  BY <1>11, <1>12

(* What the instances hold is a part of the one log, and marks only move   *)
(* forward: the invariant from which the promises below follow.            *)
THEOREM Safe == ASSUME UniqueIds PROVE Spec => []SafetyInvariant
BY InitSafe, NextSafe, PTL DEF Spec

----------------------------------------------------------------------------
(* What follows from the invariant.  An event of a list is in the log,     *)
(* behind what the list has forgotten, and was copied by all that marked   *)
(* it.                                                                     *)
LEMMA HeldEvent ==
  ASSUME SafetyInvariant, NEW n \in Node, NEW event \in ToSet(events[n])
  PROVE  \E k \in (Forgotten(n) + 1)..AddedCount(n) :
           /\ k \in DOMAIN log /\ Content(event) = log[k] /\ event.id = log[k].id
           /\ \A m \in event.replicas \cap Node : k <= Copied(m)
<1>1. PICK j \in DOMAIN events[n] : event = events[n][j]
  BY DEF ToSet
<1>2. /\ Forgotten(n) \in Nat /\ Len(events[n]) \in Nat
      /\ Forgotten(n) + Len(events[n]) = AddedCount(n)
      /\ AddedCount(n) \in 0..Len(log) /\ Len(log) \in Nat
      /\ j \in 1..Len(events[n]) /\ DOMAIN log = 1..Len(log)
  <2>1. DOMAIN events[n] = 1..Len(events[n]) /\ DOMAIN log = 1..Len(log)
    BY DEF SafetyInvariant, LogInvariant, TypeOK
  <2> QED
    BY <2>1, Counts DEF SafetyInvariant, LogInvariant
<1>3. PICK k : k = Forgotten(n) + j
  OBVIOUS
<1>4. k \in (Forgotten(n) + 1)..AddedCount(n) /\ k \in DOMAIN log
  BY <1>2, <1>3
<1>5. Content(event) = log[k]
  BY <1>1, <1>3 DEF SafetyInvariant, LogInvariant, ListsAreSegments
<1>6. event.id = log[k].id
  <2>1. Content(event).id = event.id
    BY DEF Content
  <2> QED
    BY <1>5, <2>1
<1>7. ASSUME NEW m \in event.replicas \cap Node PROVE k <= Copied(m)
  <2>1. k < Copied(m) + 1
    BY <1>1, <1>3, <1>7 DEF SafetyInvariant, LogInvariant, MarksAreAhead, IsAhead
  <2>2. Copied(m) \in Nat
    BY Counts DEF SafetyInvariant, LogInvariant
  <2> QED
    BY <1>2, <1>3, <2>1, <2>2
<1> QED
  BY <1>4, <1>5, <1>6, <1>7

(* What a cluster holds is the first Copied(n) events of the log.          *)
LEMMA CopiedEvent ==
  ASSUME SafetyInvariant, NEW n \in Node
  PROVE  /\ Copied(n) \in 0..Len(log)
         /\ \A k \in 1..Copied(n) : log[k] \in ToSet(global[n])
         /\ \A c \in ToSet(global[n]) : \E k \in 1..Copied(n) : c = log[k]
<1>1. DOMAIN global[n] = 1..Copied(n) /\ Len(batch[n]) \in Nat
  BY DEF SafetyInvariant, LogInvariant, TypeOK, Copied
<1>2. Copied(n) \in 0..Len(log)
  BY <1>1, Counts DEF SafetyInvariant, LogInvariant, CopiesAreAPrefix
<1>3. \A k \in DOMAIN global[n] : global[n][k] = log[k]
  BY DEF SafetyInvariant, LogInvariant, CopiesAreAPrefix
<1> QED
  BY <1>1, <1>2, <1>3 DEF ToSet

(* Every "-global" topic is a prefix of the one log, ...                   *)
THEOREM SameOrderEverywhere ==
  ASSUME UniqueIds PROVE Spec => []SameOrderExactlyOnce
<1>1. SafetyInvariant => SameOrderExactlyOnce
  <2> SUFFICES ASSUME SafetyInvariant, NEW n \in Node PROVE IsPrefix(global[n], log)
    BY DEF SameOrderExactlyOnce
  <2>1. /\ global[n] \in Seq(Record) /\ log \in Seq(Record)
        /\ Copied(n) \in 0..Len(log) /\ Copied(n) = Len(global[n])
        /\ DOMAIN global[n] = 1..Copied(n) /\ Len(log) \in Nat
    BY CopiedEvent DEF SafetyInvariant, LogInvariant, TypeOK, Copied
  <2>2. \A k \in 1..Copied(n) : global[n][k] = log[k]
    BY <2>1 DEF SafetyInvariant, LogInvariant, CopiesAreAPrefix
  <2>3. SubSeq(global[n], 1, Copied(n)) = SubSeq(log, 1, Copied(n))
    <3>1. SubSeq(global[n], 1, Copied(n)) = [k \in 1..Copied(n) |-> global[n][k]]
      BY <2>1, SubSeqProperties
    <3>2. SubSeq(log, 1, Copied(n)) = [k \in 1..Copied(n) |-> log[k]]
      BY <2>1, SubSeqProperties
    <3> QED
      BY <2>2, <3>1, <3>2
  <2> QED
    BY <2>1, <2>3 DEF IsPrefix
<1> QED
  BY <1>1, Safe, PTL

(* ... an event is forgotten only when every cluster has it, ...           *)
THEOREM NothingForgottenTooSoon ==
  ASSUME UniqueIds PROVE Spec => []ForgottenOnlyWhenReplicated
<1>1. SafetyInvariant => ForgottenOnlyWhenReplicated
  <2> SUFFICES ASSUME SafetyInvariant, NEW m \in Node, NEW n \in Node,
                      NEW i \in 1..AddedCount(m), log[i] \notin Held(m)
               PROVE  log[i] \in ToSet(global[n])
    BY DEF ForgottenOnlyWhenReplicated, Added
  <2>1. /\ Forgotten(m) \in Nat /\ Len(events[m]) \in Nat
        /\ Forgotten(m) + Len(events[m]) = AddedCount(m)
        /\ DOMAIN events[m] = 1..Len(events[m])
        /\ AddedCount(m) \in Nat /\ Copied(n) \in Nat
    BY Counts, Domains DEF SafetyInvariant, LogInvariant
  <2>2. i <= Forgotten(m)
    <3> SUFFICES ASSUME i > Forgotten(m) PROVE FALSE
      BY <2>1
    <3>1. PICK j : j = i - Forgotten(m)
      OBVIOUS
    <3>2. j \in DOMAIN events[m] /\ Forgotten(m) + j = i
      BY <2>1, <3>1
    <3>3. Content(events[m][j]) = log[i]
      BY <3>2 DEF SafetyInvariant, LogInvariant, ListsAreSegments
    <3> QED
      BY <3>2, <3>3 DEF Held, ToSet
  <2>3. Forgotten(m) < Copied(n) + 1
    BY DEF SafetyInvariant, LogInvariant, MarksAreAhead, IsAhead
  <2>4. i \in 1..Copied(n)
    BY <2>1, <2>2, <2>3
  <2> QED
    BY <2>4, CopiedEvent
<1> QED
  BY <1>1, Safe, PTL

(* ... and nobody is listed for an event its cluster does not have.        *)
THEOREM NothingMarkedTooSoon ==
  ASSUME UniqueIds PROVE Spec => []MarkedOnlyWhenReplicated
<1>1. SafetyInvariant => MarkedOnlyWhenReplicated
  <2> SUFFICES ASSUME SafetyInvariant, NEW m \in Node,
                      NEW event \in ToSet(events[m]), NEW n \in event.replicas
               PROVE  Content(event) \in ToSet(global[n])
    BY DEF MarkedOnlyWhenReplicated
  <2>1. n \in Node
    <3>1. PICK j \in DOMAIN events[m] : event = events[m][j]
      BY DEF ToSet
    <3>2. event \in Event
      BY <3>1, ElementOfSeq DEF SafetyInvariant, LogInvariant, TypeOK
    <3> QED
      BY <3>2 DEF Event
  <2>2. PICK k \in (Forgotten(m) + 1)..AddedCount(m) :
               Content(event) = log[k] /\ k <= Copied(n)
    BY <2>1, HeldEvent
  <2>3. k \in 1..Copied(n)
    BY <2>1, <2>2, Counts DEF SafetyInvariant, LogInvariant
  <2> QED
    BY <2>1, <2>2, <2>3, CopiedEvent
<1> QED
  BY <1>1, Safe, PTL

(* A mark_produced always finds its event in the list it is applied to.    *)
THEOREM MarksFindTheirEvent ==
  ASSUME UniqueIds PROVE Spec => []MarkTargetPresent
<1>1. SafetyInvariant => MarkTargetPresent
  <2> SUFFICES ASSUME SafetyInvariant, NEW n \in Node,
                      delivered[n] < Len(order),
                      NextMessage(n).type = "mark_produced"
               PROVE  \E event \in ToSet(events[n]) : NextMessage(n).id = event.id
    BY DEF MarkTargetPresent
  <2>1. PICK i, d, k : /\ i = delivered[n] + 1 /\ d = order[i].derecho_id
                       /\ k = OrderPlace(i)
    OBVIOUS
  <2>2. /\ k - Forgotten(n) \in 1..Len(events[n])
        /\ events[n][k - Forgotten(n)].id = order[i].id
    <3>1. d \in Node /\ i \in MarksInOrder(d) /\ delivered[n] < i
      <4>1. /\ i \in DOMAIN order /\ order[i] \in Message
            /\ order[i].type = "mark_produced" /\ delivered[n] < i
        <5>1. delivered[n] \in Nat /\ order \in Seq(Message) /\ Len(order) \in Nat
          BY DEF SafetyInvariant, LogInvariant, TypeOK
        <5> QED
          BY <2>1, <5>1, ElementOfSeq DEF NextMessage
      <4> QED
        BY <2>1, <4>1 DEF Message, MarksInOrder
    <3>2. Forgotten(n) < k
      BY <2>1, <3>1 DEF SafetyInvariant, MarksAreAhead, IsAhead
    <3> QED
      BY <2>1, <3>2, MarkIsInTheList DEF SafetyInvariant
  <2>3. DOMAIN events[n] = 1..Len(events[n])
    BY DEF SafetyInvariant, LogInvariant, TypeOK
  <2> QED
    BY <2>1, <2>2, <2>3 DEF NextMessage, ToSet
<1> QED
  BY <1>1, Safe, PTL

(* And when the own list no longer holds last_event, all it holds is new   *)
(* to this instance, as get_events_from assumes.                           *)
THEOREM AllNewWhenNotFound ==
  ASSUME UniqueIds PROVE Spec => []NotFoundMeansAllNew
<1>1. SafetyInvariant => NotFoundMeansAllNew
  <2> SUFFICES ASSUME SafetyInvariant, NEW n \in Node,
                      pc[n] = "query", last[n] # Nil,
                      \A event \in ToSet(events[n]) : last[n] # event.id,
                      NEW held \in ToSet(events[n]),
                      Content(held) \in ToSet(global[n])
               PROVE  FALSE
    BY DEF NotFoundMeansAllNew, Held
  <2>1. /\ Copied(n) \in 0..Len(log) /\ Len(log) \in Nat
        /\ Forgotten(n) \in Nat /\ Len(events[n]) \in Nat
        /\ Forgotten(n) + Len(events[n]) = AddedCount(n)
        /\ DOMAIN events[n] = 1..Len(events[n]) /\ Len(batch[n]) \in Nat
        /\ DOMAIN log = 1..Len(log)
    BY Counts, Domains, CopiedEvent DEF SafetyInvariant, LogInvariant
  <2>2. Copied(n) > 0 /\ last[n] = log[Copied(n)].id
    BY DEF SafetyInvariant, LogInvariant, CopiesAreAPrefix
  <2>3. Copied(n) <= Forgotten(n)
    <3> SUFFICES ASSUME Copied(n) > Forgotten(n) PROVE FALSE
      BY <2>1
    <3>1. Copied(n) <= AddedCount(n)
      BY <2>1 DEF SafetyInvariant, LogInvariant, CopiesAreAPrefix
    <3>2. PICK j : j = Copied(n) - Forgotten(n)
      OBVIOUS
    <3>3. j \in DOMAIN events[n] /\ Forgotten(n) + j = Copied(n)
      BY <2>1, <3>1, <3>2
    <3>4. Content(events[n][j]) = log[Copied(n)]
      BY <3>3 DEF SafetyInvariant, LogInvariant, ListsAreSegments
    <3>5. events[n][j].id = last[n]
      <4>1. Content(events[n][j]).id = events[n][j].id
        BY DEF Content
      <4> QED
        BY <2>2, <3>4, <4>1
    <3> QED
      BY <3>3, <3>5 DEF ToSet
  <2>4. PICK k \in (Forgotten(n) + 1)..AddedCount(n) :
               k \in DOMAIN log /\ Content(held) = log[k]
    BY HeldEvent
  <2>5. PICK l \in 1..Copied(n) : Content(held) = log[l]
    BY CopiedEvent
  <2>6. l \in DOMAIN log /\ l < k
    BY <2>1, <2>3, <2>4, <2>5
  <2>7. k = l
    <3>1. log[k].id = log[l].id
      BY <2>4, <2>5
    <3> QED
      BY <2>4, <2>6, <3>1 DEF SafetyInvariant, LogInvariant, EventsOnce
  <2> QED
    BY <2>1, <2>4, <2>6, <2>7
<1> QED
  BY <1>1, Safe, PTL
=============================================================================
