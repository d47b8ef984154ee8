-------------------------- MODULE EventListLemmas --------------------------
(***************************************************************************)
(* What the operators of EventList return, for lists of any length and any *)
(* number of instances.                                                    *)
(***************************************************************************)
EXTENDS EventList, FiniteSetTheorems, SequenceTheorems,
        WellFoundedInduction, TLAPS

(* A set of natural numbers has a least element.                           *)
LEMMA LeastExists ==
  ASSUME NEW T, T \subseteq Nat, T # {}
  PROVE  \E x \in T : \A y \in T : x <= y
<1>1. PICK x \in T : \A y \in T : ~(<<y, x>> \in OpToRel(<, Nat))
  BY NatLessThanWellFounded, WFMin
<1>2. \A y \in T : ~(y < x)
  BY <1>1 DEF OpToRel
<1> QED
  BY <1>2

(* A set of numbers between 0 and n has a greatest element.                *)
LEMMA GreatestExists ==
  ASSUME NEW n \in Nat, NEW T, T \subseteq 0..n, T # {}
  PROVE  \E x \in T : \A y \in T : x >= y
<1> DEFINE U == {n - t : t \in T}
<1>1. \A t \in T : n - t \in Nat
  OBVIOUS
<1>2. U \subseteq Nat /\ U # {}
  BY <1>1
<1>3. PICK u \in U : \A v \in U : u <= v
  BY <1>2, LeastExists
<1>4. PICK x \in T : u = n - x
  OBVIOUS
<1>5. \A y \in T : n - x <= n - y
  BY <1>3, <1>4
<1> QED
  BY <1>5

LEMMA MaxIsGreatest ==
  ASSUME NEW n \in Nat, NEW T, T \subseteq 0..n, T # {}
  PROVE  Max(T) \in T /\ \A y \in T : Max(T) >= y
BY GreatestExists DEF Max

LEMMA MinIsLeast ==
  ASSUME NEW T, T \subseteq Nat, T # {}
  PROVE  Min(T) \in T /\ \A y \in T : Min(T) <= y
BY LeastExists DEF Min

----------------------------------------------------------------------------
(* Events with ids of I, payloads of P and marks of the instances N.       *)
Events(I, P, N) == Seq([id : I, payload : P, replicas : SUBSET N])

(* The loop of mark_produced visits a prefix of the list, ...              *)
LEMMA VisitedIsPrefix ==
  ASSUME NEW events, NEW id, DOMAIN events \subseteq Nat \ {0},
         NEW i \in Visited(events, id), NEW j \in DOMAIN events, j < i
  PROVE  j \in Visited(events, id) /\ events[j].id # id
BY DEF Visited

(* ... and changes nothing but the marks of what it visits.                *)
LEMMA MarkedProperties ==
  ASSUME NEW I, NEW P, NEW N, NEW events \in Events(I, P, N),
         NEW n \in N, NEW id
  PROVE  /\ Marked(events, n, id) \in Events(I, P, N)
         /\ Len(Marked(events, n, id)) = Len(events)
         /\ \A i \in 1..Len(events) :
              /\ Marked(events, n, id)[i].id = events[i].id
              /\ Marked(events, n, id)[i].payload = events[i].payload
              /\ i \in Visited(events, id) =>
                   Marked(events, n, id)[i].replicas = events[i].replicas \cup {n}
              /\ i \notin Visited(events, id) =>
                   Marked(events, n, id)[i].replicas = events[i].replicas
<1> DEFINE m == Marked(events, n, id)
           E == [id : I, payload : P, replicas : SUBSET N]
           e(i) == IF i \in Visited(events, id)
                   THEN [events[i] EXCEPT !.replicas = @ \cup {n}]
                   ELSE events[i]
<1>1. events \in Seq(E) /\ DOMAIN events = 1..Len(events) /\ Len(events) \in Nat
  BY DEF Events
<1>2. m = [i \in 1..Len(events) |-> e(i)]
  BY <1>1 DEF Marked
<1>3. \A i \in 1..Len(events) :
        /\ e(i) \in E
        /\ e(i).id = events[i].id /\ e(i).payload = events[i].payload
        /\ i \in Visited(events, id) => e(i).replicas = events[i].replicas \cup {n}
        /\ i \notin Visited(events, id) => e(i).replicas = events[i].replicas
  <2> TAKE i \in 1..Len(events)
  <2>1. events[i] \in E
    BY <1>1, ElementOfSeq
  <2> QED
    BY <2>1
<1>4. m \in Seq(E)
  <2>1. \A i \in 1..Len(events) : m[i] \in E
    BY <1>2, <1>3
  <2>2. m \in [1..Len(events) -> E]
    BY <1>2, <2>1
  <2> HIDE DEF m, E
  <2> QED
    BY <1>1, <2>2
<1> QED
  BY <1>1, <1>2, <1>3, <1>4 DEF Events

LEMMA MarkedReplicas ==
  ASSUME NEW I, NEW P, NEW N, NEW events \in Events(I, P, N),
         NEW n \in N, NEW id, NEW i \in 1..Len(events)
  PROVE  /\ i \in Visited(events, id)
              => Marked(events, n, id)[i].replicas = events[i].replicas \cup {n}
         /\ i \notin Visited(events, id)
              => Marked(events, n, id)[i].replicas = events[i].replicas
BY MarkedProperties

(* The completed events are in the list, so that the last one is the       *)
(* greatest of them.                                                       *)
LEMMA LastCompletedProperties ==
  ASSUME NEW I, NEW P, NEW N, NEW events \in Events(I, P, N),
         NEW r, NEW n \in N, NEW id
  PROVE  /\ LastCompleted(events, r, n, id) \in 0..Len(events)
         /\ LastCompleted(events, r, n, id) # 0
              => LastCompleted(events, r, n, id) \in Completed(events, r, n, id)
         /\ \A c \in Completed(events, r, n, id) :
              c <= LastCompleted(events, r, n, id)
<1> DEFINE T == {0} \cup Completed(events, r, n, id)
<1>1. Len(events) \in Nat /\ DOMAIN events = 1..Len(events)
  BY DEF Events
<1>2. T \subseteq 0..Len(events)
  BY <1>1 DEF Completed, Visited
<1>3. Max(T) \in T /\ \A y \in T : Max(T) >= y
  BY <1>1, <1>2, MaxIsGreatest
<1> QED
  BY <1>1, <1>2, <1>3 DEF LastCompleted

(* What mark_produced leaves: the marked list without its first events.    *)
LEMMA MarkProducedProperties ==
  ASSUME NEW I, NEW P, NEW N, NEW events \in Events(I, P, N),
         NEW r, NEW n \in N, NEW id,
         NEW k, k = LastCompleted(events, r, n, id)
  PROVE  /\ MarkProduced(events, r, n, id) \in Events(I, P, N)
         /\ Len(MarkProduced(events, r, n, id)) = Len(events) - k
         /\ \A i \in 1..(Len(events) - k) :
              MarkProduced(events, r, n, id)[i] = Marked(events, n, id)[i + k]
<1> DEFINE m == Marked(events, n, id)
           E == [id : I, payload : P, replicas : SUBSET N]
<1>1. k \in 0..Len(events) /\ Len(events) \in Nat
  <2>1. k \in 0..Len(events)
    BY LastCompletedProperties
  <2> QED
    BY <2>1 DEF Events
<1>2. m \in Seq(E) /\ Len(m) = Len(events)
  <2>1. m \in Events(I, P, N) /\ Len(m) = Len(events)
    BY MarkedProperties
  <2> QED
    BY <2>1 DEF Events
<1>3. MarkProduced(events, r, n, id) = SubSeq(m, k + 1, Len(m))
  BY <1>2 DEF MarkProduced
<1> HIDE DEF m, E
<1>4. \A i \in (k + 1)..Len(m) : m[i] \in E
  BY <1>1, <1>2
<1>5. /\ SubSeq(m, k + 1, Len(m)) \in Seq(E)
      /\ Len(SubSeq(m, k + 1, Len(m)))
           = IF k + 1 <= Len(m) THEN Len(m) - (k + 1) + 1 ELSE 0
      /\ \A i \in 1..(Len(m) - (k + 1) + 1) :
           SubSeq(m, k + 1, Len(m))[i] = m[(k + 1) + i - 1]
  BY <1>1, <1>2, <1>4, SubSeqProperties
<1> QED
  BY <1>1, <1>2, <1>3, <1>5 DEF Events, m, E

----------------------------------------------------------------------------
(* Marks form prefixes: who marked an event marked all those before it.    *)
Nested(events) ==
  \A i, j \in DOMAIN events :
     i < j => events[j].replicas \subseteq events[i].replicas

(* Every event waits for one of r instances at least.                      *)
Incomplete(events, r) ==
  \A i \in DOMAIN events : Cardinality(events[i].replicas) < r

(* Inserting an instance makes a set of marks larger by one at most.       *)
LEMMA InsertGrowsByOne ==
  ASSUME NEW N, IsFiniteSet(N), NEW n \in N, NEW R \in SUBSET N,
         NEW r \in Nat, Cardinality(R) < r
  PROVE  IsFiniteSet(R \cup {n}) /\ Cardinality(R \cup {n}) <= r
<1>1. IsFiniteSet(R)
  BY FS_Subset
<1>2. Cardinality(R) \in Nat
  BY <1>1, FS_CardinalityType
<1>3. /\ IsFiniteSet(R \cup {n})
      /\ Cardinality(R \cup {n}) = IF n \in R THEN Cardinality(R)
                                              ELSE Cardinality(R) + 1
  BY <1>1, FS_AddElement
<1> QED
  BY <1>2, <1>3

LEMMA MarkedIsNested ==
  ASSUME NEW I, NEW P, NEW N, NEW events \in Events(I, P, N),
         NEW n \in N, NEW id, Nested(events)
  PROVE  \A i, j \in 1..Len(events) :
            i <= j => Marked(events, n, id)[j].replicas
                        \subseteq Marked(events, n, id)[i].replicas
<1>1. DOMAIN events = 1..Len(events) /\ Len(events) \in Nat
  BY DEF Events
<1> TAKE i, j \in 1..Len(events)
<1> HAVE i <= j
<1>2. events[j].replicas \subseteq events[i].replicas
  BY <1>1 DEF Nested
<1>3. j \in Visited(events, id) => i \in Visited(events, id)
  BY <1>1, VisitedIsPrefix
<1> QED
  BY <1>2, <1>3, MarkedReplicas

LEMMA MarkProducedIsNested ==
  ASSUME NEW I, NEW P, NEW N, NEW events \in Events(I, P, N),
         NEW r, NEW n \in N, NEW id, Nested(events)
  PROVE  Nested(MarkProduced(events, r, n, id))
<1> DEFINE k == LastCompleted(events, r, n, id)
           after == MarkProduced(events, r, n, id)
<1>1. k \in 0..Len(events)
  BY LastCompletedProperties
<1>2. /\ after \in Events(I, P, N)
      /\ Len(after) = Len(events) - k
      /\ \A i \in 1..(Len(events) - k) : after[i] = Marked(events, n, id)[i + k]
  BY MarkProducedProperties
<1>3. DOMAIN after = 1..(Len(events) - k) /\ Len(events) \in Nat
  <2>1. DOMAIN after = 1..Len(after)
    BY <1>2 DEF Events
  <2>2. Len(events) \in Nat
    BY DEF Events
  <2> QED
    BY <1>2, <2>1, <2>2
<1> SUFFICES ASSUME NEW i \in DOMAIN after, NEW j \in DOMAIN after, i < j
             PROVE  after[j].replicas \subseteq after[i].replicas
  BY DEF Nested
<1>4. i + k \in 1..Len(events) /\ j + k \in 1..Len(events) /\ i + k <= j + k
  BY <1>1, <1>3
<1>5. Marked(events, n, id)[j + k].replicas
        \subseteq Marked(events, n, id)[i + k].replicas
  BY <1>4, MarkedIsNested
<1> QED
  BY <1>2, <1>3, <1>5

LEMMA MarkProducedIsIncomplete ==
  ASSUME NEW I, NEW P, NEW N, IsFiniteSet(N), NEW events \in Events(I, P, N),
         NEW r \in Nat, NEW n \in N, NEW id, Incomplete(events, r)
  PROVE  Incomplete(MarkProduced(events, r, n, id), r)
<1> DEFINE k == LastCompleted(events, r, n, id)
           after == MarkProduced(events, r, n, id)
           m == Marked(events, n, id)
<1>1. /\ k \in 0..Len(events)
      /\ \A c \in Completed(events, r, n, id) : c <= k
  BY LastCompletedProperties
<1>2. /\ after \in Events(I, P, N)
      /\ Len(after) = Len(events) - k
      /\ \A i \in 1..(Len(events) - k) : after[i] = m[i + k]
  BY MarkProducedProperties
<1>3. DOMAIN after = 1..(Len(events) - k) /\ Len(events) \in Nat
      /\ DOMAIN events = 1..Len(events)
  <2>1. DOMAIN after = 1..Len(after)
    BY <1>2 DEF Events
  <2>2. Len(events) \in Nat /\ DOMAIN events = 1..Len(events)
    BY DEF Events
  <2> QED
    BY <1>2, <2>1, <2>2
<1> SUFFICES ASSUME NEW i \in DOMAIN after
             PROVE  Cardinality(after[i].replicas) < r
  BY DEF Incomplete
<1>4. i + k \in 1..Len(events) /\ ~(i + k <= k) /\ after[i] = m[i + k]
  BY <1>1, <1>2, <1>3
<1>5. /\ events[i + k].replicas \in SUBSET N
      /\ Cardinality(events[i + k].replicas) < r
  <2>1. events[i + k] \in [id : I, payload : P, replicas : SUBSET N]
    BY <1>4, ElementOfSeq DEF Events
  <2> QED
    BY <1>3, <1>4, <2>1 DEF Incomplete
<1>6. CASE i + k \in Visited(events, id)
  <2>1. m[i + k].replicas = events[i + k].replicas \cup {n}
    BY <1>4, <1>6, MarkedReplicas
  <2>2. Cardinality(m[i + k].replicas) # r
    BY <1>1, <1>4, <1>6 DEF Completed
  <2>3. /\ IsFiniteSet(m[i + k].replicas)
        /\ Cardinality(m[i + k].replicas) <= r
    BY <1>5, <2>1, InsertGrowsByOne
  <2>4. Cardinality(m[i + k].replicas) \in Nat
    BY <2>3, FS_CardinalityType
  <2> QED
    BY <1>4, <2>2, <2>3, <2>4
<1>7. CASE i + k \notin Visited(events, id)
  <2>1. m[i + k].replicas = events[i + k].replicas
    BY <1>4, <1>7, MarkedReplicas
  <2> QED
    BY <1>4, <1>5, <2>1
<1> QED
  BY <1>6, <1>7

(* The erased range holds completed events only, though the loop noted no  *)
(* more than the last of them.                                             *)
LEMMA ErasedAreCompleted ==
  ASSUME NEW I, NEW P, NEW N, IsFiniteSet(N), NEW events \in Events(I, P, N),
         NEW r \in Nat, NEW n \in N, NEW id,
         Nested(events), Incomplete(events, r),
         NEW i \in 1..LastCompleted(events, r, n, id)
  PROVE  Cardinality(events[i].replicas \cup {n}) = r
<1> DEFINE k == LastCompleted(events, r, n, id)
           m == Marked(events, n, id)
<1>1. k \in 1..Len(events) /\ k \in Completed(events, r, n, id)
  BY LastCompletedProperties
<1>2. Len(events) \in Nat /\ DOMAIN events = 1..Len(events)
  BY DEF Events
<1>3. k \in Visited(events, id) /\ Cardinality(m[k].replicas) = r
  BY <1>1 DEF Completed
<1>4. i \in 1..Len(events) /\ i <= k
  BY <1>1, <1>2
<1>5. i \in Visited(events, id)
  BY <1>1, <1>2, <1>3, <1>4, VisitedIsPrefix
<1>6. m[i].replicas = events[i].replicas \cup {n}
  BY <1>4, <1>5, MarkedReplicas
<1>7. m[k].replicas \subseteq m[i].replicas
  BY <1>1, <1>4, MarkedIsNested
<1>8. events[i].replicas \in SUBSET N /\ Cardinality(events[i].replicas) < r
  <2>1. events[i] \in [id : I, payload : P, replicas : SUBSET N]
    BY <1>4, ElementOfSeq DEF Events
  <2> QED
    BY <1>2, <1>4, <2>1 DEF Incomplete
<1>9. IsFiniteSet(m[i].replicas) /\ Cardinality(m[i].replicas) <= r
  BY <1>6, <1>8, InsertGrowsByOne
<1>10. /\ Cardinality(m[k].replicas) <= Cardinality(m[i].replicas)
       /\ Cardinality(m[i].replicas) \in Nat
  BY <1>7, <1>9, FS_Subset, FS_CardinalityType
<1> QED
  BY <1>3, <1>6, <1>9, <1>10

----------------------------------------------------------------------------
LEMMA MinOfTwo ==
  ASSUME NEW a \in Int, NEW b \in Int
  PROVE  Min({a, b}) = IF a <= b THEN a ELSE b
BY DEF Min

LEMMA MaxOfTwo ==
  ASSUME NEW a \in Int, NEW b \in Int
  PROVE  Max({a, b}) = IF a >= b THEN a ELSE b
BY DEF Max

(* std::find_if returns the first match, and end() without one.            *)
LEMMA FindProperties ==
  ASSUME NEW S, NEW events \in Seq(S), NEW matching,
         matching \subseteq 1..Len(events)
  PROVE  /\ Find(events, matching) \in 1..(Len(events) + 1)
         /\ \A i \in matching : Find(events, matching) <= i
         /\ Find(events, matching) # Len(events) + 1
              => Find(events, matching) \in matching
         /\ Find(events, matching) = Len(events) + 1 => matching = {}
<1> DEFINE T == matching \cup {Len(events) + 1}
<1>1. Len(events) \in Nat
  OBVIOUS
<1>2. \A t \in T : t \in 1..(Len(events) + 1)
  BY <1>1
<1>3. T \subseteq Nat /\ T # {}
  <2>1. Len(events) + 1 \in T
    OBVIOUS
  <2> HIDE DEF T
  <2> QED
    BY <1>1, <1>2, <2>1
<1>4. Min(T) \in T /\ \A y \in T : Min(T) <= y
  BY <1>3, MinIsLeast
<1>5. \A i \in matching : i \in 1..Len(events)
  OBVIOUS
<1>6. Find(events, matching) = Min(T)
  BY DEF Find
<1>7. Min(T) \in 1..(Len(events) + 1) /\ \A i \in matching : Min(T) <= i
  BY <1>2, <1>4
<1>8. Min(T) # Len(events) + 1 => Min(T) \in matching
  BY <1>4
<1>9. Min(T) = Len(events) + 1 => matching = {}
  <2> HIDE DEF T
  <2> QED
    BY <1>1, <1>5, <1>7
<1> QED
  BY <1>6, <1>7, <1>8, <1>9

(* The length of the chunk that starts at a position: what the list holds  *)
(* from there on, at most event_chunk, nothing for a negative event_chunk. *)
ChunkLength(events, event_chunk, first) ==
  Max({0, Min({event_chunk, Len(events) - first + 1})})

(* The reply of a query is the part of the list that starts at first and   *)
(* is no longer than the chunk.                                            *)
LEMMA ChunkProperties ==
  ASSUME NEW S, NEW events \in Seq(S), NEW event_chunk \in Int,
         NEW first \in 1..(Len(events) + 1)
  PROVE  /\ Chunk(events, event_chunk, first) \in Seq(S)
         /\ Len(Chunk(events, event_chunk, first))
              = ChunkLength(events, event_chunk, first)
         /\ \A k \in 1..Len(Chunk(events, event_chunk, first)) :
              /\ first + k - 1 \in 1..Len(events)
              /\ Chunk(events, event_chunk, first)[k] = events[first + k - 1]
<1> DEFINE q == Min({event_chunk, Len(events) - first + 1})
           result == SubSeq(events, first, first - 1 + q)
<1>1. Len(events) \in Nat
  OBVIOUS
<1>2. q = IF event_chunk <= Len(events) - first + 1
          THEN event_chunk ELSE Len(events) - first + 1
  BY <1>1, MinOfTwo
<1>3. q \in Int /\ q <= Len(events) - first + 1
  BY <1>1, <1>2
<1>4. Chunk(events, event_chunk, first) = result
  BY DEF Chunk
<1> HIDE DEF q
<1>5. Max({0, q}) = IF 0 >= q THEN 0 ELSE q
  BY <1>3, MaxOfTwo
<1>6. \A i \in first..(first - 1 + q) : events[i] \in S
  BY <1>1, <1>3, ElementOfSeq
<1>7. /\ result \in Seq(S)
      /\ Len(result) = IF first <= first - 1 + q THEN first - 1 + q - first + 1 ELSE 0
      /\ \A k \in 1..(first - 1 + q - first + 1) : result[k] = events[first + k - 1]
  BY <1>3, <1>6, SubSeqProperties
<1> HIDE DEF result
<1>8. Len(result) = Max({0, q})
  BY <1>3, <1>5, <1>7
<1>9. ASSUME NEW k \in 1..Len(result)
      PROVE  first + k - 1 \in 1..Len(events) /\ result[k] = events[first + k - 1]
  <2>1. k \in Nat /\ 1 <= k /\ k <= Len(result)
    <3>1. Len(result) \in Nat
      BY <1>7
    <3> QED
      BY <1>9, <3>1
  <2>2. first \in Nat /\ 1 <= first
    BY <1>1
  <2>3. first <= first - 1 + q
    BY <1>3, <1>7, <2>1, <2>2
  <2>4. Len(result) = first - 1 + q - first + 1
    BY <1>7, <2>3
  <2>5. k <= q
    BY <1>3, <2>1, <2>2, <2>4
  <2>6. first + k - 1 \in 1..Len(events)
    BY <1>1, <1>3, <2>1, <2>2, <2>5
  <2>7. k \in 1..(first - 1 + q - first + 1)
    BY <1>3, <2>1, <2>2, <2>4
  <2> QED
    BY <1>7, <2>6, <2>7
<1>10. Len(result) = ChunkLength(events, event_chunk, first)
  BY <1>8 DEF q, ChunkLength
<1> QED
  BY <1>4, <1>7, <1>9, <1>10

(* A query returns events of the list.                                     *)
LEMMA QueriesReturnEvents ==
  ASSUME NEW S, NEW events \in Seq(S), NEW event_chunk \in Int,
         NEW derecho_id, NEW id
  PROVE  /\ GetEvents(events, event_chunk, derecho_id) \in Seq(S)
         /\ GetEventsFrom(events, event_chunk, id) \in Seq(S)
<1>1. DOMAIN events = 1..Len(events) /\ Len(events) \in Nat
  OBVIOUS
<1>2. GetEvents(events, event_chunk, derecho_id) \in Seq(S)
  <2> DEFINE matching == {i \in DOMAIN events : derecho_id \notin events[i].replicas}
             first == Find(events, matching)
  <2>1. first \in 1..(Len(events) + 1)
    BY <1>1, FindProperties
  <2> HIDE DEF first
  <2>2. Chunk(events, event_chunk, first) \in Seq(S)
    BY <2>1, ChunkProperties
  <2> QED
    BY <2>2 DEF GetEvents, first
<1>3. GetEventsFrom(events, event_chunk, id) \in Seq(S)
  <2> DEFINE matching == {i \in DOMAIN events : events[i].id = id}
             found == Find(events, matching)
             first == IF found = Len(events) + 1 THEN 1 ELSE found + 1
  <2>1. found \in 1..(Len(events) + 1)
    BY <1>1, FindProperties
  <2>2. first \in 1..(Len(events) + 1)
    <3> HIDE DEF found
    <3> QED
      BY <1>1, <2>1
  <2>3. GetEventsFrom(events, event_chunk, id) = Chunk(events, event_chunk, first)
    BY DEF GetEventsFrom
  <2> HIDE DEF first
  <2>4. Chunk(events, event_chunk, first) \in Seq(S)
    BY <2>2, ChunkProperties
  <2> QED
    BY <2>3, <2>4
<1> QED
  BY <1>2, <1>3
=============================================================================
