--------------------- MODULE KdsyncFailuresSafetyProofs ---------------------
(***************************************************************************)
(* The safety of a group whose instances crash and come back, for every    *)
(* number of instances, records and failures, in the settings of           *)
(* KdsyncFailuresSafety: what fails publishes nothing, comes back under    *)
(* the id it had, and leaves a group behind.                               *)
(***************************************************************************)
EXTENDS KdsyncFailuresSafety, KdsyncFailuresProofs, KdsyncPromiseProofs

(* With the ids kept, the types are those of a group without failures.     *)
LEMMA KeptTypes ==
  ASSUME SafeSettings
  PROVE  /\ FailuresTypeOK => TypeOK
         /\ DerechoId = Node /\ MarkedEvent = Event /\ AnyMessage = Message
<1>1. DerechoId = Node
  BY DEF SafeSettings, DerechoId
<1>2. MarkedEvent = Event
  BY <1>1 DEF MarkedEvent, Event
<1>3. AnyMessage = Message
  BY <1>1, <1>2 DEF AnyMessage, Message
<1>4. ASSUME FailuresTypeOK PROVE TypeOK
  BY <1>2, <1>3, <1>4 DEF FailuresTypeOK, TypeOK
<1> QED
  BY <1>1, <1>2, <1>3, <1>4

(* Those that do not fail are a group, so nobody else ends with an         *)
(* instance that does, and the group is never formed anew.                 *)
LEMMA TheOthersStay ==
  ASSUME SafeSettings, FailuresTypeOK, MembersAreKept
  PROVE  /\ up # {} /\ Node \ up \subseteq Fallible
         /\ \A n \in Fallible : Survives(up \ {n})
<1>1. IsFiniteSet(Node) /\ Replicas = Cardinality(Node) /\ Cardinality(Node) \in Nat
  BY ReplicasAssumption, FS_CardinalityType
<1>2. Node \ Fallible \subseteq up /\ up \subseteq Node
  BY DEF MembersAreKept, FailuresTypeOK
<1>3. Survives(Node \ Fallible) /\ Node \ Fallible # {}
  <2>1. IsFiniteSet({}) /\ Cardinality({}) = 0
    BY FS_EmptySet
  <2> QED
    BY <1>1, <2>1 DEF SafeSettings, Survives
<1>4. ASSUME NEW n \in Fallible PROVE Survives(up \ {n})
  <2>1. Node \ Fallible \subseteq up \ {n} /\ up \ {n} \subseteq Node
    BY <1>2
  <2>2. IsFiniteSet(up \ {n})
    BY <1>1, <2>1, FS_Subset
  <2>3. /\ Cardinality(Node \ Fallible) <= Cardinality(up \ {n})
        /\ Cardinality(Node \ Fallible) \in Nat /\ Cardinality(up \ {n}) \in Nat
    BY <2>1, <2>2, FS_Subset, FS_CardinalityType
  <2> QED
    BY <1>1, <1>3, <2>1, <2>3 DEF Survives
<1> QED
  BY <1>2, <1>3, <1>4

(* What the end of a process does: it takes that one process, and may      *)
(* leave one more record in the "-global" topic.                           *)
LEMMA OneEnds ==
  ASSUME SafeSettings, FailuresTypeOK, MembersAreKept, NEW n \in Node, Ends(n)
  PROVE  /\ n \in Fallible /\ n \in up /\ up' = up \ {n}
         /\ UNCHANGED <<position, order, delivered, log, logged,
                        committed, my_id, chunk>>
         /\ failures'[n] = failures[n] + 1 /\ failures[n] \in Nat
         /\ polled'[n] = Nil /\ pc'[n] = "query" /\ batch'[n] = <<>>
         /\ last'[n] = Nil /\ outbox'[n] = <<>> /\ events'[n] = <<>>
         /\ \A m \in Node : m # n =>
              /\ polled'[m] = polled[m] /\ pc'[m] = pc[m] /\ batch'[m] = batch[m]
              /\ last'[m] = last[m] /\ outbox'[m] = outbox[m]
              /\ events'[m] = events[m] /\ global'[m] = global[m]
              /\ failures'[m] = failures[m]
         /\ \/ global'[n] = global[n]
            \/ /\ pc[n] = "replicate"
               /\ global'[n] = Append(global[n], Content(Head(batch[n])))
<1>1. Crash(n) \/ FlushFails(n)
  BY DEF Ends, OversizedSend, SafeSettings
<1>2. Fail(n) /\ EndProcess(n)
  BY <1>1 DEF Crash, FlushFails
<1>3. n \in up /\ n \in Fallible
  BY <1>2 DEF Fail
<1>4. /\ up' = up \ {n}
      /\ polled' = Afresh(polled, {n}, Nil)
      /\ pc' = Afresh(pc, {n}, "query")
      /\ batch' = Afresh(batch, {n}, <<>>)
      /\ last' = Afresh(last, {n}, Nil)
      /\ outbox' = Afresh(outbox, {n}, <<>>)
      /\ events' = Afresh(events, {n}, <<>>)
      /\ UNCHANGED <<position, order, delivered, log, logged, committed, my_id, chunk>>
  <2>1. Survives(up \ {n})
    BY <1>3, TheOthersStay
  <2> QED
    BY <1>2, <2>1 DEF EndProcess, history
<1>5. /\ polled'[n] = Nil /\ pc'[n] = "query" /\ batch'[n] = <<>>
      /\ last'[n] = Nil /\ outbox'[n] = <<>> /\ events'[n] = <<>>
  BY <1>4 DEF Afresh
<1>6. ASSUME NEW m \in Node, m # n
      PROVE  /\ polled'[m] = polled[m] /\ pc'[m] = pc[m] /\ batch'[m] = batch[m]
             /\ last'[m] = last[m] /\ outbox'[m] = outbox[m]
             /\ events'[m] = events[m]
  BY <1>4, <1>6 DEF Afresh
<1>7. /\ failures'[n] = failures[n] + 1 /\ failures[n] \in Nat
      /\ \A m \in Node : m # n => failures'[m] = failures[m]
  BY <1>2 DEF Fail, FailuresTypeOK
<1>8. /\ \A m \in Node : m # n => global'[m] = global[m]
      /\ \/ global'[n] = global[n]
         \/ /\ pc[n] = "replicate"
            /\ global'[n] = Append(global[n], Content(Head(batch[n])))
  BY <1>1 DEF Crash, FlushFails, FailuresTypeOK
<1> QED
  BY <1>3, <1>4, <1>5, <1>6, <1>7, <1>8

(* What a restart does: those that were gone are back, without work, with  *)
(* the list of one that has applied the whole order.                       *)
LEMMA AllAreBack ==
  ASSUME SafeSettings, FailuresTypeOK, MembersAreKept, Join
  PROVE  /\ up' = Node /\ up \subseteq Node
         /\ UNCHANGED <<position, polled, pc, batch, last, outbox, order, global,
                        log, logged, failures, committed, my_id>>
         /\ \A m \in Node : delivered'[m] = Len(order)
         /\ \A m \in up : delivered[m] = Len(order) /\ events'[m] = events[m]
         /\ \E donor \in up : \A m \in Node \ up : events'[m] = events[donor]
<1>1. up \subseteq Node
  BY DEF FailuresTypeOK
<1>2. /\ up' = Node
      /\ delivered' = Afresh(delivered, Node \ up, Len(order))
      /\ \A m \in up : delivered[m] = Len(order)
      /\ UNCHANGED <<polled, pc, batch, last, outbox, order, global, log, logged,
                     failures, committed>>
  BY DEF Join, StartProcesses, derechoThread, history
<1>3. PICK donor \in up : events' = Afresh(events, Node \ up, events[donor])
  BY DEF Join
<1>4. UNCHANGED position
  <2>1. PICK start \in [Node \ up -> [Partition -> UNION {0..Records[n] : n \in Node}]] :
          /\ \A n \in Node \ up, p \in Partition : start[n][p] \in StartOffsets(n, p)
          /\ position' = [n \in Node |-> IF n \in Node \ up THEN start[n] ELSE position[n]]
    BY DEF Join, StartProcesses, RestartConsumers
  <2>2. ASSUME NEW n \in Node \ up PROVE start[n] = position[n]
    <3>1. n \in Fallible /\ Records[n] = 0
      BY <2>2, TheOthersStay DEF SafeSettings
    <3>2. ASSUME NEW p \in Partition PROVE start[n][p] = position[n][p]
      <4>1. position[n][p] = 0 /\ committed[n][p] \in {None, 0}
        BY <3>1 DEF MembersAreKept
      <4>2. start[n][p] \in StartOffsets(n, p)
        BY <2>1, <2>2
      <4> QED
        BY <3>1, <4>1, <4>2 DEF StartOffsets
    <3>3. DOMAIN start[n] = Partition /\ DOMAIN position[n] = Partition
      BY <2>1, <2>2 DEF FailuresTypeOK
    <3>4. start[n] \in [Partition -> UNION {0..Records[l] : l \in Node}]
      BY <2>1, <2>2
    <3>5. position[n] \in [Partition -> Nat]
      BY <2>2 DEF FailuresTypeOK
    <3> QED
      BY <3>2, <3>4, <3>5
  <2> QED
    BY <2>1, <2>2 DEF FailuresTypeOK
<1>5. UNCHANGED my_id
  <2>1. PICK id \in [Node \ up -> DerechoId] :
          /\ my_id' = [n \in Node |-> IF n \in Node \ up THEN id[n] ELSE my_id[n]]
          /\ \A n \in Node \ up : id[n] \in {my_id[n]} \cup SpareId
    BY DEF Join, StartProcesses
  <2> QED
    BY <2>1 DEF FailuresTypeOK, SafeSettings
<1> QED
  BY <1>1, <1>2, <1>3, <1>4, <1>5 DEF Afresh

----------------------------------------------------------------------------
(* What a "-global" topic has after one more record.                       *)
LEMMA SetOfAppended ==
  ASSUME NEW S, NEW s \in Seq(S), NEW x \in S
  PROVE  ToSet(Append(s, x)) = ToSet(s) \cup {x}
<1>1. /\ Append(s, x) \in Seq(S) /\ Len(Append(s, x)) = Len(s) + 1 /\ Len(s) \in Nat
      /\ \A i \in 1..Len(s) : Append(s, x)[i] = s[i]
      /\ Append(s, x)[Len(s) + 1] = x
  BY AppendProperties
<1>2. DOMAIN s = 1..Len(s) /\ DOMAIN Append(s, x) = 1..(Len(s) + 1)
  BY <1>1
<1>3. ASSUME NEW y \in ToSet(Append(s, x)) PROVE y \in ToSet(s) \cup {x}
  <2>1. PICK i \in 1..(Len(s) + 1) : Append(s, x)[i] = y
    BY <1>2, <1>3 DEF ToSet
  <2>2. i \in 1..Len(s) \/ i = Len(s) + 1
    BY <1>1
  <2> QED
    BY <1>1, <1>2, <2>1, <2>2 DEF ToSet
<1>4. ASSUME NEW y \in ToSet(s) PROVE y \in ToSet(Append(s, x))
  <2>1. PICK i \in 1..Len(s) : s[i] = y
    BY <1>2, <1>4 DEF ToSet
  <2>2. i \in 1..(Len(s) + 1)
    BY <1>1
  <2> QED
    BY <1>1, <1>2, <2>1, <2>2 DEF ToSet
<1>5. x \in ToSet(Append(s, x))
  <2>1. Len(s) + 1 \in 1..(Len(s) + 1)
    BY <1>1
  <2> QED
    BY <1>1, <1>2, <2>1 DEF ToSet
<1> QED
  BY <1>3, <1>4, <1>5

(* Reached counts places of the log.                                       *)
LEMMA ReachedIsAPlace ==
  ASSUME TypeOK, CopiesHaveNoGap, NEW n \in Node
  PROVE  /\ IsFiniteSet(ToSet(global[n]))
         /\ Reached(n) \in 0..Len(log) /\ Len(log) \in Nat
         /\ DOMAIN log = 1..Len(log)
<1>1. global[n] \in Seq(Record) /\ log \in Seq(Record)
  BY DEF TypeOK
<1>2. /\ DOMAIN global[n] = 1..Len(global[n]) /\ Len(global[n]) \in Nat
      /\ DOMAIN log = 1..Len(log) /\ Len(log) \in Nat
  BY <1>1
<1>3. global[n] \in [1..Len(global[n]) -> ToSet(global[n])]
  BY <1>1, <1>2 DEF ToSet
<1>4. global[n] \in Surjection(1..Len(global[n]), ToSet(global[n]))
  BY <1>2, <1>3 DEF Surjection, ToSet
<1>5. IsFiniteSet(1..Len(global[n]))
  BY <1>2, FS_Interval
<1>6. IsFiniteSet(ToSet(global[n])) /\ Cardinality(ToSet(global[n])) \in Nat
  BY <1>4, <1>5, FS_Surjection, FS_CardinalityType
<1> QED
  BY <1>2, <1>6 DEF Reached, CopiesHaveNoGap, CopyHasNoGap

(* An entry of the log is where it is, by its id and by its content.       *)
LEMMA EntriesHavePlaces ==
  ASSUME EventsOnce, NEW k \in DOMAIN log
  PROVE  /\ IsPlaced(log, log[k].id) /\ Place(log, log[k].id) = k
         /\ PlaceInLog(log[k]) = k
<1>1. Distinct(log)
  BY DEF EventsOnce, Distinct
<1>2. \A l \in DOMAIN log : log[l] = log[k] => l = k
  BY <1>1 DEF Distinct
<1> QED
  BY <1>1, <1>2, PlaceIsUnique DEF PlaceInLog

(* A record that goes on behind what the cluster has, or repeats some of   *)
(* it, leaves no gap.                                                      *)
LEMMA CopyGrows ==
  ASSUME TypeOK, EventsOnce, CopiesHaveNoGap, NEW n \in Node, UNCHANGED log,
         NEW k \in 1..Len(log), k <= Reached(n) + 1,
         global'[n] = Append(global[n], log[k])
  PROVE  /\ CopyHasNoGap(n)' /\ k <= Reached(n)'
         /\ Reached(n)' = IF k <= Reached(n) THEN Reached(n) ELSE Reached(n) + 1
<1>1. /\ IsFiniteSet(ToSet(global[n]))
      /\ Reached(n) \in 0..Len(log) /\ Len(log) \in Nat /\ DOMAIN log = 1..Len(log)
      /\ Reached(n) \in Nat
  BY ReachedIsAPlace
<1>2. ToSet(global[n]) = {log[l] : l \in 1..Reached(n)}
  BY DEF CopiesHaveNoGap, CopyHasNoGap
<1>3. ToSet(global'[n]) = ToSet(global[n]) \cup {log[k]}
  <2>1. global[n] \in Seq(Record) /\ log[k] \in Record
    BY <1>1, ElementOfSeq DEF TypeOK
  <2> QED
    BY <2>1, SetOfAppended
<1>4. log[k] \in ToSet(global[n]) <=> k <= Reached(n)
  <2>1. ASSUME log[k] \in ToSet(global[n]) PROVE k <= Reached(n)
    <3>1. PICK l \in 1..Reached(n) : log[k] = log[l]
      BY <1>2, <2>1
    <3>2. l \in DOMAIN log /\ k \in DOMAIN log
      BY <1>1
    <3>3. l = k
      BY <3>1, <3>2 DEF EventsOnce
    <3> QED
      BY <3>3
  <2>2. ASSUME k <= Reached(n) PROVE log[k] \in ToSet(global[n])
    BY <1>1, <1>2, <2>2
  <2> QED
    BY <2>1, <2>2
<1>5. Reached(n)' = Cardinality(ToSet(global[n]) \cup {log[k]})
  BY <1>3 DEF Reached
<1>6. Reached(n)' = IF k <= Reached(n) THEN Reached(n) ELSE Reached(n) + 1
  <2>1. Cardinality(ToSet(global[n]) \cup {log[k]})
          = IF log[k] \in ToSet(global[n]) THEN Cardinality(ToSet(global[n]))
                                           ELSE Cardinality(ToSet(global[n])) + 1
    BY <1>1, FS_AddElement
  <2> QED
    BY <1>4, <1>5, <2>1 DEF Reached
<1>7. ToSet(global'[n]) = {log'[l] : l \in 1..Reached(n)'}
  <2>1. CASE k <= Reached(n)
    <3>1. Reached(n)' = Reached(n) /\ ToSet(global'[n]) = ToSet(global[n])
      BY <1>3, <1>4, <1>6, <2>1
    <3> QED
      BY <1>2, <3>1
  <2>2. CASE ~(k <= Reached(n))
    <3>1. Reached(n)' = Reached(n) + 1 /\ k = Reached(n) + 1
      BY <1>1, <1>6, <2>2
    <3>2. 1..(Reached(n) + 1) = 1..Reached(n) \cup {Reached(n) + 1}
      BY <1>1
    <3> QED
      BY <1>2, <1>3, <3>1, <3>2
  <2> QED
    BY <2>1, <2>2
<1>8. Reached(n)' <= Len(log') /\ k <= Reached(n)'
  BY <1>1, <1>6
<1> QED
  BY <1>6, <1>7, <1>8 DEF CopyHasNoGap, Reached


(* What a "-global" topic has is an entry of the log.                      *)
LEMMA CopiesAreEntries ==
  ASSUME TypeOK, CopiesHaveNoGap, NEW n \in Node, NEW i \in DOMAIN global[n]
  PROVE  \E k \in 1..Reached(n) : k \in DOMAIN log /\ global[n][i] = log[k]
<1>1. global[n][i] \in ToSet(global[n])
  BY DEF ToSet
<1>2. PICK k \in 1..Reached(n) : global[n][i] = log[k]
  BY <1>1 DEF CopiesHaveNoGap, CopyHasNoGap
<1>3. k \in DOMAIN log
  BY ReachedIsAPlace
<1> QED
  BY <1>2, <1>3

LEMMA RestartsAreFew ==
  ASSUME TypeOK, NEW n \in Node
  PROVE  /\ Restarts(n) \subseteq 1..(Len(global[n]) - 1)
         /\ IsFiniteSet(Restarts(n)) /\ Cardinality(Restarts(n)) \in Nat
         /\ DOMAIN global[n] = 1..Len(global[n]) /\ Len(global[n]) \in Nat
<1>1. DOMAIN global[n] = 1..Len(global[n]) /\ Len(global[n]) \in Nat
  BY DEF TypeOK
<1>2. Restarts(n) \subseteq 1..(Len(global[n]) - 1)
  BY DEF Restarts
<1>3. IsFiniteSet(1..(Len(global[n]) - 1))
  BY <1>1, FS_Interval
<1> QED
  BY <1>1, <1>2, <1>3, FS_Subset, FS_CardinalityType

(* The log may grow, the copies stay where they are.                       *)
LEMMA RestartsStay ==
  ASSUME TypeOK, EventsOnce, CopiesHaveNoGap, EventsOnce', NEW n \in Node,
         global'[n] = global[n], DOMAIN log \subseteq DOMAIN log',
         \A k \in DOMAIN log : log'[k] = log[k]
  PROVE  Restarts(n)' = Restarts(n)
<1>1. DOMAIN global[n] = 1..Len(global[n]) /\ Len(global[n]) \in Nat
  BY RestartsAreFew
<1>2. ASSUME NEW i \in DOMAIN global[n]
      PROVE  PlaceInLog(global[n][i])' = PlaceInLog(global[n][i])
  <2>1. PICK k \in DOMAIN log : global[n][i] = log[k]
    BY CopiesAreEntries
  <2>2. PlaceInLog(global[n][i]) = k
    BY <2>1, EntriesHavePlaces
  <2>3. k \in DOMAIN log' /\ global'[n][i] = log'[k]
    BY <2>1
  <2>4. \A l \in DOMAIN log' : log'[l] = log'[k] => l = k
    BY <2>3 DEF EventsOnce
  <2> QED
    BY <2>2, <2>3, <2>4 DEF PlaceInLog
<1>3. \A i \in 1..(Len(global[n]) - 1) : i \in DOMAIN global[n] /\ i + 1 \in DOMAIN global[n]
  BY <1>1
<1> QED
  BY <1>2, <1>3 DEF Restarts

(* A record that does not follow the last one counts once.                 *)
LEMMA RestartsGrow ==
  ASSUME TypeOK, EventsOnce, CopiesHaveNoGap, NEW n \in Node, UNCHANGED log,
         NEW k \in DOMAIN log, global'[n] = Append(global[n], log[k])
  PROVE  /\ Cardinality(Restarts(n)) \in Nat /\ Cardinality(Restarts(n)') \in Nat
         /\ Cardinality(Restarts(n)') <= Cardinality(Restarts(n)) + 1
         /\ global[n] = <<>> \/ k = Place(log, global[n][Len(global[n])].id) + 1
              => Restarts(n)' = Restarts(n)
<1>1. PICK end : end = Len(global[n])
  OBVIOUS
<1>2. /\ DOMAIN global[n] = 1..end /\ end \in Nat
      /\ IsFiniteSet(Restarts(n)) /\ Cardinality(Restarts(n)) \in Nat
      /\ Restarts(n) \subseteq 1..(end - 1)
  BY <1>1, RestartsAreFew
<1>3. /\ Len(global'[n]) = end + 1
      /\ \A i \in 1..end : global'[n][i] = global[n][i]
      /\ global'[n][end + 1] = log[k]
  <2>1. global[n] \in Seq(Record) /\ log[k] \in Record
    BY ElementOfSeq DEF TypeOK
  <2> QED
    BY <1>1, <2>1, AppendProperties
<1>4. \A content : PlaceInLog(content)' = PlaceInLog(content)
  BY DEF PlaceInLog
<1>5. Restarts(n)' = {i \in 1..end : PlaceInLog(global'[n][i + 1])
                                       # PlaceInLog(global'[n][i]) + 1}
  <2>1. Len(global'[n]) - 1 = end
    BY <1>2, <1>3
  <2> QED
    BY <1>4, <2>1 DEF Restarts
<1>6. Restarts(n) = {i \in 1..(end - 1) : PlaceInLog(global[n][i + 1])
                                            # PlaceInLog(global[n][i]) + 1}
  BY <1>1 DEF Restarts
<1>7. \A i \in 1..(end - 1) : /\ i \in 1..end
                              /\ global'[n][i + 1] = global[n][i + 1]
                              /\ global'[n][i] = global[n][i]
  BY <1>2, <1>3
<1>8. Restarts(n) \subseteq Restarts(n)' /\ Restarts(n)' \subseteq Restarts(n) \cup {end}
  <2>1. 1..end \subseteq 1..(end - 1) \cup {end}
    BY <1>2
  <2> QED
    BY <1>5, <1>6, <1>7, <2>1
<1>9. ASSUME global[n] = <<>> \/ k = Place(log, global[n][end].id) + 1
      PROVE  end \notin Restarts(n)'
  <2> SUFFICES ASSUME end \in Restarts(n)' PROVE FALSE
    OBVIOUS
  <2>1. end \in 1..end /\ global[n] # <<>>
    BY <1>1, <1>5
  <2>2. PICK l \in DOMAIN log : global[n][end] = log[l]
    BY <1>2, <2>1, CopiesAreEntries
  <2>3. PlaceInLog(global[n][end]) = l /\ Place(log, global[n][end].id) = l
    BY <2>2, EntriesHavePlaces
  <2>4. PlaceInLog(log[k]) = k
    BY EntriesHavePlaces
  <2> QED
    BY <1>3, <1>5, <1>9, <2>1, <2>3, <2>4
<1>10. /\ Cardinality(Restarts(n)') \in Nat
       /\ Cardinality(Restarts(n)') <= Cardinality(Restarts(n)) + 1
  <2>1. /\ IsFiniteSet(Restarts(n) \cup {end})
        /\ Cardinality(Restarts(n) \cup {end}) <= Cardinality(Restarts(n)) + 1
        /\ Cardinality(Restarts(n) \cup {end}) \in Nat
    <3>1. PICK R : R = Restarts(n)
      OBVIOUS
    <3>2. /\ IsFiniteSet(R \cup {end})
          /\ Cardinality(R \cup {end}) =
               IF end \in R THEN Cardinality(R) ELSE Cardinality(R) + 1
      BY <1>2, <3>1, FS_AddElement
    <3> QED
      BY <1>2, <3>1, <3>2
  <2>2. /\ IsFiniteSet(Restarts(n)')
        /\ Cardinality(Restarts(n)') <= Cardinality(Restarts(n) \cup {end})
    BY <1>8, <2>1, FS_Subset
  <2>3. Cardinality(Restarts(n)') \in Nat
    BY <2>2, FS_CardinalityType
  <2> QED
    BY <1>2, <2>1, <2>2, <2>3
<1> QED
  BY <1>1, <1>2, <1>8, <1>9, <1>10


----------------------------------------------------------------------------
(* What the invariant says of a thread depends on its own state, on the    *)
(* log as far as it has got, and on the marks of its instance.             *)
ThreadIsUndisturbed(n) ==
  /\ pc'[n] = pc[n] /\ batch'[n] = batch[n] /\ last'[n] = last[n]
  /\ global'[n] = global[n]
  /\ delivered[n] <= delivered'[n] /\ delivered'[n] \in Nat
  /\ AddedCount(n) <= AddedCount(n)' /\ AddedCount(n)' \in Nat

LogIsUndisturbed ==
  /\ \A k \in DOMAIN log : k \in DOMAIN log' /\ log'[k] = log[k]
  /\ \A id : IsPlaced(log, id) => /\ IsPlaced(log, id)'
                                  /\ Place(log, id)' = Place(log, id)

MarksAreUndisturbed(n) ==
  /\ \A k : MarksUpTo(n, k) => MarksUpTo(n, k)'
  /\ MarksInOutbox(n) = {} => /\ MarksInOutbox(n)' = {}
                              /\ MarksInOrder(n)' \subseteq MarksInOrder(n)

LEMMA LogStays ==
  ASSUME UNCHANGED log PROVE LogIsUndisturbed
BY DEF LogIsUndisturbed, IsPlaced, Place

LEMMA MarksStayInPlace ==
  ASSUME UNCHANGED <<order, log, logged>>, SameMarks
  PROVE  /\ \A n \in Node : MarksAreUndisturbed(n)
         /\ \A n \in Node : \A d, k : HasMarked(n, d, k)' <=> HasMarked(n, d, k)
<1>1. /\ \A m \in Node : MarksInOrder(m)' = MarksInOrder(m)
      /\ \A i : OrderPlace(i)' = OrderPlace(i)
      /\ \A m \in Node : \A j \in MarksInOutbox(m) :
           OutboxPlace(m, j)' = OutboxPlace(m, j)
  BY MarksStay
<1>2. \A m \in Node : MarksInOutbox(m)' = MarksInOutbox(m)
  BY DEF SameMarks
<1>3. ASSUME NEW n \in Node PROVE MarksAreUndisturbed(n)
  BY <1>1, <1>2 DEF MarksAreUndisturbed, MarksUpTo
<1>4. ASSUME NEW n \in Node, NEW d, NEW k
      PROVE  HasMarked(n, d, k)' <=> HasMarked(n, d, k)
  BY <1>1 DEF HasMarked
<1> QED
  BY <1>3, <1>4

(* A bound on the marks holds for what is above it.                        *)
LEMMA BoundsGrow ==
  ASSUME LogInvariant, NEW n \in Node, NEW k \in Int, NEW l \in Int, k <= l,
         MarksUpTo(n, k)
  PROVE  MarksUpTo(n, l)
<1>1. /\ \A i \in MarksInOrder(n) : OrderPlace(i) \in Int
      /\ \A j \in MarksInOutbox(n) : OutboxPlace(n, j) \in Int
  BY PlacesAreNumbers
<1> QED
  BY <1>1 DEF MarksUpTo

LEMMA ThreadStays ==
  ASSUME LogInvariant, CopiesHaveNoGap, NEW n \in Node, ThreadGoesForward(n),
         ThreadIsUndisturbed(n), LogIsUndisturbed, MarksAreUndisturbed(n)
  PROVE  ThreadGoesForward(n)'
<1>1. /\ AddedCount(n) \in 0..Len(log) /\ AddedCount(n) \in Nat
      /\ DOMAIN log = 1..Len(log) /\ Len(log) \in Nat
      /\ DOMAIN batch[n] = 1..Len(batch[n])
  BY Counts, Domains DEF LogInvariant
<1>2. Reached(n)' = Reached(n) /\ Reached(n) \in Nat
  BY ReachedIsAPlace DEF ThreadIsUndisturbed, Reached, LogInvariant
<1>3. ASSUME NEW id, IsReached(n, id) PROVE IsReached(n, id)'
  BY <1>2, <1>3 DEF IsReached, LogIsUndisturbed
<1>4. CASE pc[n] = "replicate"
  <2>1. PICK c \in 0..Reached(n) : RepliesFrom(n, c) /\ MarksUpTo(n, c)
    BY <1>4 DEF ThreadGoesForward
  <2>2. ASSUME NEW k \in DOMAIN batch[n]
        PROVE  /\ c + k <= AddedCount(n)' /\ Content(batch'[n][k]) = log'[c + k]
    <3>1. c + k <= AddedCount(n) /\ Content(batch[n][k]) = log[c + k]
      BY <2>1 DEF RepliesFrom
    <3>2. c + k \in DOMAIN log /\ c + k \in Nat
      BY <1>1, <1>2, <2>1, <3>1
    <3> QED
      BY <1>1, <3>1, <3>2 DEF ThreadIsUndisturbed, LogIsUndisturbed
  <2>3. RepliesFrom(n, c)'
    BY <2>2 DEF RepliesFrom, ThreadIsUndisturbed, Content
  <2>4. MarksUpTo(n, c)'
    BY <2>1 DEF MarksAreUndisturbed
  <2> QED
    BY <1>2, <1>4, <2>3, <2>4 DEF ThreadGoesForward, ThreadIsUndisturbed
<1>5. CASE pc[n] # "replicate" /\ last[n] # Nil
  <2>1. PICK k : k = Place(log, last[n]) - IF pc[n] = "mark" THEN 1 ELSE 0
    OBVIOUS
  <2>2. /\ IsReached(n, last[n]) /\ Place(log, last[n]) <= AddedCount(n)
        /\ MarksUpTo(n, k)
    BY <1>5, <2>1 DEF ThreadGoesForward
  <2>3. IsPlaced(log, last[n]) /\ Place(log, last[n]) \in Nat
    BY <1>1, <2>2, PlaceIsThere DEF IsReached
  <2>4. Place(log', last'[n]) = Place(log, last[n])
    BY <2>3 DEF LogIsUndisturbed, ThreadIsUndisturbed
  <2>5. Place(log', last'[n]) <= AddedCount(n)'
    BY <1>1, <2>2, <2>3, <2>4 DEF ThreadIsUndisturbed
  <2>6. k = Place(log', last'[n]) - IF pc'[n] = "mark" THEN 1 ELSE 0
    BY <2>1, <2>4 DEF ThreadIsUndisturbed
  <2>7. IsReached(n, last[n])' /\ MarksUpTo(n, k)'
    <3>1. PICK id : id = last[n]
      OBVIOUS
    <3>2. IsReached(n, id)'
      BY <1>3, <2>2, <3>1
    <3>3. last'[n] = id
      BY <3>1 DEF ThreadIsUndisturbed
    <3> QED
      BY <2>2, <3>2, <3>3 DEF MarksAreUndisturbed, IsReached
  <2>8. last'[n] # Nil /\ pc'[n] # "replicate"
    BY <1>5 DEF ThreadIsUndisturbed
  <2> QED
    BY <2>5, <2>6, <2>7, <2>8 DEF ThreadGoesForward
<1>6. CASE pc[n] # "replicate" /\ last[n] = Nil
  <2>1. pc'[n] = "query" => /\ MarksInOutbox(n)' = {}
                            /\ \A i \in MarksInOrder(n)' : i <= delivered'[n]
    <3> SUFFICES ASSUME pc'[n] = "query"
                 PROVE  /\ MarksInOutbox(n)' = {}
                        /\ \A i \in MarksInOrder(n)' : i <= delivered'[n]
      OBVIOUS
    <3>1. /\ MarksInOutbox(n) = {}
          /\ \A i \in MarksInOrder(n) : i <= delivered[n]
      BY <1>6 DEF ThreadGoesForward, ThreadIsUndisturbed
    <3>2. \A i \in MarksInOrder(n) : i \in Nat
      BY PlacesAreNumbers
    <3>3. delivered[n] \in Nat /\ delivered'[n] \in Nat
      BY DEF LogInvariant, TypeOK, ThreadIsUndisturbed
    <3> QED
      BY <3>1, <3>2, <3>3 DEF MarksAreUndisturbed, ThreadIsUndisturbed
  <2>2. last'[n] = Nil /\ pc'[n] # "replicate"
    BY <1>6 DEF ThreadIsUndisturbed
  <2> QED
    BY <2>1, <2>2 DEF ThreadGoesForward
<1> QED
  BY <1>4, <1>5, <1>6


(* The events of a reply are in the log.                                   *)
LEMMA RepliesArePlaced ==
  ASSUME LogInvariant, NEW n \in Node, NEW c \in Nat,
         RepliesFrom(n, c), NEW k \in DOMAIN batch[n]
  PROVE  /\ c + k \in DOMAIN log /\ c + k \in 1..Len(log) /\ k \in Nat \ {0}
         /\ Content(batch[n][k]) = log[c + k]
         /\ batch[n][k].id = log[c + k].id
         /\ IsPlaced(log, batch[n][k].id) /\ Place(log, batch[n][k].id) = c + k
<1>1. /\ AddedCount(n) \in 0..Len(log) /\ AddedCount(n) \in Nat
      /\ DOMAIN log = 1..Len(log) /\ Len(log) \in Nat
      /\ DOMAIN batch[n] = 1..Len(batch[n])
  BY Counts, Domains DEF LogInvariant
<1>2. c + k <= AddedCount(n) /\ Content(batch[n][k]) = log[c + k]
  BY DEF RepliesFrom
<1>3. c + k \in DOMAIN log /\ k \in Nat \ {0}
  BY <1>1, <1>2
<1>4. batch[n][k].id = log[c + k].id
  <2>1. Content(batch[n][k]).id = batch[n][k].id
    BY DEF Content
  <2> QED
    BY <1>2, <2>1
<1>5. EventsOnce
  BY DEF LogInvariant
<1> QED
  BY <1>1, <1>2, <1>3, <1>4, <1>5, EntriesHavePlaces

LEMMA RepeatStays ==
  ASSUME LogInvariant, CopiesHaveNoGap, EventsOnce', NEW n \in Node,
         pc[n] = "replicate" => ThreadGoesForward(n) /\ batch[n] # <<>>,
         ThreadIsUndisturbed(n), LogIsUndisturbed,
         failures'[n] = failures[n], RepeatIsCounted(n)
  PROVE  RepeatIsCounted(n)'
<1>0. TypeOK /\ EventsOnce
  BY DEF LogInvariant
<1>1. Restarts(n)' = Restarts(n)
  BY <1>0, RestartsStay DEF ThreadIsUndisturbed, LogIsUndisturbed
<1>2. PICK end : end = Len(global[n])
  OBVIOUS
<1>3. global[n] # <<>> =>
        /\ IsPlaced(log, global[n][end].id)
        /\ Place(log, global[n][end].id)' = Place(log, global[n][end].id)
  <2> SUFFICES ASSUME global[n] # <<>>
               PROVE  IsPlaced(log, global[n][end].id)
    BY DEF LogIsUndisturbed, ThreadIsUndisturbed, Place
  <2>1. end \in DOMAIN global[n]
    BY <1>0, <1>2 DEF TypeOK
  <2>2. PICK k \in DOMAIN log : global[n][end] = log[k]
    BY <1>0, <2>1, CopiesAreEntries
  <2> QED
    BY <2>2 DEF IsPlaced
<1>4. pc[n] = "replicate" => Place(log, batch[n][1].id)' = Place(log, batch[n][1].id)
  <2> SUFFICES ASSUME pc[n] = "replicate"
               PROVE  IsPlaced(log, batch[n][1].id)
    <3>1. PICK id : id = batch[n][1].id
      OBVIOUS
    <3>2. batch'[n][1].id = id
      BY <3>1 DEF ThreadIsUndisturbed
    <3>3. IsPlaced(log, id) => Place(log', id) = Place(log, id)
      BY DEF LogIsUndisturbed
    <3> QED
      BY <3>1, <3>2, <3>3
  <2>1. PICK c \in 0..Reached(n) : RepliesFrom(n, c)
    BY DEF ThreadGoesForward
  <2>2. c \in Nat
    OBVIOUS
  <2>3. 1 \in DOMAIN batch[n]
    <3>1. batch[n] \in Seq(Event) /\ batch[n] # <<>>
      BY <1>0 DEF TypeOK
    <3> QED
      BY <3>1
  <2> QED
    BY <2>1, <2>2, <2>3, RepliesArePlaced
<1>5. GoesOn(n)' <=> GoesOn(n)
  <2>1. pc'[n] = pc[n] /\ batch'[n] = batch[n] /\ last'[n] = last[n] /\ global'[n] = global[n]
    BY DEF ThreadIsUndisturbed
  <2>2. GoesOn(n) <=>
          \/ global[n] = <<>>
          \/ /\ pc[n] = "replicate"
             /\ Place(log, batch[n][1].id) = Place(log, global[n][end].id) + 1
          \/ pc[n] # "replicate" /\ last[n] = global[n][end].id
    BY <1>2 DEF GoesOn
  <2>3. GoesOn(n)' <=>
          \/ global[n] = <<>>
          \/ /\ pc[n] = "replicate"
             /\ Place(log, batch[n][1].id)' = Place(log, global[n][end].id)' + 1
          \/ pc[n] # "replicate" /\ last[n] = global[n][end].id
    BY <1>2, <2>1 DEF GoesOn, Place
  <2> QED
    BY <1>3, <1>4, <2>2, <2>3
<1> QED
  BY <1>1, <1>5 DEF RepeatIsCounted

(* Derecho orders a message: the marks stay below the same bounds, and the *)
(* part of the order that is there already shows the same.                 *)
LEMMA OrderedMarksStay ==
  ASSUME UniqueIds, LogInvariant, NEW n \in Node, OrderMessage(n), NEW m \in Node
  PROVE  /\ MarksAreUndisturbed(m)
         /\ \A d \in 0..Len(order) : \A k :
              HasMarked(m, d, k)' <=> HasMarked(m, d, k)
<1>1. PICK top : top = Len(order) + 1
  OBVIOUS
<1>2. /\ DOMAIN order = 1..Len(order) /\ Len(order) \in Nat
      /\ DOMAIN order' = 1..top /\ top \in Nat
      /\ \A i \in MarksInOrder(m)' : i # top =>
           i \in MarksInOrder(m) /\ OrderPlace(i)' = OrderPlace(i)
      /\ top \in MarksInOrder(m)' =>
           m = n /\ 1 \in MarksInOutbox(n) /\ OrderPlace(top)' = OutboxPlace(n, 1)
      /\ \A j \in MarksInOutbox(m)' :
           /\ WasAt(m, n, j) \in MarksInOutbox(m)
           /\ OutboxPlace(m, j)' = OutboxPlace(m, WasAt(m, n, j))
  BY <1>1, MarksMoveUp
<1>3. ASSUME NEW k, MarksUpTo(m, k) PROVE MarksUpTo(m, k)'
  BY <1>2, <1>3 DEF MarksUpTo
<1>4. ASSUME MarksInOutbox(m) = {}
      PROVE  MarksInOutbox(m)' = {} /\ MarksInOrder(m)' \subseteq MarksInOrder(m)
  BY <1>2, <1>4
<1>5. ASSUME NEW i \in MarksInOrder(m)
      PROVE  i \in MarksInOrder(m)' /\ OrderPlace(i)' = OrderPlace(i)
  <2>1. i \in 1..Len(order) /\ i \in 1..top
    BY <1>1, <1>2 DEF MarksInOrder
  <2>2. order'[i] = order[i]
    BY <1>1, <2>1, OrderGrows
  <2>3. IsPlaced(log, order[i].id)
    BY DEF LogInvariant, MarksArePlaced
  <2>4. PICK id : id = order[i].id
    OBVIOUS
  <2>5. Place(log, id)' = Place(log, id)
    BY <2>3, <2>4, OrderMessageLog
  <2>6. OrderPlace(i)' = OrderPlace(i)
    BY <2>2, <2>4, <2>5 DEF OrderPlace
  <2> QED
    BY <1>2, <2>1, <2>2, <2>6 DEF MarksInOrder
<1>6. ASSUME NEW d \in 0..Len(order), NEW k
      PROVE  HasMarked(m, d, k)' <=> HasMarked(m, d, k)
  <2>1. ~(top <= d)
    BY <1>1, <1>2
  <2> QED
    BY <1>2, <1>5, <2>1 DEF HasMarked
<1> QED
  BY <1>3, <1>4, <1>6 DEF MarksAreUndisturbed


(* A list goes on showing the marks of its place in the order, also where  *)
(* it is transferred to.                                                   *)
LEMMA ListMoves ==
  ASSUME NEW m \in Node, NEW l \in Node, ListShowsMarks(l), NEW d, d = delivered[l],
         events'[m] = events[l], delivered'[m] = d, Forgotten(m)' = Forgotten(l),
         \A n \in Node : \A k : HasMarked(n, d, k)' <=> HasMarked(n, d, k)
  PROVE  ListShowsMarks(m)'
<1> SUFFICES ASSUME NEW n \in Node
             PROVE  /\ \A k \in 1..Forgotten(m)' : HasMarked(n, delivered[m], k)'
                    /\ \A j \in DOMAIN events'[m] :
                         n \in events'[m][j].replicas
                           <=> HasMarked(n, delivered[m], Forgotten(m) + j)'
  BY DEF ListShowsMarks
<1>1. PICK b : b = Forgotten(l)
  OBVIOUS
<1>2. /\ \A k \in 1..b : HasMarked(n, d, k)
      /\ \A j \in DOMAIN events[l] :
           n \in events[l][j].replicas <=> HasMarked(n, d, b + j)
  BY <1>1 DEF ListShowsMarks
<1>3. /\ \A k \in 1..b : HasMarked(n, d, k)'
      /\ \A j \in DOMAIN events[l] :
           n \in events[l][j].replicas <=> HasMarked(n, d, b + j)'
  BY <1>2
<1>4. \A k : HasMarked(n, delivered[m], k)' <=> HasMarked(n, d, k)'
  BY DEF HasMarked
<1>5. \A j : HasMarked(n, delivered[m], Forgotten(m) + j)' <=> HasMarked(n, d, b + j)'
  BY <1>1 DEF HasMarked
<1> QED
  BY <1>1, <1>3, <1>4, <1>5

LEMMA ListStays ==
  ASSUME NEW m \in Node, ListShowsMarks(m), NEW d, d = delivered[m],
         events'[m] = events[m], delivered'[m] = d, Forgotten(m)' = Forgotten(m),
         \A n \in Node : \A k : HasMarked(n, d, k)' <=> HasMarked(n, d, k)
  PROVE  ListShowsMarks(m)'
BY ListMoves

----------------------------------------------------------------------------
(* A step that leaves the lists and the marks alone.                       *)
LEMMA ListsStay ==
  ASSUME FailuresInvariant, SameMarks,
         UNCHANGED <<up, delivered, events, order, log, logged>>
  PROVE  ListsShowMarks'
<1> SUFFICES ASSUME NEW m \in up PROVE ListShowsMarks(m)'
  BY DEF ListsShowMarks
<1>1. ListShowsMarks(m) /\ m \in Node
  BY DEF FailuresInvariant, FailuresTypeOK, ListsShowMarks
<1>2. \A n \in Node : \A d, k : HasMarked(n, d, k)' <=> HasMarked(n, d, k)
  BY MarksStayInPlace
<1>3. Forgotten(m)' = Forgotten(m)
  BY DEF AddedCount, LogLen, Forgotten
<1>4. PICK d : d = delivered[m]
  OBVIOUS
<1> QED
  BY <1>1, <1>2, <1>3, <1>4, ListStays

(* ... and the "-global" topics.                                           *)
LEMMA CopiesStay ==
  ASSUME FailuresInvariant, SameMarks,
         UNCHANGED <<order, global, log, logged>>
  PROVE  CopiesHaveNoGap' /\ MarksAreReached'
<1>1. CopiesHaveNoGap /\ MarksAreReached
  BY DEF FailuresInvariant
<1>2. \A n \in Node : MarksAreUndisturbed(n)
  BY MarksStayInPlace
<1>3. CopiesHaveNoGap'
  BY <1>1 DEF CopiesHaveNoGap, CopyHasNoGap, Reached
<1>4. MarksAreReached'
  <2> SUFFICES ASSUME NEW n \in Node PROVE MarksUpTo(n, Reached(n))'
    BY DEF MarksAreReached
  <2>1. PICK k : k = Reached(n)
    OBVIOUS
  <2>2. MarksUpTo(n, k)'
    BY <1>1, <1>2, <2>1 DEF MarksAreReached, MarksAreUndisturbed
  <2>3. Reached(n)' = k
    BY <2>1 DEF Reached
  <2> QED
    BY <2>2, <2>3 DEF MarksUpTo
<1> QED
  BY <1>3, <1>4

(* A thread that a step leaves alone.                                      *)
LEMMA UndisturbedThread ==
  ASSUME FailuresInvariant, EventsOnce', NEW n \in Node,
         ThreadIsUndisturbed(n), LogIsUndisturbed, MarksAreUndisturbed(n),
         failures'[n] = failures[n]
  PROVE  /\ n \in up => ThreadGoesForward(n)'
         /\ RepeatIsCounted(n)'
<1>1. /\ LogInvariant /\ CopiesHaveNoGap /\ FailuresTypeOK
      /\ ThreadsGoForward /\ RepeatsAreCounted
  BY DEF FailuresInvariant
<1>2. pc[n] = "replicate" => ThreadGoesForward(n) /\ batch[n] # <<>>
  BY <1>1 DEF FailuresTypeOK, ThreadsGoForward
<1>3. RepeatIsCounted(n)'
  BY <1>1, <1>2, RepeatStays DEF RepeatsAreCounted
<1> QED
  BY <1>1, <1>3, ThreadStays DEF ThreadsGoForward

(* A step that leaves all of them alone.                                   *)
LEMMA QuietStep ==
  ASSUME FailuresInvariant, EventsOnce', SameMarks,
         UNCHANGED <<up, pc, batch, last, delivered, events, order, global,
                     log, logged, failures>>
  PROVE  /\ CopiesHaveNoGap' /\ MarksAreReached' /\ ListsShowMarks'
         /\ ThreadsGoForward' /\ RepeatsAreCounted'
<1>1. LogInvariant /\ TypeOK /\ up \subseteq Node
  BY DEF FailuresInvariant, LogInvariant, FailuresTypeOK
<1>2. CopiesHaveNoGap' /\ MarksAreReached' /\ ListsShowMarks'
  BY CopiesStay, ListsStay
<1>3. LogIsUndisturbed /\ \A n \in Node : MarksAreUndisturbed(n)
  BY LogStays, MarksStayInPlace
<1>4. ASSUME NEW n \in Node
      PROVE  (n \in up => ThreadGoesForward(n)') /\ RepeatIsCounted(n)'
  <2>1. AddedCount(n)' = AddedCount(n)
    BY DEF AddedCount, LogLen
  <2>2. AddedCount(n) \in Nat /\ delivered[n] \in Nat
    BY <1>1, Counts DEF LogInvariant
  <2>3. ThreadIsUndisturbed(n)
    BY <2>1, <2>2 DEF ThreadIsUndisturbed
  <2> QED
    BY <1>3, <2>3, UndisturbedThread
<1> QED
  BY <1>1, <1>2, <1>4 DEF ThreadsGoForward, RepeatsAreCounted

(* kafka_polling reads and sends what its own cluster publishes, ...       *)
LEMMA KafkaThreadKeeps ==
  ASSUME SafeSettings, FailuresInvariant, FailuresTypeOK', TypeOK',
         NEW n \in Node, KafkaThread(n)
  PROVE  FailuresInvariant'
<1>1. /\ LogInvariant /\ MembersAreKept /\ EventsOnce /\ FailuresTypeOK
      /\ LogFollowsOrder /\ ListsAreSegments /\ MarksArePlaced /\ MarksMoveForward
      /\ TypeOK
  BY DEF FailuresInvariant, LogInvariant
<1>2. UNCHANGED <<up, failures, my_id, committed>>
  BY DEF KafkaThread, failureVars, membership
<1>3. ASSUME NEW p \in Partition, KafkaPoll(n, p) PROVE FailuresInvariant'
  <2>1. UNCHANGED <<pc, batch, last, outbox, order, delivered, events, global,
                    log, logged>>
    BY <1>3 DEF KafkaPoll, derechoThread, multicast, history
  <2>2. n \notin Fallible
    BY <1>1, <1>3 DEF KafkaPoll, SafeSettings, MembersAreKept
  <2>3. EventsOnce'
    BY <1>1, <1>3, KafkaPollSafe DEF SafeSettings
  <2>4. SameMarks
    BY <2>1 DEF SameMarks, MarksInOutbox, AddsInOutbox
  <2>5. MembersAreKept'
    <3>1. \A m \in Fallible : /\ polled'[m] = polled[m] /\ position'[m] = position[m]
                              /\ AddsInOutbox(m)' = AddsInOutbox(m)
      BY <1>1, <1>3, <2>1, <2>2, FailuresAssumption
         DEF KafkaPoll, TypeOK, AddsInOutbox
    <3> QED
      BY <1>1, <1>2, <2>1, <3>1 DEF MembersAreKept
  <2>6. LogInvariant'
    BY <1>1, <2>1, <2>3, LogFollowsOrderUnchanged, ListsAreSegmentsUnchanged,
       MarksArePlacedUnchanged, MarksMoveForwardUnchanged DEF LogInvariant
  <2> QED
    BY <1>2, <2>1, <2>3, <2>4, <2>5, <2>6, QuietStep DEF FailuresInvariant
<1>4. CASE Send(n)
  <2>1. UNCHANGED <<position, pc, batch, last, order, delivered, events, global,
                    log, logged>>
    BY <1>4 DEF Send, SendAddEvent, OrderedSend, derechoThread, history
  <2>2. n \notin Fallible
    BY <1>1, <1>4 DEF Send, SendAddEvent, MembersAreKept
  <2>3. EventsOnce' /\ MarksArePlaced' /\ MarksMoveForward' /\ SameMarks
    BY <1>1, <1>4, SendAddEventLog DEF Send
  <2>4. MembersAreKept'
    <3>1. \A m \in Fallible : /\ polled'[m] = polled[m]
                              /\ AddsInOutbox(m)' = AddsInOutbox(m)
      BY <1>1, <1>4, <2>2, FailuresAssumption
         DEF Send, SendAddEvent, OrderedSend, TypeOK, AddsInOutbox
    <3> QED
      BY <1>1, <1>2, <2>1, <3>1 DEF MembersAreKept
  <2>5. LogInvariant'
    BY <1>1, <2>1, <2>3, LogFollowsOrderUnchanged, ListsAreSegmentsUnchanged
       DEF LogInvariant
  <2> QED
    BY <1>2, <2>1, <2>3, <2>4, <2>5, QuietStep DEF FailuresInvariant
<1> QED
  BY <1>3, <1>4 DEF KafkaThread

(* ... the client library commits it, or nothing happens.                  *)
LEMMA CommitKeeps ==
  ASSUME SafeSettings, FailuresInvariant, FailuresTypeOK', TypeOK',
         UNCHANGED <<vars, membership>>,
         \/ UNCHANGED committed
         \/ \E n \in Node, p \in Partition :
              committed' = [committed EXCEPT ![n][p] = position[n][p]]
  PROVE  FailuresInvariant'
<1>1. LogInvariant /\ MembersAreKept /\ EventsOnce /\ FailuresTypeOK
  BY DEF FailuresInvariant, LogInvariant
<1>2. UNCHANGED <<position, polled, pc, batch, last, outbox, order, delivered,
                  events, global, log, logged, up, failures, my_id>>
  BY DEF vars, kafkaThread, derechoThread, multicast, history, membership
<1>3. LogInvariant' /\ EventsOnce'
  BY <1>1, <1>2, LogInvariantUnchanged DEF LogInvariant
<1>4. SameMarks
  BY <1>2 DEF SameMarks, MarksInOutbox, AddsInOutbox
<1>5. MembersAreKept'
  <2>1. ASSUME NEW m \in Fallible, NEW q \in Partition
        PROVE  committed'[m][q] \in {None, 0}
    <3>1. position[m][q] = 0 /\ committed[m][q] \in {None, 0} /\ m \in Node
      BY <1>1, FailuresAssumption DEF MembersAreKept
    <3>2. /\ committed \in [Node -> [Partition -> Nat \cup {None}]]
          /\ committed[m] \in [Partition -> Nat \cup {None}]
      BY <1>1, <3>1 DEF FailuresTypeOK
    <3>3. CASE UNCHANGED committed
      BY <3>1, <3>3
    <3>4. ASSUME NEW n \in Node, NEW p \in Partition,
                 committed' = [committed EXCEPT ![n][p] = position[n][p]]
          PROVE  committed'[m][q] \in {None, 0}
      <4>1. CASE m = n /\ q = p
        BY <3>1, <3>2, <3>4, <4>1
      <4>2. CASE ~(m = n /\ q = p)
        <5>1. committed'[m][q] = committed[m][q]
          BY <3>1, <3>2, <3>4, <4>2
        <5> QED
          BY <3>1, <5>1
      <4> QED
        BY <4>1, <4>2
    <3> QED
      BY <3>3, <3>4
  <2> QED
    BY <1>1, <1>2, <2>1 DEF MembersAreKept, AddsInOutbox
<1> QED
  BY <1>2, <1>3, <1>4, <1>5, QuietStep DEF FailuresInvariant


----------------------------------------------------------------------------
(* A mark is for an event that the replica has when it applies the mark,   *)
(* and so is what a list shows.                                            *)
LEMMA MarkedIsAdded ==
  ASSUME LogInvariant, NEW m \in Node, NEW n \in Node, NEW i \in MarksInOrder(n),
         i <= delivered[m]
  PROVE  OrderPlace(i) \in 1..AddedCount(m) /\ i \in Nat
<1>1. /\ delivered[m] \in 0..Len(order) /\ Len(order) \in Nat
      /\ AddedCount(m) \in Nat /\ i \in Nat /\ OrderPlace(i) \in 1..Len(log)
  BY Counts, PlacesAreNumbers DEF LogInvariant
<1>2. OrderPlace(i) <= LogLen(i)
  BY DEF LogInvariant, MarksArePlaced
<1>3. LogLen(i) <= LogLen(delivered[m])
  <2>1. i \in 0..Len(order)
    BY <1>1
  <2> QED
    BY <1>1, <2>1 DEF LogInvariant, LogFollowsOrder
<1>4. LogLen(i) \in Int
  <2>1. i \in DOMAIN order /\ logged \in Seq(Nat) /\ Len(logged) = Len(order)
    BY DEF MarksInOrder, LogInvariant, LogFollowsOrder, TypeOK
  <2>2. i \in 1..Len(logged)
    BY <2>1 DEF LogInvariant, TypeOK
  <2>3. logged[i] \in Nat
    BY <2>1, <2>2, ElementOfSeq
  <2>4. i # 0
    BY <2>2
  <2> QED
    BY <2>3, <2>4 DEF LogLen
<1> QED
  BY <1>1, <1>2, <1>3, <1>4 DEF AddedCount

(* What the list of n has marked for n, or forgotten, is in its cluster    *)
(* and below every bound on its marks.                                     *)
LEMMA ShownIsBounded ==
  ASSUME LogInvariant, CopiesHaveNoGap, MarksAreReached,
         NEW n \in Node, NEW d, NEW k \in Int, HasMarked(n, d, k)
  PROVE  /\ k <= Reached(n)
         /\ \A l \in Int : MarksUpTo(n, l) => k <= l
<1>1. PICK i \in MarksInOrder(n) : k <= OrderPlace(i)
  BY DEF HasMarked
<1>2. OrderPlace(i) \in Int /\ Reached(n) \in Int
  BY <1>1, PlacesAreNumbers, ReachedIsAPlace DEF LogInvariant
<1>3. OrderPlace(i) <= Reached(n)
  BY DEF MarksAreReached, MarksUpTo
<1>4. ASSUME NEW l \in Int, MarksUpTo(n, l) PROVE k <= l
  <2>1. OrderPlace(i) <= l
    BY <1>4 DEF MarksUpTo
  <2> QED
    BY <1>1, <1>2, <2>1
<1> QED
  BY <1>1, <1>2, <1>3, <1>4

(* A new thread asks for what is not marked, which starts behind all the   *)
(* marks of its instance and leaves no gap in its cluster.                 *)
LEMMA UnmarkedStart ==
  ASSUME FailuresInvariant, NEW n \in up, pc[n] = "query", last[n] = Nil,
         NEW unmarked, unmarked = {j \in DOMAIN events[n] :
                                      n \notin events[n][j].replicas},
         NEW first, first = Find(events[n], unmarked),
         NEW c, c = Forgotten(n) + first - 1
  PROVE  /\ first \in 1..(Len(events[n]) + 1)
         /\ c \in 0..Reached(n) /\ MarksUpTo(n, c)
<1>0. PICK b, length, d : /\ b = Forgotten(n) /\ length = Len(events[n])
                          /\ d = delivered[n]
  OBVIOUS
<1>1. /\ LogInvariant /\ CopiesHaveNoGap /\ MarksAreReached /\ FailuresTypeOK
      /\ ListShowsMarks(n) /\ ThreadGoesForward(n) /\ TypeOK /\ n \in Node
  BY DEF FailuresInvariant, LogInvariant, FailuresTypeOK, ListsShowMarks,
         ThreadsGoForward
<1>2. /\ b \in Nat /\ length \in Nat /\ b + length = AddedCount(n)
      /\ AddedCount(n) \in Nat /\ Reached(n) \in Nat
      /\ events[n] \in Seq(Event) /\ DOMAIN events[n] = 1..length
  BY <1>0, <1>1, Counts, ReachedIsAPlace DEF LogInvariant, TypeOK
<1>3. /\ first \in 1..(length + 1)
      /\ \A j \in unmarked : first <= j
      /\ first # length + 1 => first \in unmarked
      /\ first = length + 1 => unmarked = {}
  <2>1. unmarked \subseteq 1..Len(events[n])
    BY <1>0, <1>2
  <2> QED
    BY <1>0, <1>2, <2>1, FindProperties
<1>4. c = b + first - 1 /\ c \in Nat
  BY <1>0, <1>2, <1>3
<1>5. /\ \A k \in 1..b : HasMarked(n, d, k)
      /\ \A j \in 1..length :
           n \in events[n][j].replicas <=> HasMarked(n, d, b + j)
  BY <1>0, <1>1, <1>2 DEF ListShowsMarks
<1>6. c <= Reached(n)
  <2>1. CASE c = 0
    BY <1>2, <2>1
  <2>2. CASE c # 0 /\ first = 1
    <3>1. c \in 1..b
      BY <1>2, <1>4, <2>2
    <3> QED
      BY <1>1, <1>5, <3>1, ShownIsBounded
  <2>3. CASE first # 1
    <3>1. first - 1 \in 1..length /\ ~(first <= first - 1) /\ b + (first - 1) = c
      BY <1>2, <1>3, <1>4, <2>3
    <3>2. first - 1 \notin unmarked
      BY <1>3, <3>1
    <3>3. n \in events[n][first - 1].replicas
      BY <1>2, <3>1, <3>2
    <3>4. HasMarked(n, d, c)
      BY <1>5, <3>1, <3>3
    <3> QED
      BY <1>1, <1>4, <3>4, ShownIsBounded
  <2> QED
    BY <2>1, <2>2, <2>3
<1>7. MarksUpTo(n, c)
  <2>1. MarksInOutbox(n) = {} /\ \A i \in MarksInOrder(n) : i <= d
    BY <1>0, <1>1 DEF ThreadGoesForward
  <2>2. ASSUME NEW i \in MarksInOrder(n) PROVE OrderPlace(i) <= c
    <3>1. PICK k : k = OrderPlace(i)
      OBVIOUS
    <3>2. k \in 1..AddedCount(n)
      BY <1>0, <1>1, <2>1, <3>1, MarkedIsAdded
    <3> SUFFICES ASSUME ~(k <= c) PROVE FALSE
      BY <3>1
    <3>3. first \in 1..length /\ b + first <= k
      BY <1>2, <1>3, <1>4, <3>2
    <3>4. HasMarked(n, d, b + first)
      BY <2>1, <3>1, <3>3 DEF HasMarked
    <3>5. n \in events[n][first].replicas
      BY <1>5, <3>3, <3>4
    <3>6. first \in unmarked
      BY <1>2, <1>3, <3>3
    <3> QED
      BY <3>5, <3>6
  <2> QED
    BY <2>1, <2>2 DEF MarksUpTo
<1> QED
  BY <1>0, <1>3, <1>4, <1>6, <1>7


(* A thread that goes on asks for what follows last_event, which its list  *)
(* holds or was the last one it has forgotten.                             *)
LEMMA CursorStart ==
  ASSUME FailuresInvariant, NEW n \in up, pc[n] = "query", last[n] # Nil,
         NEW p, p = Place(log, last[n])
  PROVE  /\ IsPlaced(log, last[n]) /\ MarksUpTo(n, p)
         /\ Forgotten(n) <= p /\ p <= AddedCount(n)
         /\ p \in 0..Reached(n)
<1>1. /\ LogInvariant /\ CopiesHaveNoGap /\ MarksAreReached /\ FailuresTypeOK
      /\ ListShowsMarks(n) /\ ThreadGoesForward(n) /\ TypeOK /\ n \in Node
  BY DEF FailuresInvariant, LogInvariant, FailuresTypeOK, ListsShowMarks,
         ThreadsGoForward
<1>2. PICK b : b = Forgotten(n)
  OBVIOUS
<1>3. b \in Nat /\ Reached(n) \in Nat /\ DOMAIN log = 1..Len(log) /\ Len(log) \in Nat
  BY <1>1, <1>2, Counts, ReachedIsAPlace DEF LogInvariant
<1>4. /\ IsReached(n, last[n]) /\ p <= AddedCount(n)
      /\ MarksUpTo(n, p - IF pc[n] = "mark" THEN 1 ELSE 0)
  BY <1>1 DEF ThreadGoesForward
<1>5. IsPlaced(log, last[n]) /\ p <= Reached(n) /\ p \in DOMAIN log
  BY <1>4, PlaceIsThere DEF IsReached
<1>6. p \in Nat
  BY <1>3, <1>5
<1>7. MarksUpTo(n, p)
  <2>1. p - (IF pc[n] = "mark" THEN 1 ELSE 0) = p
    BY <1>6
  <2> QED
    BY <1>4, <2>1
<1>8. b <= p
  <2>1. CASE b = 0
    BY <1>6, <2>1
  <2>2. CASE b # 0
    <3>1. b \in 1..b
      BY <1>3, <2>2
    <3>2. HasMarked(n, delivered[n], b)
      BY <1>1, <1>2, <3>1 DEF ListShowsMarks
    <3> QED
      BY <1>1, <1>3, <1>6, <1>7, <3>2, ShownIsBounded
  <2> QED
    BY <2>1, <2>2
<1> QED
  BY <1>2, <1>3, <1>4, <1>5, <1>6, <1>7, <1>8

(* Either way the reply is a part of the log that leaves no gap.           *)
LEMMA ReplyGoesForward ==
  ASSUME SafeSettings, FailuresInvariant, NEW n \in up, pc[n] = "query",
         NEW reply, reply = QueryReply(n, chunk[n], my_id[n])
  PROVE  /\ reply \in Seq(Event)
         /\ \E c \in 0..Reached(n) :
              /\ MarksUpTo(n, c)
              /\ last[n] # Nil => c = Place(log, last[n])
              /\ FollowsPlace(reply, n, c)
<1>1. /\ LogInvariant /\ FailuresTypeOK /\ my_id[n] = n /\ n \in Node
      /\ chunk[n] \in Int
  BY DEF FailuresInvariant, FailuresTypeOK, MembersAreKept
<1>2. PICK event_chunk : event_chunk = chunk[n]
  OBVIOUS
<1>3. \E first, c : /\ reply = Chunk(events[n], event_chunk, first)
                    /\ first \in 1..(Len(events[n]) + 1)
                    /\ c = Forgotten(n) + first - 1
                    /\ c \in 0..Reached(n) /\ MarksUpTo(n, c)
                    /\ last[n] # Nil => c = Place(log, last[n])
  <2>1. CASE last[n] = Nil
    <3>1. PICK unmarked, first, c :
            /\ unmarked = {j \in DOMAIN events[n] : n \notin events[n][j].replicas}
            /\ first = Find(events[n], unmarked)
            /\ c = Forgotten(n) + first - 1
      OBVIOUS
    <3>2. reply = Chunk(events[n], event_chunk, first)
      BY <1>1, <1>2, <2>1, <3>1 DEF QueryReply, GetEvents
    <3>3. /\ first \in 1..(Len(events[n]) + 1)
          /\ c \in 0..Reached(n) /\ MarksUpTo(n, c)
      BY <2>1, <3>1, UnmarkedStart
    <3> QED
      BY <2>1, <3>1, <3>2, <3>3
  <2>2. CASE last[n] # Nil
    <3>1. PICK p, id, first : /\ id = last[n] /\ p = Place(log, id)
                              /\ first = p - Forgotten(n) + 1
      OBVIOUS
    <3>2. /\ IsPlaced(log, id) /\ MarksUpTo(n, p)
          /\ Forgotten(n) <= p /\ p <= AddedCount(n) /\ p \in 0..Reached(n)
      BY <2>2, <3>1, CursorStart
    <3>3. reply = Chunk(events[n], event_chunk, first)
      <4>1. GetEventsFrom(events[n], event_chunk, id) = Chunk(events[n], event_chunk, first)
        BY <1>1, <3>1, <3>2, CursorInTheList
      <4> QED
        BY <1>2, <2>2, <3>1, <4>1 DEF QueryReply
    <3>4. /\ Forgotten(n) \in Nat /\ Len(events[n]) \in Nat /\ p \in Nat
          /\ Forgotten(n) + Len(events[n]) = AddedCount(n)
      BY <1>1, <3>2, Counts DEF LogInvariant
    <3>5. first \in 1..(Len(events[n]) + 1) /\ p = Forgotten(n) + first - 1
      BY <3>1, <3>2, <3>4
    <3> QED
      BY <3>1, <3>2, <3>3, <3>5
  <2> QED
    BY <2>1, <2>2
<1>4. PICK first, c : /\ reply = Chunk(events[n], event_chunk, first)
                      /\ first \in 1..(Len(events[n]) + 1)
                      /\ c = Forgotten(n) + first - 1
                      /\ c \in 0..Reached(n) /\ MarksUpTo(n, c)
                      /\ last[n] # Nil => c = Place(log, last[n])
  BY <1>3
<1>5. event_chunk \in Int
  BY <1>1, <1>2
<1>6. reply \in Seq(Event) /\ FollowsPlace(reply, n, c)
  BY ONLY <1>1, <1>4, <1>5, ChunkOfTheLog
<1> QED
  BY <1>4, <1>6

(* derecho_polling gets a reply, and goes on where it was, or starts anew  *)
(* after the failure that is counted already.                              *)
LEMMA AcceptReplyKeeps ==
  ASSUME SafeSettings, FailuresInvariant, FailuresTypeOK', TypeOK',
         NEW n \in up, UNCHANGED failureVars,
         AcceptReply(n, QueryReply(n, chunk[n], my_id[n]))
  PROVE  FailuresInvariant'
<1>1. PICK reply : reply = QueryReply(n, chunk[n], my_id[n])
  OBVIOUS
<1>2. /\ LogInvariant /\ MembersAreKept /\ CopiesHaveNoGap /\ MarksAreReached
      /\ FailuresTypeOK /\ ThreadsGoForward /\ RepeatsAreCounted /\ EventsOnce
      /\ TypeOK /\ n \in Node /\ up \subseteq Node
  BY DEF FailuresInvariant, LogInvariant, FailuresTypeOK
<1>3. /\ pc[n] = "query"
      /\ UNCHANGED <<position, polled, last, outbox, order, delivered, events,
                     global, log, logged, up, failures, my_id, committed>>
  BY DEF AcceptReply, kafkaThread, multicast, history, failureVars, membership
<1>4. LogInvariant' /\ EventsOnce'
  BY <1>2, <1>3, LogInvariantUnchanged DEF LogInvariant
<1>5. SameMarks
  BY <1>3 DEF SameMarks, MarksInOutbox, AddsInOutbox
<1>6. MembersAreKept'
  BY <1>2, <1>3 DEF MembersAreKept, AddsInOutbox
<1>7. CASE UNCHANGED <<pc, batch>>
  BY <1>3, <1>4, <1>5, <1>6, <1>7, QuietStep DEF FailuresInvariant
<1>8. CASE /\ reply # <<>>
           /\ batch' = [batch EXCEPT ![n] = reply]
           /\ pc' = [pc EXCEPT ![n] = "replicate"]
  <2>1. /\ batch'[n] = reply /\ pc'[n] = "replicate"
        /\ \A m \in Node : m # n => batch'[m] = batch[m] /\ pc'[m] = pc[m]
    BY <1>2, <1>8 DEF TypeOK
  <2> USE <1>2, <1>3
  <2>2. PICK c \in 0..Reached(n) :
          /\ MarksUpTo(n, c)
          /\ last[n] # Nil => c = Place(log, last[n])
          /\ \A k \in 1..Len(reply) : /\ c + k <= AddedCount(n)
                                      /\ Content(reply[k]) = log[c + k]
    BY <1>1, ReplyGoesForward DEF FollowsPlace
  <2>3. reply \in Seq(Event) /\ DOMAIN reply = 1..Len(reply) /\ 1 \in DOMAIN reply
    <3>1. reply \in Seq(Event)
      BY <1>1, ReplyGoesForward
    <3> QED
      BY <1>8, <3>1
  <2>4. ThreadGoesForward(n)'
    <3>1. RepliesFrom(n, c)'
      BY <2>1, <2>2, <2>3 DEF RepliesFrom, AddedCount, LogLen, Content
    <3>2. MarksUpTo(n, c)'
      BY <1>5, <2>2, MarksStayInPlace DEF MarksAreUndisturbed
    <3>3. c \in 0..Reached(n)'
      BY DEF Reached
    <3> QED
      BY <2>1, <3>1, <3>2, <3>3 DEF ThreadGoesForward
  <2>5. RepeatIsCounted(n)'
    <3>1. GoesOn(n) => GoesOn(n)'
      <4> SUFFICES ASSUME GoesOn(n), global[n] # <<>> PROVE GoesOn(n)'
        BY DEF GoesOn
      <4>1. last[n] = global[n][Len(global[n])].id
        BY DEF GoesOn
      <4>2. last[n] # Nil
        <5>1. Len(global[n]) \in DOMAIN global[n]
          BY DEF TypeOK
        <5>2. global[n][Len(global[n])] \in Record
          BY <5>1, ElementOfSeq DEF TypeOK
        <5> QED
          BY <4>1, <5>2, NilAssumption DEF Record
      <4>3. Place(log, reply[1].id) = c + 1
        <5>1. RepliesFrom(n, c)'
          BY <2>1, <2>2, <2>3 DEF RepliesFrom, AddedCount, LogLen, Content
        <5>2. c + 1 \in DOMAIN log /\ log[c + 1].id = reply[1].id
          <6>1. c + 1 <= AddedCount(n) /\ Content(reply[1]) = log[c + 1]
            BY <2>2, <2>3
          <6>2. AddedCount(n) \in 0..Len(log) /\ DOMAIN log = 1..Len(log)
                /\ Len(log) \in Nat
            BY Counts DEF LogInvariant, TypeOK
          <6>3. Content(reply[1]).id = reply[1].id
            BY DEF Content
          <6> QED
            BY <6>1, <6>2, <6>3
        <5> QED
          BY <5>2, EntriesHavePlaces
      <4>4. c = Place(log, global[n][Len(global[n])].id)
        BY <2>2, <4>1, <4>2
      <4> QED
        BY <2>1, <4>3, <4>4 DEF GoesOn
    <3>2. Restarts(n)' = Restarts(n)
      BY DEF Restarts, PlaceInLog
    <3>3. Cardinality(Restarts(n)) \in Nat /\ failures[n] \in Nat
      BY RestartsAreFew DEF FailuresTypeOK
    <3>4. RepeatIsCounted(n)
      BY DEF RepeatsAreCounted
    <3> QED
      BY <3>1, <3>2, <3>3, <3>4 DEF RepeatIsCounted
  <2>6. ASSUME NEW m \in Node, m # n
        PROVE  (m \in up => ThreadGoesForward(m)') /\ RepeatIsCounted(m)'
    <3>1. ThreadIsUndisturbed(m)
      BY <2>1, <2>6, Counts DEF ThreadIsUndisturbed, AddedCount, LogLen, LogInvariant
    <3>2. LogIsUndisturbed /\ MarksAreUndisturbed(m)
      BY <1>5, <2>6, LogStays, MarksStayInPlace
    <3> QED
      BY <1>4, <2>6, <3>1, <3>2, UndisturbedThread
  <2>7. CopiesHaveNoGap' /\ MarksAreReached' /\ ListsShowMarks'
    BY <1>5, CopiesStay, ListsStay
  <2> QED
    BY <1>4, <1>6, <2>4, <2>5, <2>6, <2>7
       DEF FailuresInvariant, ThreadsGoForward, RepeatsAreCounted
<1> QED
  BY <1>1, <1>7, <1>8 DEF AcceptReply


(* derecho_polling goes on to the next event of the reply, or remembers    *)
(* the last one.                                                           *)
LEMMA GoOnMoves ==
  ASSUME TypeOK, FailuresTypeOK, NEW n \in Node, GoOn(n)
  PROVE  /\ UNCHANGED <<position, polled, outbox, order, delivered, events,
                        log, logged>>
         /\ pc[n] = "replicate" /\ DOMAIN batch[n] = 1..Len(batch[n])
         /\ Len(batch[n]) \in Nat \ {0} /\ Head(batch[n]) = batch[n][1]
         /\ \A m \in Node : m # n => /\ batch'[m] = batch[m] /\ pc'[m] = pc[m]
                                     /\ last'[m] = last[m]
         /\ \/ /\ Len(batch[n]) > 1 /\ pc'[n] = "replicate"
               /\ DOMAIN batch'[n] = 1..(Len(batch[n]) - 1)
               /\ \A k \in 1..(Len(batch[n]) - 1) : batch'[n][k] = batch[n][k + 1]
            \/ /\ Len(batch[n]) = 1 /\ pc'[n] = "mark"
               /\ last'[n] = batch[n][1].id
<1>1. /\ pc[n] = "replicate"
      /\ UNCHANGED <<position, polled, outbox, order, delivered, events, log, logged>>
  BY DEF GoOn, kafkaThread, multicast, history
<1>2. batch[n] \in Seq(Event) /\ batch[n] # <<>>
  BY <1>1 DEF TypeOK
<1>3. /\ DOMAIN batch[n] = 1..Len(batch[n]) /\ Len(batch[n]) \in Nat \ {0}
      /\ Head(batch[n]) = batch[n][1]
  BY <1>2
<1>4. batch'[n] = Tail(batch[n]) /\ \A m \in Node : m # n => batch'[m] = batch[m]
  BY DEF GoOn, TypeOK
<1>5. CASE Len(batch[n]) > 1 /\ UNCHANGED <<pc, last>>
  <2>1. /\ DOMAIN Tail(batch[n]) = 1..(Len(batch[n]) - 1)
        /\ \A k \in 1..(Len(batch[n]) - 1) : Tail(batch[n])[k] = batch[n][k + 1]
    BY <1>2, <1>5
  <2> QED
    BY <1>1, <1>3, <1>4, <1>5, <2>1
<1>6. CASE /\ Len(batch[n]) = 1
           /\ last' = [last EXCEPT ![n] = Head(batch[n]).id]
           /\ pc' = [pc EXCEPT ![n] = "mark"]
  BY <1>1, <1>3, <1>4, <1>6 DEF TypeOK
<1> QED
  BY <1>5, <1>6 DEF GoOn

(* The next event of a reply leaves no gap, and where it repeats what the  *)
(* cluster has, a failure is counted for that.                             *)
LEMMA CopyGoesOn ==
  ASSUME FailuresInvariant, NEW n \in up, pc[n] = "replicate", UNCHANGED log,
         global'[n] = Append(global[n], Content(batch[n][1]))
  PROVE  /\ CopyHasNoGap(n)'
         /\ Reached(n) <= Reached(n)' /\ Reached(n) \in Nat /\ Reached(n)' \in Nat
         /\ Cardinality(Restarts(n)') \in Nat
         /\ Cardinality(Restarts(n)') <= failures[n] /\ failures[n] \in Nat
         /\ \E c \in Nat :
              /\ RepliesFrom(n, c) /\ MarksUpTo(n, c) /\ c <= Reached(n)
              /\ c + 1 \in 1..Len(log) /\ c + 1 <= AddedCount(n)
              /\ c + 1 <= Reached(n)'
              /\ Content(batch[n][1]) = log[c + 1]
              /\ batch[n][1].id = log[c + 1].id
<1>1. /\ LogInvariant /\ CopiesHaveNoGap /\ FailuresTypeOK /\ ThreadsGoForward
      /\ RepeatsAreCounted /\ EventsOnce /\ TypeOK /\ n \in Node
  BY DEF FailuresInvariant, LogInvariant, FailuresTypeOK
<1>2. 1 \in DOMAIN batch[n]
  <2>1. batch[n] \in Seq(Event) /\ batch[n] # <<>>
    BY <1>1 DEF TypeOK
  <2> QED
    BY <2>1
<1>3. PICK c \in 0..Reached(n) : RepliesFrom(n, c) /\ MarksUpTo(n, c)
  BY <1>1 DEF ThreadsGoForward, ThreadGoesForward
<1>4. /\ Reached(n) \in 0..Len(log) /\ Len(log) \in Nat /\ Reached(n) \in Nat
      /\ DOMAIN log = 1..Len(log) /\ c \in Nat
  BY <1>1, ReachedIsAPlace
<1>5. PICK k : k = c + 1
  OBVIOUS
<1>6. /\ k \in 1..Len(log) /\ k <= Reached(n) + 1 /\ k <= AddedCount(n)
      /\ Content(batch[n][1]) = log[k] /\ batch[n][1].id = log[k].id
      /\ Place(log, batch[n][1].id) = k
  <2>1. c + 1 <= AddedCount(n)
    BY <1>2, <1>3 DEF RepliesFrom
  <2> QED
    BY <1>1, <1>2, <1>3, <1>4, <1>5, <2>1, RepliesArePlaced
<1>7. /\ CopyHasNoGap(n)' /\ k <= Reached(n)'
      /\ Reached(n) <= Reached(n)' /\ Reached(n)' \in Nat
  BY <1>1, <1>4, <1>6, CopyGrows
<1>8. PICK old, new : old = Cardinality(Restarts(n)) /\ new = Cardinality(Restarts(n)')
  OBVIOUS
<1>9. /\ old \in Nat /\ new \in Nat /\ new <= old + 1
      /\ global[n] = <<>> \/ k = Place(log, global[n][Len(global[n])].id) + 1
           => Restarts(n)' = Restarts(n)
  BY <1>1, <1>4, <1>6, <1>8, RestartsGrow
<1>10. GoesOn(n) => new = old
  BY <1>6, <1>8, <1>9 DEF GoesOn
<1>11. old + (IF GoesOn(n) THEN 0 ELSE 1) <= failures[n] /\ failures[n] \in Nat
  BY <1>1, <1>8 DEF RepeatsAreCounted, RepeatIsCounted, FailuresTypeOK
<1>12. new \in Nat /\ new <= failures[n]
  BY <1>9, <1>10, <1>11
<1> QED
  BY <1>3, <1>4, <1>5, <1>6, <1>7, <1>8, <1>11, <1>12

(* replicate_event produces the next event of the reply, which its cluster *)
(* misses or has already; every later bound on the marks grows with it.    *)
LEMMA ReplicateKeeps ==
  ASSUME SafeSettings, FailuresInvariant, FailuresTypeOK', TypeOK',
         NEW n \in up, UNCHANGED failureVars,
         ReplicateStored(n) \/ ReplicateRejected(n)
  PROVE  FailuresInvariant'
<1>1. /\ LogInvariant /\ MembersAreKept /\ CopiesHaveNoGap /\ MarksAreReached
      /\ FailuresTypeOK /\ ThreadsGoForward /\ RepeatsAreCounted /\ EventsOnce
      /\ TypeOK /\ n \in Node /\ up \subseteq Node
  BY DEF FailuresInvariant, LogInvariant, FailuresTypeOK
<1>2. ReplicateEvent(n) /\ GoOn(n)
  BY <1>1 DEF ReplicateStored, ReplicateRejected, SafeSettings, ReplicateEvent
<1>3. /\ UNCHANGED <<position, polled, outbox, order, delivered, events, log, logged,
                     up, failures, my_id, committed>>
      /\ pc[n] = "replicate" /\ DOMAIN batch[n] = 1..Len(batch[n])
      /\ Len(batch[n]) \in Nat \ {0}
  BY <1>1, <1>2, GoOnMoves DEF failureVars, membership
<1>4. /\ global'[n] = Append(global[n], Content(batch[n][1]))
      /\ \A m \in Node : m # n => /\ global'[m] = global[m] /\ batch'[m] = batch[m]
                                  /\ pc'[m] = pc[m] /\ last'[m] = last[m]
  <2>1. Head(batch[n]) = batch[n][1]
    BY <1>1, <1>2, GoOnMoves
  <2>2. global' = [global EXCEPT ![n] = Append(@, Content(batch[n][1]))]
    BY <1>2, <2>1 DEF ReplicateEvent
  <2>3. DOMAIN global = Node
    BY <1>1 DEF TypeOK
  <2>4. \A m \in Node : m # n => /\ batch'[m] = batch[m]
                                 /\ pc'[m] = pc[m] /\ last'[m] = last[m]
    BY <1>1, <1>2, GoOnMoves
  <2> QED
    BY <1>1, <2>2, <2>3, <2>4
<1>5. /\ CopyHasNoGap(n)'
      /\ Reached(n) <= Reached(n)' /\ Reached(n) \in Nat /\ Reached(n)' \in Nat
      /\ Cardinality(Restarts(n)') \in Nat
      /\ Cardinality(Restarts(n)') <= failures[n] /\ failures[n] \in Nat
  BY <1>3, <1>4, CopyGoesOn
<1>6. PICK c \in Nat : /\ RepliesFrom(n, c) /\ MarksUpTo(n, c)
                      /\ c + 1 \in 1..Len(log) /\ c + 1 <= AddedCount(n)
                      /\ c + 1 <= Reached(n)'
                      /\ Content(batch[n][1]) = log[c + 1]
                      /\ batch[n][1].id = log[c + 1].id
  BY <1>3, <1>4, CopyGoesOn
<1>7. PICK k : k = c + 1
  OBVIOUS
<1>8. /\ k \in 1..Len(log) /\ k \in DOMAIN log /\ k <= AddedCount(n) /\ k \in Nat
      /\ Content(batch[n][1]) = log[k] /\ batch[n][1].id = log[k].id
      /\ IsPlaced(log, batch[n][1].id) /\ Place(log, batch[n][1].id) = k
  <2>1. k \in 1..Len(log) /\ k \in DOMAIN log
    <3>1. DOMAIN log = 1..Len(log)
      BY <1>1 DEF TypeOK
    <3> QED
      BY <1>6, <1>7, <3>1
  <2>2. /\ k <= AddedCount(n) /\ k \in Nat
        /\ Content(batch[n][1]) = log[k] /\ batch[n][1].id = log[k].id
    BY <1>6, <1>7
  <2>3. IsPlaced(log, log[k].id) /\ Place(log, log[k].id) = k
    BY <1>1, <2>1, EntriesHavePlaces
  <2> QED
    BY <2>1, <2>2, <2>3
<1>9. global'[n] = Append(global[n], log[k])
  BY <1>4, <1>8
<1>10. k <= Reached(n)'
  BY <1>6, <1>7
<1>11. \A m \in Node : m # n => Reached(m)' = Reached(m)
  BY <1>4 DEF Reached
<1>12. SameMarks
  BY <1>3 DEF SameMarks, MarksInOutbox, AddsInOutbox
<1>13. LogIsUndisturbed /\ \A m \in Node : MarksAreUndisturbed(m)
  BY <1>3, <1>12, LogStays, MarksStayInPlace
<1>14. LogInvariant' /\ EventsOnce' /\ MembersAreKept'
  <2>1. LogInvariant' /\ EventsOnce'
    BY <1>1, <1>3, LogInvariantUnchanged DEF LogInvariant
  <2>2. \A m \in Node \ up : last'[m] = last[m]
    BY <1>1, <1>4
  <2> QED
    BY <1>1, <1>3, <2>1, <2>2 DEF MembersAreKept, AddsInOutbox
<1>15. CopiesHaveNoGap'
  <2>1. ASSUME NEW m \in Node, m # n PROVE CopyHasNoGap(m)'
    <3>1. CopyHasNoGap(m) /\ Reached(m)' = Reached(m) /\ global'[m] = global[m]
      BY <1>1, <1>4, <1>11, <2>1 DEF CopiesHaveNoGap
    <3> QED
      BY <1>3, <3>1 DEF CopyHasNoGap
  <2> QED
    BY <1>5, <2>1 DEF CopiesHaveNoGap
<1>16. MarksAreReached'
  <2> SUFFICES ASSUME NEW m \in Node PROVE MarksUpTo(m, Reached(m))'
    BY DEF MarksAreReached
  <2>1. PICK r, s : r = Reached(m) /\ s = Reached(m)'
    OBVIOUS
  <2>2. MarksUpTo(m, r)
    BY <1>1, <2>1 DEF MarksAreReached
  <2>3. r <= s /\ r \in Int /\ s \in Int
    BY <1>1, <1>5, <1>11, <2>1, ReachedIsAPlace
  <2>4. MarksUpTo(m, s)
    BY <1>1, <2>2, <2>3, BoundsGrow
  <2>5. MarksUpTo(m, s)'
    BY <1>13, <2>4 DEF MarksAreUndisturbed
  <2> QED
    BY <2>1, <2>5 DEF MarksUpTo
<1>17. MarksUpTo(n, c)' /\ MarksUpTo(n, k)'
  <2>1. c <= k /\ c \in Int /\ k \in Int
    BY <1>6, <1>7
  <2>2. MarksUpTo(n, k)
    BY <1>1, <1>6, <2>1, BoundsGrow
  <2> QED
    BY <1>1, <1>6, <1>13, <2>2 DEF MarksAreUndisturbed
<1>18. AddedCount(n)' = AddedCount(n) /\ AddedCount(n) \in Nat
  BY <1>1, <1>3, Counts DEF AddedCount, LogLen, LogInvariant
<1>19. ThreadGoesForward(n)' /\ GoesOn(n)'
  <2>1. /\ Len(global'[n]) = Len(global[n]) + 1
        /\ global'[n][Len(global'[n])] = log[k]
    <3>1. global[n] \in Seq(Record) /\ log[k] \in Record
      BY <1>1, <1>6, <1>8, ElementOfSeq DEF TypeOK
    <3> QED
      BY <1>9, <3>1, AppendProperties
  <2>2. Place(log, global'[n][Len(global'[n])].id) = k
    BY <1>1, <1>6, <1>8, <2>1, EntriesHavePlaces
  <2>3. CASE /\ Len(batch[n]) > 1 /\ pc'[n] = "replicate"
             /\ DOMAIN batch'[n] = 1..(Len(batch[n]) - 1)
             /\ \A j \in 1..(Len(batch[n]) - 1) : batch'[n][j] = batch[n][j + 1]
    <3>1. ASSUME NEW j \in DOMAIN batch'[n]
          PROVE  k + j <= AddedCount(n)' /\ Content(batch'[n][j]) = log'[k + j]
      <4>1. j + 1 \in DOMAIN batch[n] /\ c + (j + 1) = k + j
        <5>1. PICK length : length = Len(batch[n])
          OBVIOUS
        <5>2. j \in 1..(length - 1) /\ length \in Nat /\ DOMAIN batch[n] = 1..length
          BY <1>3, <2>3, <5>1
        <5> QED
          BY <1>6, <1>7, <5>2
      <4>2. c + (j + 1) <= AddedCount(n) /\ Content(batch[n][j + 1]) = log[c + (j + 1)]
        BY <1>6, <4>1 DEF RepliesFrom
      <4> QED
        BY <1>3, <1>18, <2>3, <4>1, <4>2
    <3>2. RepliesFrom(n, k)'
      BY <3>1 DEF RepliesFrom, Content
    <3>3. k \in 0..Reached(n)'
      BY <1>8, <1>10
    <3>4. ThreadGoesForward(n)'
      BY <1>17, <2>3, <3>2, <3>3 DEF ThreadGoesForward
    <3>5. Place(log, batch'[n][1].id) = k + 1
      <4>1. 2 \in DOMAIN batch[n] /\ batch'[n][1] = batch[n][2] /\ c + 2 = k + 1
        <5>1. PICK length : length = Len(batch[n])
          OBVIOUS
        <5>2. /\ length \in Nat /\ length > 1 /\ DOMAIN batch[n] = 1..length
              /\ \A j \in 1..(length - 1) : batch'[n][j] = batch[n][j + 1]
          BY <1>3, <2>3, <5>1
        <5>3. 2 \in 1..length /\ 1 \in 1..(length - 1) /\ 1 + 1 = 2
          BY <5>2
        <5>4. batch'[n][1] = batch[n][2]
          BY <5>2, <5>3
        <5>5. c + 2 = k + 1
          BY <1>6, <1>7
        <5> QED
          BY <5>2, <5>3, <5>4, <5>5
      <4> QED
        BY <1>1, <1>6, <4>1, RepliesArePlaced
    <3> QED
      BY <1>3, <2>2, <2>3, <3>4, <3>5 DEF GoesOn
  <2>4. CASE /\ Len(batch[n]) = 1 /\ pc'[n] = "mark"
             /\ last'[n] = batch[n][1].id
    <3>1. Place(log', last'[n]) = k /\ IsPlaced(log', last'[n])
      BY <1>3, <1>8, <2>4
    <3>2. IsReached(n, last[n])'
      BY <1>10, <3>1 DEF IsReached
    <3>3. c = Place(log', last'[n]) - IF pc'[n] = "mark" THEN 1 ELSE 0
      BY <1>6, <1>7, <2>4, <3>1
    <3>4. ThreadGoesForward(n)'
      BY <1>8, <1>17, <1>18, <2>4, <3>1, <3>2, <3>3 DEF ThreadGoesForward
    <3>5. last'[n] = global'[n][Len(global'[n])].id
      BY <1>8, <2>1, <2>4
    <3> QED
      BY <2>4, <3>4, <3>5 DEF GoesOn
  <2> QED
    BY <1>1, <1>2, <2>3, <2>4, GoOnMoves
<1>20. RepeatIsCounted(n)'
  <2>1. PICK new : new = Cardinality(Restarts(n)')
    OBVIOUS
  <2>2. new + 0 <= failures'[n]
    BY <1>3, <1>5, <2>1
  <2> QED
    BY <1>19, <2>1, <2>2 DEF RepeatIsCounted
<1>21. ASSUME NEW m \in Node, m # n
       PROVE  (m \in up => ThreadGoesForward(m)') /\ RepeatIsCounted(m)'
  <2>1. ThreadIsUndisturbed(m)
    BY <1>1, <1>3, <1>4, <1>21, Counts
       DEF ThreadIsUndisturbed, AddedCount, LogLen, LogInvariant
  <2> QED
    BY <1>3, <1>13, <1>14, <1>21, <2>1, UndisturbedThread
<1> QED
  BY <1>1, <1>3, <1>12, <1>14, <1>15, <1>16, <1>19, <1>20, <1>21, ListsStay
     DEF FailuresInvariant, ThreadsGoForward, RepeatsAreCounted


(* derecho_polling sends its mark, which is ahead of all it has sent.      *)
LEMMA SendMarkKeeps ==
  ASSUME SafeSettings, FailuresInvariant, FailuresTypeOK', TypeOK',
         NEW n \in up, UNCHANGED failureVars, SendMark(n, my_id[n])
  PROVE  FailuresInvariant'
<1>1. /\ LogInvariant /\ MembersAreKept /\ CopiesHaveNoGap /\ MarksAreReached
      /\ FailuresTypeOK /\ ThreadsGoForward /\ RepeatsAreCounted /\ ListsShowMarks
      /\ TypeOK /\ n \in Node /\ up \subseteq Node
  BY DEF FailuresInvariant, LogInvariant, FailuresTypeOK
<1>2. SendMarkProduced(n)
  BY <1>1 DEF MembersAreKept, SendMarkProduced
<1>3. PICK new, p : new = Len(outbox[n]) + 1 /\ p = Place(log, last[n])
  OBVIOUS
<1>4. /\ UNCHANGED <<position, polled, order, delivered, events, global, batch,
                     last, log, logged>>
      /\ pc[n] = "mark" /\ pc'[n] = "query" /\ last[n] # Nil
      /\ \A m \in Node : m # n => outbox'[m] = outbox[m] /\ pc'[m] = pc[m]
      /\ \A j \in 1..(new - 1) : outbox'[n][j] = outbox[n][j]
      /\ outbox'[n][new].derecho_id = n /\ outbox'[n][new].id = last[n]
      /\ AddsInOutbox(n)' = AddsInOutbox(n)
      /\ MarksInOutbox(n)' = MarksInOutbox(n) \cup {new}
      /\ \A m \in Node : m # n => /\ AddsInOutbox(m)' = AddsInOutbox(m)
                                  /\ MarksInOutbox(m)' = MarksInOutbox(m)
      /\ \A m \in Node : MarksInOrder(m)' = MarksInOrder(m)
      /\ \A i : OrderPlace(i)' = OrderPlace(i) /\ LogLen(i)' = LogLen(i)
      /\ \A m \in Node : \A j \in MarksInOutbox(m) :
           OutboxPlace(m, j)' = OutboxPlace(m, j)
      /\ OutboxPlace(n, new)' = p
  BY <1>1, <1>2, <1>3, SendMarkAppends
<1>5. UNCHANGED <<up, failures, my_id, committed>>
  BY DEF failureVars, membership
<1>6. /\ IsReached(n, last[n]) /\ p <= AddedCount(n) /\ MarksUpTo(n, p - 1)
      /\ p \in Nat /\ IsPlaced(log, last[n]) /\ p <= Reached(n) /\ Reached(n) \in Nat
  <2>1. IsReached(n, last[n]) /\ p <= AddedCount(n) /\ MarksUpTo(n, p - 1)
    <3>1. ThreadGoesForward(n)
      BY <1>1 DEF ThreadsGoForward
    <3> QED
      BY <1>3, <1>4, <3>1 DEF ThreadGoesForward
  <2>2. DOMAIN log = 1..Len(log) /\ Len(log) \in Nat /\ Reached(n) \in Nat
    BY <1>1, ReachedIsAPlace
  <2> QED
    BY <1>3, <2>1, <2>2, PlaceIsThere DEF IsReached
<1>7. /\ \A i \in MarksInOrder(n) : OrderPlace(i) < p
      /\ \A j \in MarksInOutbox(n) : OutboxPlace(n, j) < p
  <2>1. /\ \A i \in MarksInOrder(n) : OrderPlace(i) \in Int
        /\ \A j \in MarksInOutbox(n) : OutboxPlace(n, j) \in Int
    BY <1>1, PlacesAreNumbers
  <2> QED
    BY <1>6, <2>1 DEF MarksUpTo
<1>8. LogInvariant' /\ EventsOnce'
  <2>1. EventsOnce' /\ MarksArePlaced' /\ MarksMoveForward'
    BY <1>1, <1>2, <1>3, <1>6, <1>7, SendMarkLog
  <2> QED
    BY <1>1, <1>4, <2>1, LogFollowsOrderUnchanged, ListsAreSegmentsUnchanged
       DEF LogInvariant
<1>9. \A m \in Node : AddsInOutbox(m)' = AddsInOutbox(m)
  BY <1>4
<1>10. MembersAreKept'
  BY <1>1, <1>4, <1>5, <1>9, FailuresAssumption DEF MembersAreKept
<1>11. CopiesHaveNoGap'
  BY <1>1, <1>4 DEF CopiesHaveNoGap, CopyHasNoGap, Reached
<1>12. ASSUME NEW k \in Int, p <= k, MarksUpTo(n, k) PROVE MarksUpTo(n, k)'
  <2>1. ASSUME NEW i \in MarksInOrder(n)' PROVE OrderPlace(i)' <= k
    <3>1. i \in MarksInOrder(n) /\ OrderPlace(i)' = OrderPlace(i)
      BY <1>1, <1>4
    <3> QED
      BY <1>12, <3>1 DEF MarksUpTo
  <2>2. ASSUME NEW j \in MarksInOutbox(n)' PROVE OutboxPlace(n, j)' <= k
    <3>1. CASE j = new
      BY <1>4, <1>12, <3>1
    <3>2. CASE j \in MarksInOutbox(n)
      <4>1. OutboxPlace(n, j)' = OutboxPlace(n, j)
        BY <1>1, <1>4, <3>2
      <4> QED
        BY <1>12, <3>2, <4>1 DEF MarksUpTo
    <3> QED
      BY <1>4, <2>2, <3>1, <3>2
  <2> QED
    BY <2>1, <2>2 DEF MarksUpTo
<1>13. ASSUME NEW m \in Node, m # n PROVE MarksAreUndisturbed(m)
  BY <1>4, <1>13 DEF MarksAreUndisturbed, MarksUpTo
<1>14. MarksAreReached'
  <2> SUFFICES ASSUME NEW m \in Node PROVE MarksUpTo(m, Reached(m))'
    BY DEF MarksAreReached
  <2>1. PICK k : k = Reached(m)
    OBVIOUS
  <2>2. MarksUpTo(m, k)
    BY <1>1, <2>1 DEF MarksAreReached
  <2>3. MarksUpTo(m, k)'
    BY <1>6, <1>12, <1>13, <2>1, <2>2 DEF MarksAreUndisturbed
  <2>4. Reached(m)' = k
    BY <1>4, <2>1 DEF Reached
  <2> QED
    BY <2>3, <2>4 DEF MarksUpTo
<1>15. ListsShowMarks'
  <2> SUFFICES ASSUME NEW m \in up PROVE ListShowsMarks(m)'
    BY <1>5 DEF ListsShowMarks
  <2>1. PICK d : d = delivered[m]
    OBVIOUS
  <2>2. \A l \in Node : \A k : HasMarked(l, d, k)' <=> HasMarked(l, d, k)
    BY <1>4 DEF HasMarked
  <2>3. Forgotten(m)' = Forgotten(m)
    BY <1>4 DEF Forgotten, AddedCount, LogLen
  <2>4. ListShowsMarks(m) /\ m \in Node
    BY <1>1 DEF ListsShowMarks
  <2>5. events'[m] = events[m] /\ delivered'[m] = d
    BY <1>4, <2>1
  <2> QED
    BY <2>1, <2>2, <2>3, <2>4, <2>5, ListStays
<1>16. ThreadGoesForward(n)'
  <2>1. p = Place(log', last'[n]) - IF pc'[n] = "mark" THEN 1 ELSE 0
    BY <1>3, <1>4, <1>6
  <2>2. MarksUpTo(n, p)'
    <3>1. p - 1 <= p /\ p - 1 \in Int /\ p \in Int
      BY <1>6
    <3>2. MarksUpTo(n, p)
      BY <1>1, <1>6, <3>1, BoundsGrow
    <3> QED
      BY <1>12, <3>1, <3>2
  <2>3. IsReached(n, last[n])'
    BY <1>4, <1>6 DEF IsReached, Reached
  <2>4. Place(log', last'[n]) <= AddedCount(n)'
    BY <1>3, <1>4, <1>6 DEF AddedCount, LogLen
  <2> QED
    BY <1>4, <2>1, <2>2, <2>3, <2>4 DEF ThreadGoesForward
<1>17. RepeatIsCounted(n)'
  <2>1. GoesOn(n)' <=> GoesOn(n)
    BY <1>4 DEF GoesOn
  <2>2. Restarts(n)' = Restarts(n)
    BY <1>4 DEF Restarts, PlaceInLog
  <2>3. RepeatIsCounted(n)
    BY <1>1 DEF RepeatsAreCounted
  <2> QED
    BY <1>5, <2>1, <2>2, <2>3 DEF RepeatIsCounted
<1>18. ASSUME NEW m \in Node, m # n
       PROVE  (m \in up => ThreadGoesForward(m)') /\ RepeatIsCounted(m)'
  <2>1. ThreadIsUndisturbed(m)
    <3>1. AddedCount(m)' = AddedCount(m) /\ AddedCount(m) \in Nat /\ delivered[m] \in Nat
      BY <1>1, <1>4, <1>18, Counts DEF AddedCount, LogLen, LogInvariant
    <3> QED
      BY <1>4, <1>18, <3>1 DEF ThreadIsUndisturbed
  <2>2. LogIsUndisturbed
    BY <1>4, LogStays
  <2> QED
    BY <1>5, <1>8, <1>13, <1>18, <2>1, <2>2, UndisturbedThread
<1> QED
  BY <1>1, <1>5, <1>8, <1>10, <1>11, <1>14, <1>15, <1>16, <1>17, <1>18
     DEF FailuresInvariant, ThreadsGoForward, RepeatsAreCounted

(* Derecho fixes the place of a message, in a group that is complete.      *)
LEMMA OrderKeeps ==
  ASSUME SafeSettings, FailuresInvariant, FailuresTypeOK', TypeOK',
         NEW n \in Node, Order(n)
  PROVE  FailuresInvariant'
<1>1. /\ LogInvariant /\ MembersAreKept /\ CopiesHaveNoGap /\ MarksAreReached
      /\ FailuresTypeOK /\ ThreadsGoForward /\ RepeatsAreCounted /\ ListsShowMarks
      /\ TypeOK /\ up \subseteq Node /\ UniqueIds
  BY DEF FailuresInvariant, LogInvariant, FailuresTypeOK, SafeSettings
<1>2. /\ OrderMessage(n)
      /\ UNCHANGED <<up, failures, my_id, committed>>
  BY DEF Order, failureVars, membership
<1>3. UNCHANGED <<position, polled, pc, batch, last, delivered, events, global>>
  BY <1>2 DEF OrderMessage, kafkaThread, derechoThread
<1>4. /\ LogFollowsOrder' /\ ListsAreSegments'
      /\ \A m \in Node : AddedCount(m)' = AddedCount(m) /\ Forgotten(m)' = Forgotten(m)
      /\ Len(log') \in Nat /\ Len(log) <= Len(log')
      /\ \A k \in 1..Len(log) : log'[k] = log[k]
      /\ \A id : IsPlaced(log, id) => /\ IsPlaced(log, id)'
                                      /\ Place(log, id)' = Place(log, id)
  BY <1>1, <1>2, OrderMessageLog
<1>5. LogInvariant' /\ EventsOnce'
  BY <1>1, <1>2, <1>4, OrderMessageEventsOnce, OrderMessageForward DEF LogInvariant
<1>6. DOMAIN log = 1..Len(log) /\ DOMAIN log' = 1..Len(log') /\ Len(log) \in Nat
  BY <1>1 DEF TypeOK
<1>7. LogIsUndisturbed
  <2>1. \A k \in DOMAIN log : k \in DOMAIN log' /\ log'[k] = log[k]
    BY <1>4, <1>6
  <2> QED
    BY <1>4, <2>1 DEF LogIsUndisturbed
<1>8. ASSUME NEW m \in Node
      PROVE  /\ MarksAreUndisturbed(m)
             /\ \A d \in 0..Len(order) : \A k :
                  HasMarked(m, d, k)' <=> HasMarked(m, d, k)
  BY <1>1, <1>2, <1>8, OrderedMarksStay
<1>9. MembersAreKept'
  <2>1. ASSUME NEW m \in Fallible PROVE AddsInOutbox(m)' = {}
    <3>1. AddsInOutbox(m) = {} /\ m \in Node
      BY <1>1, FailuresAssumption DEF MembersAreKept
    <3> QED
      BY <1>1, <1>2, <3>1, OutboxMovesUp
  <2> QED
    BY <1>1, <1>2, <1>3, <2>1 DEF MembersAreKept
<1>10. CopiesHaveNoGap'
  <2> SUFFICES ASSUME NEW m \in Node PROVE CopyHasNoGap(m)'
    BY DEF CopiesHaveNoGap
  <2>1. PICK r : r = Reached(m)
    OBVIOUS
  <2>2. /\ r \in 0..Len(log) /\ ToSet(global[m]) = {log[k] : k \in 1..r}
    BY <1>1, <2>1, ReachedIsAPlace DEF CopiesHaveNoGap, CopyHasNoGap
  <2>3. \A k \in 1..r : log'[k] = log[k]
    BY <1>4, <1>6, <2>2
  <2>4. {log'[k] : k \in 1..r} = {log[k] : k \in 1..r}
    BY <2>3
  <2>5. Reached(m)' = r
    BY <1>3, <2>1 DEF Reached
  <2>6. r <= Len(log') /\ ToSet(global'[m]) = {log'[k] : k \in 1..r}
    BY <1>3, <1>4, <1>6, <2>2, <2>4
  <2> QED
    BY <2>5, <2>6 DEF CopyHasNoGap
<1>11. MarksAreReached'
  <2> SUFFICES ASSUME NEW m \in Node PROVE MarksUpTo(m, Reached(m))'
    BY DEF MarksAreReached
  <2>1. PICK k : k = Reached(m)
    OBVIOUS
  <2>2. MarksUpTo(m, k)'
    BY <1>1, <1>8, <2>1 DEF MarksAreReached, MarksAreUndisturbed
  <2>3. Reached(m)' = k
    BY <1>3, <2>1 DEF Reached
  <2> QED
    BY <2>2, <2>3 DEF MarksUpTo
<1>12. ListsShowMarks'
  <2> SUFFICES ASSUME NEW m \in up PROVE ListShowsMarks(m)'
    BY <1>2 DEF ListsShowMarks
  <2>1. PICK d : d = delivered[m]
    OBVIOUS
  <2>2. ListShowsMarks(m) /\ m \in Node
    BY <1>1 DEF ListsShowMarks
  <2>3. d \in 0..Len(order)
    BY <1>1, <2>1, <2>2, Counts DEF LogInvariant
  <2>4. \A l \in Node : \A k : HasMarked(l, d, k)' <=> HasMarked(l, d, k)
    BY <1>8, <2>3
  <2>5. events'[m] = events[m] /\ delivered'[m] = d /\ Forgotten(m)' = Forgotten(m)
    BY <1>3, <1>4, <2>1, <2>2
  <2> QED
    BY <2>1, <2>2, <2>4, <2>5, ListStays
<1>13. ASSUME NEW m \in Node
       PROVE  (m \in up => ThreadGoesForward(m)') /\ RepeatIsCounted(m)'
  <2>1. ThreadIsUndisturbed(m)
    <3>1. AddedCount(m)' = AddedCount(m) /\ AddedCount(m) \in Nat /\ delivered[m] \in Nat
      BY <1>1, <1>4, <1>13, Counts DEF LogInvariant
    <3> QED
      BY <1>3, <3>1 DEF ThreadIsUndisturbed
  <2> QED
    BY <1>2, <1>5, <1>7, <1>8, <2>1, UndisturbedThread
<1> QED
  BY <1>1, <1>2, <1>5, <1>9, <1>10, <1>11, <1>12, <1>13
     DEF FailuresInvariant, ThreadsGoForward, RepeatsAreCounted


----------------------------------------------------------------------------
(* A delivery leaves everything but the place and the list of one replica, *)
(* and with a longer list its thread only has more to do.                  *)
LEMMA DeliverKeeps ==
  ASSUME SafeSettings, FailuresInvariant, TypeOK',
         NEW n \in up, NEW type, Deliver(n, type), UNCHANGED failureVars,
         \A m \in Node : m # n => events'[m] = events[m]
  PROVE  /\ EventsOnce' /\ LogFollowsOrder' /\ MarksArePlaced' /\ MarksMoveForward'
         /\ MembersAreKept' /\ CopiesHaveNoGap' /\ MarksAreReached'
         /\ ThreadsGoForward' /\ RepeatsAreCounted'
         /\ \A m \in up : m # n => ListShowsMarks(m)'
<1>1. /\ LogInvariant /\ MembersAreKept /\ CopiesHaveNoGap /\ MarksAreReached
      /\ FailuresTypeOK /\ ListsShowMarks
      /\ TypeOK /\ n \in Node /\ up \subseteq Node
  BY DEF FailuresInvariant, LogInvariant, FailuresTypeOK
<1>2. UNCHANGED <<outbox, order, position, polled, pc, batch, last, global, log, logged,
                  up, failures, my_id, committed>>
  BY DEF Deliver, kafkaThread, derechoThread, history, failureVars, membership
<1>3. /\ AddedCount(n) <= AddedCount(n)' /\ AddedCount(n)' \in Nat
      /\ delivered'[n] = delivered[n] + 1
      /\ \A m \in Node : m # n => /\ delivered'[m] = delivered[m]
                                  /\ AddedCount(m)' = AddedCount(m)
  BY <1>1, DeliverMoves
<1>4. EventsOnce' /\ LogFollowsOrder' /\ MarksArePlaced' /\ MarksMoveForward'
  BY <1>1, <1>2, EventsOnceUnchanged, LogFollowsOrderUnchanged,
     MarksArePlacedUnchanged, MarksMoveForwardUnchanged DEF LogInvariant
<1>5. SameMarks
  BY <1>2 DEF SameMarks, MarksInOutbox, AddsInOutbox
<1>6. MembersAreKept'
  BY <1>1, <1>2 DEF MembersAreKept, AddsInOutbox
<1>7. CopiesHaveNoGap' /\ MarksAreReached'
  BY <1>2, <1>5, CopiesStay
<1>8. /\ LogIsUndisturbed /\ \A m \in Node : MarksAreUndisturbed(m)
      /\ \A m \in Node : \A d, k : HasMarked(m, d, k)' <=> HasMarked(m, d, k)
  BY <1>2, <1>5, LogStays, MarksStayInPlace
<1>9. ASSUME NEW m \in Node
      PROVE  (m \in up => ThreadGoesForward(m)') /\ RepeatIsCounted(m)'
  <2>1. /\ AddedCount(m) <= AddedCount(m)' /\ AddedCount(m)' \in Nat
        /\ delivered[m] <= delivered'[m] /\ delivered'[m] \in Nat
    <3>1. AddedCount(m) \in Nat /\ delivered[m] \in Nat
      BY <1>1, <1>9, Counts DEF LogInvariant
    <3> QED
      BY <1>3, <3>1
  <2>2. ThreadIsUndisturbed(m)
    BY <1>2, <2>1 DEF ThreadIsUndisturbed
  <2> QED
    BY <1>2, <1>4, <1>8, <2>2, UndisturbedThread
<1>10. ASSUME NEW m \in up, m # n PROVE ListShowsMarks(m)'
  <2>1. PICK d : d = delivered[m]
    OBVIOUS
  <2>2. events'[m] = events[m] /\ delivered'[m] = d /\ Forgotten(m)' = Forgotten(m)
    BY <1>1, <1>3, <1>10, <2>1 DEF Forgotten
  <2>3. ListShowsMarks(m) /\ m \in Node
    BY <1>1 DEF ListsShowMarks
  <2>4. \A l \in Node : \A k : HasMarked(l, d, k)' <=> HasMarked(l, d, k)
    BY <1>8
  <2> QED
    BY <2>1, <2>2, <2>3, <2>4, ListStays
<1> QED
  BY <1>1, <1>2, <1>4, <1>6, <1>7, <1>9, <1>10 DEF ThreadsGoForward, RepeatsAreCounted

(* What the next message of the order changes in what is marked: nothing,  *)
(* unless it is the mark.                                                  *)
LEMMA NextMarks ==
  ASSUME LogInvariant, NEW n \in Node, NEW i \in DOMAIN order, NEW k
  PROVE  HasMarked(n, i, k)
           <=> \/ HasMarked(n, i - 1, k)
               \/ i \in MarksInOrder(n) /\ k <= OrderPlace(i)
<1>1. i \in Nat /\ \A j \in MarksInOrder(n) : j \in Nat
  BY PlacesAreNumbers DEF LogInvariant, TypeOK
<1>2. \A j \in Nat : j <= i <=> j <= i - 1 \/ j = i
  BY <1>1
<1>3. i <= i
  BY <1>1
<1> QED
  BY <1>1, <1>2, <1>3 DEF HasMarked

(* add_event: nobody has marked the event that comes to the list.          *)
LEMMA DeliverAddKeeps ==
  ASSUME SafeSettings, FailuresInvariant, FailuresTypeOK', TypeOK',
         NEW n \in up, DeliverAddEvent(n), UNCHANGED failureVars
  PROVE  FailuresInvariant'
<1>1. LogInvariant /\ ListsShowMarks /\ TypeOK /\ n \in Node /\ up \subseteq Node
  BY DEF FailuresInvariant, LogInvariant, FailuresTypeOK
<1>2. PICK i, length, b, a : /\ i = delivered[n] + 1 /\ length = Len(events[n])
                             /\ b = Forgotten(n) /\ a = AddedCount(n)
  OBVIOUS
<1>3. /\ ListsAreSegments'
      /\ i \in DOMAIN order /\ order[i].type = "add_event"
      /\ order[i].event.replicas = {}
      /\ delivered'[n] = i
      /\ \A m \in Node : m # n => events'[m] = events[m]
      /\ DOMAIN events'[n] = 1..(length + 1) /\ DOMAIN events[n] = 1..length
      /\ \A j \in 1..length : events'[n][j] = events[n][j]
      /\ events'[n][length + 1] = order[i].event
      /\ Forgotten(n)' = b
  <2>1. i = delivered[n] + 1 /\ length = Len(events[n])
    BY <1>2
  <2>2. /\ ListsAreSegments'
        /\ i \in DOMAIN order /\ order[i].type = "add_event"
        /\ order[i].event.replicas = {}
        /\ delivered'[n] = i
        /\ \A m \in Node : m # n => events'[m] = events[m]
    <3>1. ListsAreSegments'
      BY <1>1, <2>1, DeliverAddEventLog
    <3>2. i \in DOMAIN order /\ order[i].type = "add_event"
      BY <1>1, <2>1, DeliverAddEventLog
    <3>3. order[i].event.replicas = {} /\ delivered'[n] = i
      BY <1>1, <2>1, DeliverAddEventLog
    <3>4. \A m \in Node : m # n => events'[m] = events[m]
      BY <1>1, <2>1, DeliverAddEventLog
    <3> QED
      BY <3>1, <3>2, <3>3, <3>4
  <2>3. /\ DOMAIN events'[n] = 1..(length + 1) /\ DOMAIN events[n] = 1..length
        /\ \A j \in 1..length : events'[n][j] = events[n][j]
        /\ events'[n][length + 1] = order[i].event
    <3>1. DOMAIN events'[n] = 1..(length + 1) /\ DOMAIN events[n] = 1..length
      BY <1>1, <2>1, DeliverAddEventLog
    <3>2. \A j \in 1..length : events'[n][j] = events[n][j]
      BY <1>1, <2>1, DeliverAddEventLog
    <3>3. events'[n][length + 1] = order[i].event
      BY <1>1, <2>1, DeliverAddEventLog
    <3> QED
      BY <3>1, <3>2, <3>3
  <2>4. \A m \in Node : Forgotten(m)' = Forgotten(m)
    BY <1>1, <2>1, DeliverAddEventLog
  <2>5. Forgotten(n)' = b
    BY <1>1, <1>2, <2>4
  <2> QED
    BY <2>2, <2>3, <2>5
<1>4. /\ b \in Nat /\ length \in Nat /\ a \in Nat /\ b + length = a
      /\ delivered[n] \in Nat
  BY <1>1, <1>2, Counts DEF LogInvariant
<1>5. /\ EventsOnce' /\ LogFollowsOrder' /\ MarksArePlaced' /\ MarksMoveForward'
      /\ MembersAreKept' /\ CopiesHaveNoGap' /\ MarksAreReached'
      /\ ThreadsGoForward' /\ RepeatsAreCounted'
      /\ \A m \in up : m # n => ListShowsMarks(m)'
  BY <1>3, DeliverKeeps DEF DeliverAddEvent
<1>6. LogInvariant'
  BY <1>3, <1>5 DEF LogInvariant
<1>7. ASSUME NEW m \in Node, NEW k
      PROVE  HasMarked(m, i, k)' <=> HasMarked(m, delivered[n], k)
  <2>1. UNCHANGED <<order, log>>
    BY DEF DeliverAddEvent, Deliver, history
  <2>2. HasMarked(m, i, k)' <=> HasMarked(m, i, k)
    BY <2>1 DEF HasMarked, MarksInOrder, OrderPlace
  <2>3. i \notin MarksInOrder(m)
    BY <1>3 DEF MarksInOrder
  <2>4. i - 1 = delivered[n]
    BY <1>2, <1>4
  <2>5. HasMarked(m, i, k) <=> HasMarked(m, i - 1, k)
    BY <1>1, <1>3, <2>3, NextMarks
  <2> QED
    BY <2>2, <2>4, <2>5
<1>8. ASSUME NEW m \in Node, NEW k \in Int, HasMarked(m, delivered[n], k)
      PROVE  k <= a
  <2>1. PICK j \in MarksInOrder(m) : j <= delivered[n] /\ k <= OrderPlace(j)
    BY <1>8 DEF HasMarked
  <2>2. OrderPlace(j) \in 1..a
    BY <1>1, <1>2, <2>1, MarkedIsAdded
  <2> QED
    BY <1>4, <2>1, <2>2
<1>9. ListShowsMarks(n)'
  <2> SUFFICES ASSUME NEW m \in Node
               PROVE  /\ \A k \in 1..b : HasMarked(m, i, k)'
                      /\ \A j \in 1..(length + 1) :
                           m \in events'[n][j].replicas <=> HasMarked(m, i, b + j)'
    BY <1>3 DEF ListShowsMarks, HasMarked
  <2>1. /\ \A k \in 1..b : HasMarked(m, delivered[n], k)
        /\ \A j \in 1..length :
             m \in events[n][j].replicas <=> HasMarked(m, delivered[n], b + j)
    BY <1>1, <1>2, <1>3 DEF ListsShowMarks, ListShowsMarks
  <2>2. ASSUME NEW j \in 1..(length + 1)
        PROVE  m \in events'[n][j].replicas <=> HasMarked(m, i, b + j)'
    <3>1. CASE j \in 1..length
      BY <1>3, <1>7, <2>1, <3>1
    <3>2. CASE j = length + 1
      <4>1. b + j = a + 1 /\ b + j \in Int
        BY <1>4, <3>2
      <4>2. ~HasMarked(m, delivered[n], b + j)
        BY <1>4, <1>8, <4>1
      <4> QED
        BY <1>3, <1>7, <3>2, <4>2
    <3> QED
      BY <1>4, <2>2, <3>1, <3>2
  <2> QED
    BY <1>7, <2>1, <2>2
<1>10. ListsShowMarks'
  <2>1. up' = up
    BY DEF failureVars, membership
  <2> QED
    BY <1>5, <1>9, <2>1 DEF ListsShowMarks
<1> QED
  BY <1>5, <1>6, <1>10 DEF FailuresInvariant


(* What a mark reaches, it reaches from any place before.                  *)
LEMMA MarkedBelow ==
  ASSUME LogInvariant, NEW n \in Node, NEW d, NEW k \in Int, NEW l \in Int, l <= k,
         HasMarked(n, d, k)
  PROVE  HasMarked(n, d, l)
<1>1. PICK i \in MarksInOrder(n) : i <= d /\ k <= OrderPlace(i)
  BY DEF HasMarked
<1>2. OrderPlace(i) \in Int
  BY <1>1, PlacesAreNumbers
<1> QED
  BY <1>1, <1>2 DEF HasMarked

(* The next mark a list gets is for an event behind all it has forgotten:  *)
(* what is forgotten has a mark of its sender already, and that one was    *)
(* for less.                                                               *)
LEMMA NextMarkIsAhead ==
  ASSUME LogInvariant, NEW n \in Node, ListShowsMarks(n),
         delivered[n] < Len(order), NextMessage(n).type = "mark_produced",
         NEW i, i = delivered[n] + 1, NEW d, d = order[i].derecho_id,
         NEW k, k = OrderPlace(i)
  PROVE  d \in Node /\ i \in MarksInOrder(d) /\ Forgotten(n) < k
<1>1. PICK b, place : b = Forgotten(n) /\ place = delivered[n]
  OBVIOUS
<1>2. /\ place \in 0..Len(order) /\ Len(order) \in Nat /\ b \in Nat
      /\ Len(log) \in Nat
      /\ order \in Seq(Message) /\ DOMAIN order = 1..Len(order)
  BY <1>1, Counts DEF LogInvariant, TypeOK
<1>3. i \in DOMAIN order /\ i \in Nat /\ place < i /\ order[i].type = "mark_produced"
  BY <1>1, <1>2 DEF NextMessage
<1>4. order[i] \in Message
  BY <1>2, <1>3, ElementOfSeq
<1>5. d \in Node /\ i \in MarksInOrder(d)
  BY <1>3, <1>4 DEF Message, MarksInOrder
<1>6. /\ \A j \in MarksInOrder(d) : j \in Nat /\ OrderPlace(j) \in Nat \ {0}
      /\ k \in Nat \ {0}
  <2>1. \A j \in MarksInOrder(d) : j \in Nat /\ OrderPlace(j) \in 1..Len(log)
    BY <1>5, PlacesAreNumbers
  <2>2. 1..Len(log) \subseteq Nat \ {0}
    BY <1>2
  <2> QED
    BY <1>5, <2>1, <2>2
<1>7. CASE b = 0
  BY <1>1, <1>5, <1>6, <1>7
<1>8. CASE b # 0
  <2>1. b \in 1..b
    BY <1>2, <1>8
  <2>2. HasMarked(d, place, b)
    BY <1>1, <1>5, <2>1 DEF ListShowsMarks
  <2>3. PICK j \in MarksInOrder(d) : j <= place /\ b <= OrderPlace(j)
    BY <2>2 DEF HasMarked
  <2>4. j \in Nat /\ OrderPlace(j) \in Nat
    BY <1>6, <2>3
  <2>5. j < i
    BY <1>2, <1>3, <2>3, <2>4
  <2>6. OrderPlace(j) < k
    BY <1>5, <2>3, <2>5 DEF LogInvariant, MarksMoveForward
  <2> QED
    BY <1>1, <1>2, <1>5, <1>6, <2>3, <2>4, <2>6
<1> QED
  BY <1>7, <1>8

(* mark_produced: the list shows one mark more, and forgets what all have  *)
(* marked.                                                                 *)
LEMMA DeliverMarkKeeps ==
  ASSUME SafeSettings, FailuresInvariant, FailuresTypeOK', TypeOK',
         NEW n \in up, DeliverMarkProduced(n), UNCHANGED failureVars
  PROVE  FailuresInvariant'
<1>1. LogInvariant /\ ListsShowMarks /\ TypeOK /\ n \in Node /\ up \subseteq Node
  BY DEF FailuresInvariant, LogInvariant, FailuresTypeOK
<1>2. PICK i, d, k, b, length, place :
        /\ i = delivered[n] + 1 /\ d = order[i].derecho_id
        /\ k = OrderPlace(i) /\ b = Forgotten(n) /\ length = Len(events[n])
        /\ place = delivered[n]
  OBVIOUS
<1>3. d \in Node /\ i \in MarksInOrder(d) /\ b < k
  <2>1. ListShowsMarks(n)
    BY <1>1 DEF ListsShowMarks
  <2>2. delivered[n] < Len(order) /\ NextMessage(n).type = "mark_produced"
    BY DEF DeliverMarkProduced, Deliver
  <2> QED
    BY <1>1, <1>2, <2>1, <2>2, NextMarkIsAhead
<1>4. /\ ListsAreSegments' /\ delivered'[n] = i
      /\ k \in Nat /\ b \in Nat /\ k - b \in 1..length
      /\ \A m \in Node : m # n => events'[m] = events[m]
      /\ \E c \in 0..(k - b) :
           /\ MarkedUpTo(events[n], events'[n], d, k - b, c)
           /\ Forgotten(n)' = b + c
  BY <1>1, <1>2, <1>3, DeliverMarkLog
<1>5. PICK c \in 0..(k - b) : /\ MarkedUpTo(events[n], events'[n], d, k - b, c)
                              /\ Forgotten(n)' = b + c
  BY <1>4
<1>6. length \in Nat /\ DOMAIN events[n] = 1..length /\ place \in Nat
  BY <1>1, <1>2, Counts DEF LogInvariant, TypeOK
<1>7. /\ DOMAIN events'[n] = 1..(length - c)
      /\ \A j \in 1..(length - c) :
           /\ j + c > k - b => events'[n][j].replicas = events[n][j + c].replicas
           /\ j + c <= k - b => events'[n][j].replicas = events[n][j + c].replicas \cup {d}
      /\ c # 0 => events[n][c].replicas \cup {d} = Node
  <2>1. Len(events'[n]) = length - c /\ events'[n] \in Seq(Event)
    BY <1>2, <1>5 DEF MarkedUpTo
  <2>2. DOMAIN events'[n] = 1..(length - c)
    BY <2>1
  <2> QED
    BY <1>2, <1>5, <2>2 DEF MarkedUpTo
<1>8. c <= length /\ c \in Nat /\ b + c <= k
  BY <1>4, <1>5, <1>6
<1>9. /\ EventsOnce' /\ LogFollowsOrder' /\ MarksArePlaced' /\ MarksMoveForward'
      /\ MembersAreKept' /\ CopiesHaveNoGap' /\ MarksAreReached'
      /\ ThreadsGoForward' /\ RepeatsAreCounted'
      /\ \A m \in up : m # n => ListShowsMarks(m)'
  BY <1>4, DeliverKeeps DEF DeliverMarkProduced
<1>10. LogInvariant'
  BY <1>4, <1>9 DEF LogInvariant
<1>11. ASSUME NEW m \in Node, NEW l
       PROVE  HasMarked(m, i, l)' <=> HasMarked(m, place, l) \/ (m = d /\ l <= k)
  <2>1. UNCHANGED <<order, log>>
    BY DEF DeliverMarkProduced, Deliver, history
  <2>2. HasMarked(m, i, l)' <=> HasMarked(m, i, l)
    BY <2>1 DEF HasMarked, MarksInOrder, OrderPlace
  <2>3. i \in DOMAIN order /\ (i \in MarksInOrder(m) <=> m = d)
    BY <1>2, <1>3 DEF MarksInOrder
  <2>4. i - 1 = place
    BY <1>2, <1>6
  <2>5. HasMarked(m, i, l) <=> \/ HasMarked(m, i - 1, l)
                               \/ i \in MarksInOrder(m) /\ l <= OrderPlace(i)
    BY <1>1, <2>3, NextMarks
  <2> QED
    BY <1>2, <2>2, <2>3, <2>4, <2>5
<1>12. ListShowsMarks(n)'
  <2> SUFFICES ASSUME NEW m \in Node
               PROVE  /\ \A l \in 1..(b + c) : HasMarked(m, i, l)'
                      /\ \A j \in 1..(length - c) :
                           m \in events'[n][j].replicas <=> HasMarked(m, i, b + c + j)'
    BY <1>4, <1>5, <1>7 DEF ListShowsMarks, HasMarked
  <2>1. /\ \A l \in 1..b : HasMarked(m, place, l)
        /\ \A j \in 1..length :
             m \in events[n][j].replicas <=> HasMarked(m, place, b + j)
    BY <1>1, <1>2, <1>6 DEF ListsShowMarks, ListShowsMarks
  <2>2. ASSUME NEW l \in 1..(b + c) PROVE HasMarked(m, i, l)'
    <3>1. CASE l <= b
      <4>1. l \in 1..b
        BY <1>4, <3>1
      <4> QED
        BY <1>11, <2>1, <4>1
    <3>2. CASE ~(l <= b) /\ m = d
      <4>1. l <= k
        BY <1>4, <1>8
      <4> QED
        BY <1>11, <3>2, <4>1
    <3>3. CASE ~(l <= b) /\ m # d
      <4>1. c # 0 /\ c \in 1..length /\ l <= b + c /\ l \in Int /\ b + c \in Int
        BY <1>4, <1>8, <3>3
      <4>2. m \in events[n][c].replicas
        BY <1>7, <3>3, <4>1
      <4>3. HasMarked(m, place, b + c)
        BY <2>1, <4>1, <4>2
      <4>4. HasMarked(m, place, l)
        BY <1>1, <4>1, <4>3, MarkedBelow
      <4> QED
        BY <1>11, <4>4
    <3> QED
      BY <3>1, <3>2, <3>3
  <2>3. ASSUME NEW j \in 1..(length - c)
        PROVE  m \in events'[n][j].replicas <=> HasMarked(m, i, b + c + j)'
    <3>1. PICK l : l = b + c + j
      OBVIOUS
    <3>2. /\ j + c \in 1..length /\ b + (j + c) = l
          /\ j + c <= k - b <=> l <= k
          /\ j + c > k - b <=> ~(l <= k)
      BY <1>4, <1>6, <1>8, <3>1
    <3>3. m \in events[n][j + c].replicas <=> HasMarked(m, place, l)
      BY <2>1, <3>2
    <3>4. HasMarked(m, i, l)' <=> HasMarked(m, place, l) \/ (m = d /\ l <= k)
      BY <1>11
    <3>5. m \in events'[n][j].replicas <=> HasMarked(m, place, l) \/ (m = d /\ l <= k)
      BY <1>7, <3>2, <3>3
    <3>6. HasMarked(m, i, b + c + j)' <=> HasMarked(m, i, l)'
      BY <3>1
    <3> QED
      BY <3>4, <3>5, <3>6
  <2> QED
    BY <2>2, <2>3
<1>13. ListsShowMarks'
  <2>1. up' = up
    BY DEF failureVars, membership
  <2> QED
    BY <1>9, <1>12, <2>1 DEF ListsShowMarks
<1> QED
  BY <1>9, <1>10, <1>13 DEF FailuresInvariant


----------------------------------------------------------------------------
(* A process ends: its list and its messages are gone, its cluster may     *)
(* have one record more than anybody knows of, and the failure is counted  *)
(* that the next thread may repeat a record for.                           *)
LEMMA EndsKeeps ==
  ASSUME SafeSettings, FailuresInvariant, FailuresTypeOK', TypeOK',
         NEW n \in Node, Ends(n)
  PROVE  FailuresInvariant'
<1>1. /\ LogInvariant /\ MembersAreKept /\ CopiesHaveNoGap /\ MarksAreReached
      /\ FailuresTypeOK /\ RepeatsAreCounted /\ ListsShowMarks
      /\ EventsOnce /\ LogFollowsOrder /\ ListsAreSegments /\ MarksArePlaced
      /\ MarksMoveForward /\ TypeOK /\ up \subseteq Node
  BY DEF FailuresInvariant, LogInvariant, FailuresTypeOK
<1>2. /\ n \in Fallible /\ n \in up /\ up' = up \ {n}
      /\ UNCHANGED <<position, order, delivered, log, logged, committed, my_id>>
      /\ failures'[n] = failures[n] + 1 /\ failures[n] \in Nat
      /\ polled'[n] = Nil /\ pc'[n] = "query" /\ batch'[n] = <<>>
      /\ last'[n] = Nil /\ outbox'[n] = <<>> /\ events'[n] = <<>>
      /\ \A m \in Node : m # n =>
           /\ polled'[m] = polled[m] /\ pc'[m] = pc[m] /\ batch'[m] = batch[m]
           /\ last'[m] = last[m] /\ outbox'[m] = outbox[m]
           /\ events'[m] = events[m] /\ global'[m] = global[m]
           /\ failures'[m] = failures[m]
  BY <1>1, OneEnds
<1>3. polled[n] = Nil /\ AddsInOutbox(n) = {} /\ AddsInOutbox(n)' = {}
  BY <1>1, <1>2 DEF MembersAreKept, AddsInOutbox
<1>4. MarksInOutbox(n)' = {}
  BY <1>2 DEF MarksInOutbox
<1>5. \A m \in Node : m # n => /\ AddsInOutbox(m)' = AddsInOutbox(m)
                               /\ MarksInOutbox(m)' = MarksInOutbox(m)
  BY <1>2 DEF MarksInOutbox, AddsInOutbox
<1>7. /\ \A m \in Node : MarksInOrder(m)' = MarksInOrder(m)
      /\ \A i : OrderPlace(i)' = OrderPlace(i) /\ LogLen(i)' = LogLen(i)
      /\ \A m \in Node : \A j \in MarksInOutbox(m)' :
           /\ m # n /\ j \in MarksInOutbox(m) /\ outbox'[m][j] = outbox[m][j]
           /\ OutboxPlace(m, j)' = OutboxPlace(m, j)
  BY <1>2, <1>4, <1>5 DEF MarksInOrder, OrderPlace, LogLen, OutboxPlace
<1>8. ASSUME NEW m \in Node
      PROVE  /\ MarksAreUndisturbed(m)
             /\ \A d, k : HasMarked(m, d, k)' <=> HasMarked(m, d, k)
  <2>1. \A k : MarksUpTo(m, k) => MarksUpTo(m, k)'
    BY <1>7 DEF MarksUpTo
  <2>2. MarksInOutbox(m) = {} => MarksInOutbox(m)' = {}
    BY <1>7
  <2> QED
    BY <1>7, <2>1, <2>2 DEF MarksAreUndisturbed, HasMarked
<1>9. LogIsUndisturbed
  BY <1>2, LogStays
<1>10. EventsOnce'
  <2>1. polled' = polled
    BY <1>1, <1>2, <1>3 DEF TypeOK
  <2>2. \A m \in Node : /\ AddsInOutbox(m)' = AddsInOutbox(m)
                        /\ \A j \in AddsInOutbox(m) : outbox'[m][j] = outbox[m][j]
    BY <1>2, <1>3, <1>5
  <2> QED
    BY <1>1, <1>2, <2>1, <2>2, AddsUnchanged
<1>11. MarksArePlaced' /\ MarksMoveForward'
  <2>1. MarksArePlaced'
    BY <1>1, <1>2, <1>7 DEF MarksArePlaced, MarksInOrder
  <2>2. ASSUME NEW m \in Node
        PROVE  /\ \A i, j \in MarksInOrder(m)' :
                    i < j => OrderPlace(i)' < OrderPlace(j)'
               /\ \A i \in MarksInOrder(m)', j \in MarksInOutbox(m)' :
                    OrderPlace(i)' < OutboxPlace(m, j)'
               /\ \A i, j \in MarksInOutbox(m)' :
                    i < j => OutboxPlace(m, i)' < OutboxPlace(m, j)'
    <3>1. /\ \A i, j \in MarksInOrder(m) : i < j => OrderPlace(i) < OrderPlace(j)
          /\ \A i \in MarksInOrder(m), j \in MarksInOutbox(m) :
               OrderPlace(i) < OutboxPlace(m, j)
          /\ \A i, j \in MarksInOutbox(m) :
               i < j => OutboxPlace(m, i) < OutboxPlace(m, j)
      BY <1>1 DEF MarksMoveForward
    <3> QED
      BY <1>7, <3>1
  <2>3. MarksMoveForward'
    BY <2>2 DEF MarksMoveForward
  <2> QED
    BY <2>1, <2>3
<1>12. \A m \in Node : m # n => /\ AddedCount(m)' = AddedCount(m)
                                /\ Forgotten(m)' = Forgotten(m)
  BY <1>2 DEF AddedCount, LogLen, Forgotten
<1>13. ListsAreSegments'
  <2>1. ASSUME NEW m \in Node, m # n
        PROVE  /\ Len(events'[m]) <= AddedCount(m)'
               /\ \A j \in DOMAIN events'[m] :
                    Content(events'[m][j]) = log'[Forgotten(m)' + j]
    BY <1>1, <1>2, <1>12, <2>1 DEF ListsAreSegments
  <2>2. /\ Len(events'[n]) <= AddedCount(n)' /\ DOMAIN events'[n] = {}
    <3>1. AddedCount(n)' = AddedCount(n) /\ AddedCount(n) \in Nat
      BY <1>1, <1>2, Counts DEF AddedCount, LogLen
    <3> QED
      BY <1>2, <3>1
  <2> QED
    BY <2>1, <2>2 DEF ListsAreSegments, Content
<1>14. LogInvariant'
  BY <1>1, <1>2, <1>10, <1>11, <1>13, LogFollowsOrderUnchanged DEF LogInvariant
<1>15. MembersAreKept'
  <2>1. \A m \in Fallible : polled'[m] = polled[m] /\ AddsInOutbox(m)' = AddsInOutbox(m)
    BY <1>2, <1>3, <1>5, FailuresAssumption
  <2> QED
    BY <1>1, <1>2, <2>1 DEF MembersAreKept
<1>16. /\ CopyHasNoGap(n)' /\ Reached(n) <= Reached(n)'
       /\ Reached(n) \in Nat /\ Reached(n)' \in Nat
       /\ Cardinality(Restarts(n)') \in Nat
       /\ Cardinality(Restarts(n)') <= failures[n]
  <2>1. CASE global'[n] = global[n]
    <3>1. Reached(n)' = Reached(n) /\ Reached(n) \in Nat
      BY <1>1, <2>1, ReachedIsAPlace DEF Reached
    <3>2. CopyHasNoGap(n)'
      <4>1. CopyHasNoGap(n) /\ log' = log
        BY <1>1, <1>2 DEF CopiesHaveNoGap
      <4> QED
        BY <2>1, <3>1, <4>1 DEF CopyHasNoGap
    <3>3. Restarts(n)' = Restarts(n)
      BY <1>2, <2>1 DEF Restarts, PlaceInLog
    <3>4. /\ Cardinality(Restarts(n)) + (IF GoesOn(n) THEN 0 ELSE 1) <= failures[n]
          /\ Cardinality(Restarts(n)) \in Nat
      BY <1>1, RestartsAreFew DEF RepeatsAreCounted, RepeatIsCounted
    <3>5. Cardinality(Restarts(n)) <= failures[n]
      BY <1>2, <3>4
    <3> QED
      BY <3>1, <3>2, <3>3, <3>4, <3>5
  <2>2. CASE /\ pc[n] = "replicate"
             /\ global'[n] = Append(global[n], Content(Head(batch[n])))
    <3>1. Head(batch[n]) = batch[n][1]
      <4>1. batch[n] \in Seq(Event) /\ batch[n] # <<>>
        BY <1>1, <2>2 DEF TypeOK
      <4> QED
        BY <4>1
    <3> QED
      BY <1>2, <2>2, <3>1, CopyGoesOn
  <2> QED
    BY <1>1, <2>1, <2>2, OneEnds
<1>17. \A m \in Node : m # n => Reached(m)' = Reached(m)
  BY <1>2 DEF Reached
<1>18. CopiesHaveNoGap'
  <2>1. ASSUME NEW m \in Node, m # n PROVE CopyHasNoGap(m)'
    <3>1. CopyHasNoGap(m) /\ Reached(m)' = Reached(m) /\ global'[m] = global[m]
      BY <1>1, <1>2, <1>17, <2>1 DEF CopiesHaveNoGap
    <3> QED
      BY <1>2, <3>1 DEF CopyHasNoGap
  <2> QED
    BY <1>16, <2>1 DEF CopiesHaveNoGap
<1>19. MarksAreReached'
  <2> SUFFICES ASSUME NEW m \in Node PROVE MarksUpTo(m, Reached(m))'
    BY DEF MarksAreReached
  <2>1. PICK r, s : r = Reached(m) /\ s = Reached(m)'
    OBVIOUS
  <2>2. MarksUpTo(m, r)
    BY <1>1, <2>1 DEF MarksAreReached
  <2>3. r <= s /\ r \in Int /\ s \in Int
    BY <1>1, <1>16, <1>17, <2>1, ReachedIsAPlace
  <2>4. MarksUpTo(m, s)
    BY <1>1, <2>2, <2>3, BoundsGrow
  <2>5. MarksUpTo(m, s)'
    BY <1>8, <2>4 DEF MarksAreUndisturbed
  <2> QED
    BY <2>1, <2>5 DEF MarksUpTo
<1>20. ListsShowMarks'
  <2> SUFFICES ASSUME NEW m \in up, m # n PROVE ListShowsMarks(m)'
    BY <1>2 DEF ListsShowMarks
  <2>1. PICK d : d = delivered[m]
    OBVIOUS
  <2>2. ListShowsMarks(m) /\ m \in Node
    BY <1>1 DEF ListsShowMarks
  <2>3. events'[m] = events[m] /\ delivered'[m] = d /\ Forgotten(m)' = Forgotten(m)
    BY <1>2, <1>12, <2>1, <2>2
  <2>4. \A l \in Node : \A k : HasMarked(l, d, k)' <=> HasMarked(l, d, k)
    BY <1>8
  <2> QED
    BY <2>1, <2>2, <2>3, <2>4, ListStays
<1>21. RepeatIsCounted(n)'
  <2>1. PICK new : new = Cardinality(Restarts(n)')
    OBVIOUS
  <2>2. new + 1 <= failures'[n] /\ new + 0 <= failures'[n]
    BY <1>2, <1>16, <2>1
  <2> QED
    BY <2>1, <2>2 DEF RepeatIsCounted
<1>22. ASSUME NEW m \in Node, m # n
       PROVE  (m \in up => ThreadGoesForward(m)') /\ RepeatIsCounted(m)'
  <2>1. ThreadIsUndisturbed(m)
    <3>1. AddedCount(m)' = AddedCount(m) /\ AddedCount(m) \in Nat /\ delivered[m] \in Nat
      BY <1>1, <1>12, <1>22, Counts
    <3> QED
      BY <1>2, <1>22, <3>1 DEF ThreadIsUndisturbed
  <2>2. failures'[m] = failures[m]
    BY <1>2, <1>22
  <2> QED
    BY <1>8, <1>9, <1>10, <2>1, <2>2, UndisturbedThread
<1>23. ThreadsGoForward' /\ RepeatsAreCounted'
  BY <1>1, <1>2, <1>21, <1>22 DEF ThreadsGoForward, RepeatsAreCounted
<1> QED
  BY <1>14, <1>15, <1>18, <1>19, <1>20, <1>23 DEF FailuresInvariant

(* The instances that were missing are back, with the list of one that has *)
(* applied the whole order: all of their marks.                            *)
LEMMA JoinKeeps ==
  ASSUME SafeSettings, FailuresInvariant, FailuresTypeOK', TypeOK', Join
  PROVE  FailuresInvariant'
<1>1. /\ LogInvariant /\ MembersAreKept /\ CopiesHaveNoGap /\ MarksAreReached
      /\ FailuresTypeOK /\ RepeatsAreCounted /\ ListsShowMarks
      /\ EventsOnce /\ LogFollowsOrder /\ ListsAreSegments /\ MarksArePlaced
      /\ MarksMoveForward /\ TypeOK
  BY DEF FailuresInvariant, LogInvariant
<1>2. /\ up' = Node /\ up \subseteq Node
      /\ UNCHANGED <<position, polled, pc, batch, last, outbox, order, global,
                     log, logged, failures, committed, my_id>>
      /\ \A m \in Node : delivered'[m] = Len(order)
      /\ \A m \in up : delivered[m] = Len(order) /\ events'[m] = events[m]
      /\ \E donor \in up : \A m \in Node \ up : events'[m] = events[donor]
  BY <1>1, AllAreBack
<1>3. PICK donor \in up : \A m \in Node \ up : events'[m] = events[donor]
  BY <1>2
<1>4. PICK source : \A m \in Node : source[m] = IF m \in up THEN m ELSE donor
  <2>1. \A m \in Node : [l \in Node |-> IF l \in up THEN l ELSE donor][m]
                          = IF m \in up THEN m ELSE donor
    OBVIOUS
  <2> QED
    BY <2>1
<1>5. ASSUME NEW m \in Node
      PROVE  /\ source[m] \in up /\ source[m] \in Node
             /\ events'[m] = events[source[m]]
             /\ delivered'[m] = delivered[source[m]]
             /\ AddedCount(m)' = AddedCount(source[m])
             /\ Forgotten(m)' = Forgotten(source[m])
  <2>1. /\ source[m] \in up /\ source[m] \in Node
        /\ events'[m] = events[source[m]] /\ delivered'[m] = delivered[source[m]]
    BY <1>2, <1>3, <1>4
  <2>2. AddedCount(m)' = AddedCount(source[m])
    BY <1>2, <2>1 DEF AddedCount, LogLen
  <2> QED
    BY <2>1, <2>2 DEF Forgotten
<1>6. SameMarks
  BY <1>2 DEF SameMarks, MarksInOutbox, AddsInOutbox
<1>7. ListsAreSegments'
  <2> SUFFICES ASSUME NEW m \in Node
               PROVE  /\ Len(events'[m]) <= AddedCount(m)'
                      /\ \A j \in DOMAIN events'[m] :
                           Content(events'[m][j]) = log'[Forgotten(m)' + j]
    BY DEF ListsAreSegments, Content
  <2>1. PICK l : l = source[m]
    OBVIOUS
  <2>2. /\ l \in Node /\ events'[m] = events[l]
        /\ AddedCount(m)' = AddedCount(l) /\ Forgotten(m)' = Forgotten(l)
    BY <1>5, <2>1
  <2> QED
    BY <1>1, <1>2, <2>2 DEF ListsAreSegments
<1>8. LogInvariant' /\ EventsOnce'
  BY <1>1, <1>2, <1>7, EventsOnceUnchanged, LogFollowsOrderUnchanged,
     MarksArePlacedUnchanged, MarksMoveForwardUnchanged DEF LogInvariant
<1>9. MembersAreKept'
  BY <1>1, <1>2 DEF MembersAreKept, AddsInOutbox
<1>10. CopiesHaveNoGap' /\ MarksAreReached'
  BY <1>2, <1>6, CopiesStay
<1>11. /\ LogIsUndisturbed /\ \A m \in Node : MarksAreUndisturbed(m)
       /\ \A m \in Node : \A d, k : HasMarked(m, d, k)' <=> HasMarked(m, d, k)
  BY <1>2, <1>6, LogStays, MarksStayInPlace
<1>12. ListsShowMarks'
  <2> SUFFICES ASSUME NEW m \in Node PROVE ListShowsMarks(m)'
    BY <1>2 DEF ListsShowMarks
  <2>1. PICK l, d : l = source[m] /\ d = delivered[l]
    OBVIOUS
  <2>2. /\ l \in Node /\ events'[m] = events[l] /\ delivered'[m] = d
        /\ Forgotten(m)' = Forgotten(l) /\ ListShowsMarks(l)
    BY <1>1, <1>5, <2>1 DEF ListsShowMarks
  <2>3. \A o \in Node : \A k : HasMarked(o, d, k)' <=> HasMarked(o, d, k)
    BY <1>11
  <2> QED
    BY <2>1, <2>2, <2>3, ListMoves
<1>13. ASSUME NEW m \in up PROVE ThreadGoesForward(m)'
  <2>1. ThreadIsUndisturbed(m)
    <3>1. AddedCount(m)' = AddedCount(m) /\ delivered'[m] = delivered[m] /\ m \in Node
      BY <1>2, <1>4, <1>5
    <3>2. AddedCount(m) \in Nat /\ delivered[m] \in Nat
      BY <1>1, <3>1, Counts
    <3> QED
      BY <1>2, <3>1, <3>2 DEF ThreadIsUndisturbed
  <2> QED
    BY <1>2, <1>8, <1>11, <2>1, UndisturbedThread
<1>14. ASSUME NEW m \in Node \ up PROVE ThreadGoesForward(m)'
  <2>1. pc'[m] = "query" /\ last'[m] = Nil /\ outbox'[m] = <<>>
    BY <1>1, <1>2 DEF FailuresTypeOK, MembersAreKept
  <2>2. MarksInOutbox(m)' = {}
    BY <2>1 DEF MarksInOutbox
  <2>3. \A i \in MarksInOrder(m)' : i <= delivered'[m]
    <3>1. DOMAIN order = 1..Len(order) /\ Len(order) \in Nat
      BY <1>1 DEF TypeOK
    <3>2. MarksInOrder(m)' \subseteq DOMAIN order
      BY <1>2 DEF MarksInOrder
    <3>3. delivered'[m] = Len(order)
      BY <1>2
    <3> QED
      BY <3>1, <3>2, <3>3
  <2> QED
    BY <2>1, <2>2, <2>3 DEF ThreadGoesForward
<1>15. RepeatsAreCounted'
  <2> SUFFICES ASSUME NEW m \in Node PROVE RepeatIsCounted(m)'
    BY DEF RepeatsAreCounted
  <2>1. Restarts(m)' = Restarts(m) /\ (GoesOn(m)' <=> GoesOn(m))
    BY <1>2 DEF GoesOn, Restarts, PlaceInLog
  <2>2. RepeatIsCounted(m) /\ failures' = failures
    BY <1>1, <1>2 DEF RepeatsAreCounted
  <2> QED
    BY <2>1, <2>2 DEF RepeatIsCounted
<1> QED
  BY <1>2, <1>8, <1>9, <1>10, <1>12, <1>13, <1>14, <1>15
     DEF FailuresInvariant, ThreadsGoForward


----------------------------------------------------------------------------
LEMMA FailuresInitSafe ==
  ASSUME SafeSettings, FailuresInit PROVE FailuresInvariant
<1>1. /\ FailuresTypeOK /\ LogInvariant /\ TypeOK /\ Init
      /\ up = Node /\ failures = [n \in Node |-> 0] /\ my_id = [n \in Node |-> n]
  BY FailuresInitType, InitSafe DEF FailuresInit, SafetyInvariant, LogInvariant
<1>2. PICK offset \in OffsetsAtStart :
        committed = [n \in Node |-> [p \in Partition |-> offset]]
  BY DEF FailuresInit
<1>3. ASSUME NEW n \in Node
      PROVE  /\ outbox[n] = <<>> /\ global[n] = <<>> /\ events[n] = <<>>
             /\ pc[n] = "query" /\ last[n] = Nil /\ delivered[n] = 0
             /\ MarksInOutbox(n) = {} /\ AddsInOutbox(n) = {} /\ MarksInOrder(n) = {}
             /\ polled[n] = Nil /\ \A p \in Partition : position[n][p] = 0
  BY <1>1 DEF Init, MarksInOutbox, AddsInOutbox, MarksInOrder
<1>4. log = <<>> /\ Len(log) = 0
  BY <1>1 DEF Init
<1>5. MembersAreKept
  BY <1>1, <1>2, <1>3, FailuresAssumption DEF MembersAreKept
<1>6. ASSUME NEW n \in Node PROVE Reached(n) = 0 /\ ToSet(global[n]) = {}
  <2>1. ToSet(global[n]) = {}
    BY <1>3 DEF ToSet
  <2> QED
    BY <2>1, FS_EmptySet DEF Reached
<1>7. CopiesHaveNoGap
  <2> SUFFICES ASSUME NEW n \in Node
               PROVE  /\ Reached(n) <= Len(log)
                      /\ ToSet(global[n]) = {log[k] : k \in 1..Reached(n)}
    BY DEF CopiesHaveNoGap, CopyHasNoGap
  <2>1. Reached(n) <= Len(log)
    BY <1>4, <1>6
  <2>2. {log[k] : k \in 1..Reached(n)} = {}
    BY <1>6
  <2> QED
    BY <1>6, <2>1, <2>2
<1>8. MarksAreReached
  BY <1>3 DEF MarksAreReached, MarksUpTo
<1>9. ListsShowMarks
  <2> SUFFICES ASSUME NEW m \in Node PROVE ListShowsMarks(m)
    BY <1>1 DEF ListsShowMarks
  <2>1. Forgotten(m) = 0 /\ DOMAIN events[m] = {}
    BY <1>3 DEF Forgotten, AddedCount, LogLen
  <2> QED
    BY <2>1 DEF ListShowsMarks
<1>10. ThreadsGoForward
  BY <1>1, <1>3 DEF ThreadsGoForward, ThreadGoesForward
<1>11. RepeatsAreCounted
  <2> SUFFICES ASSUME NEW n \in Node PROVE RepeatIsCounted(n)
    BY DEF RepeatsAreCounted
  <2>1. Restarts(n) = {}
    BY <1>3 DEF Restarts
  <2>2. Cardinality(Restarts(n)) = 0
    BY <2>1, FS_EmptySet
  <2>3. GoesOn(n) /\ failures[n] = 0
    BY <1>1, <1>3 DEF GoesOn
  <2> QED
    BY <2>2, <2>3 DEF RepeatIsCounted
<1> QED
  BY <1>1, <1>5, <1>7, <1>8, <1>9, <1>10, <1>11 DEF FailuresInvariant

(* Each step keeps the invariant.                                          *)
LEMMA FailuresNextSafe ==
  ASSUME SafeSettings, FailuresInvariant, FailuresTypeOK', TypeOK',
         [FailuresNext]_allVars
  PROVE  FailuresInvariant'
<1>1. ASSUME NEW n \in Node, KafkaThread(n) PROVE FailuresInvariant'
  BY <1>1, KafkaThreadKeeps
<1>2. ASSUME NEW n \in Node, DerechoThread(n) PROVE FailuresInvariant'
  BY <1>2, AcceptReplyKeeps, ReplicateKeeps, SendMarkKeeps DEF DerechoThread
<1>3. ASSUME NEW n \in Node, Order(n) PROVE FailuresInvariant'
  BY <1>3, OrderKeeps
<1>4. ASSUME NEW n \in Node, Delivery(n) PROVE FailuresInvariant'
  BY <1>4, DeliverAddKeeps, DeliverMarkKeeps DEF Delivery
<1>5. ASSUME NEW n \in Node, Ends(n) PROVE FailuresInvariant'
  BY <1>5, EndsKeeps
<1>6. ASSUME NEW n \in Node, NEW p \in Partition, Commit(n, p)
      PROVE  FailuresInvariant'
  BY <1>6, CommitKeeps DEF Commit
<1>7. CASE FormGroup
  BY <1>7, TheOthersStay DEF FormGroup, FailuresInvariant
<1>8. CASE Join
  BY <1>8, JoinKeeps
<1>9. CASE UNCHANGED allVars
  BY <1>9, CommitKeeps DEF allVars, failureVars
<1> QED
  BY <1>1, <1>2, <1>3, <1>4, <1>5, <1>6, <1>7, <1>8, <1>9 DEF FailuresNext

(* All parts of the invariant together hold through every sequence of      *)
(* failures and restarts, with any number of instances, records, failures, *)
(* any chunk and window, and any commits of the consumer.                  *)
THEOREM FailuresSafe == ASSUME SafeSettings PROVE FailuresSpec => []FailuresInvariant
<1>1. FailuresInit => FailuresInvariant
  BY FailuresInitSafe
<1>2. FailuresInvariant /\ FailuresTypeOK' /\ TypeOK' /\ [FailuresNext]_allVars
        => FailuresInvariant'
  BY FailuresNextSafe
<1>3. FailuresTypeOK => TypeOK
  BY KeptTypes
<1> QED
  BY <1>1, <1>2, <1>3, FailuresTypeCorrect, PTL DEF FailuresSpec

----------------------------------------------------------------------------
(* What is added to the list of an instance and not held any more was      *)
(* forgotten with a mark of everybody, and a mark is sent behind the copy. *)
LEMMA ForgottenIsMarked ==
  ASSUME FailuresInvariant, NEW m \in up, NEW n \in Node,
         NEW content \in Added(m) \ Held(m)
  PROVE  \E k \in 1..Forgotten(m) : /\ k \in DOMAIN log /\ content = log[k]
                                    /\ HasMarked(n, delivered[m], k)
<1>1. /\ LogInvariant /\ ListShowsMarks(m) /\ TypeOK /\ m \in Node
  BY DEF FailuresInvariant, ListsShowMarks, FailuresTypeOK, LogInvariant
<1>2. PICK b, a, length : b = Forgotten(m) /\ a = AddedCount(m) /\ length = Len(events[m])
  OBVIOUS
<1>3. /\ b \in Nat /\ length \in Nat /\ b + length = a /\ a \in 0..Len(log)
      /\ Len(log) \in Nat /\ DOMAIN log = 1..Len(log) /\ DOMAIN events[m] = 1..length
  BY <1>1, <1>2, Counts DEF LogInvariant, TypeOK
<1>4. PICK k \in 1..a : content = log[k]
  BY <1>2 DEF Added
<1>5. k <= b
  <2> SUFFICES ASSUME ~(k <= b) PROVE FALSE
    OBVIOUS
  <2>1. PICK j : j = k - b
    OBVIOUS
  <2>2. j \in DOMAIN events[m] /\ b + j = k
    BY <1>3, <2>1
  <2>3. Content(events[m][j]) = log[k]
    BY <1>1, <1>2, <2>2 DEF LogInvariant, ListsAreSegments
  <2>4. log[k] \in Held(m)
    BY <2>2, <2>3 DEF Held, ToSet
  <2> QED
    BY <1>4, <2>4
<1>6. k \in 1..b /\ k \in DOMAIN log
  BY <1>3, <1>5
<1>7. HasMarked(n, delivered[m], k)
  BY <1>1, <1>2, <1>6 DEF ListShowsMarks
<1> QED
  BY <1>2, <1>4, <1>6, <1>7

(* An event of a list is at its place in the log, and what is marked for n *)
(* in it has a mark of n.                                                  *)
LEMMA MarkedInTheList ==
  ASSUME FailuresInvariant, NEW m \in up, NEW n \in Node, NEW event \in ToSet(events[m])
  PROVE  \E k \in (Forgotten(m) + 1)..AddedCount(m) :
           /\ k \in DOMAIN log /\ Content(event) = log[k] /\ event.id = log[k].id
           /\ n \in event.replicas => HasMarked(n, delivered[m], k)
<1>1. /\ LogInvariant /\ ListShowsMarks(m) /\ TypeOK /\ m \in Node
  BY DEF FailuresInvariant, ListsShowMarks, FailuresTypeOK, LogInvariant
<1>2. PICK b, a, length : b = Forgotten(m) /\ a = AddedCount(m) /\ length = Len(events[m])
  OBVIOUS
<1>3. /\ b \in Nat /\ length \in Nat /\ b + length = a /\ a \in 0..Len(log)
      /\ Len(log) \in Nat /\ DOMAIN log = 1..Len(log) /\ DOMAIN events[m] = 1..length
  BY <1>1, <1>2, Counts DEF LogInvariant, TypeOK
<1>4. PICK j \in DOMAIN events[m] : event = events[m][j]
  BY DEF ToSet
<1>5. PICK k : k = b + j
  OBVIOUS
<1>6. k \in (b + 1)..a /\ k \in DOMAIN log
  BY <1>3, <1>5
<1>7. Content(event) = log[k] /\ event.id = log[k].id
  <2>1. Content(event) = log[k]
    BY <1>1, <1>2, <1>4, <1>5 DEF LogInvariant, ListsAreSegments
  <2>2. Content(event).id = event.id
    BY DEF Content
  <2> QED
    BY <2>1, <2>2
<1>8. n \in event.replicas => HasMarked(n, delivered[m], k)
  BY <1>1, <1>2, <1>4, <1>5 DEF ListShowsMarks
<1> QED
  BY <1>2, <1>6, <1>7, <1>8

(* What has a mark of n is in the cluster of n.                            *)
LEMMA MarkedIsCopied ==
  ASSUME FailuresInvariant, NEW n \in Node, NEW d, NEW k \in DOMAIN log,
         HasMarked(n, d, k)
  PROVE  log[k] \in ToSet(global[n])
<1>1. /\ LogInvariant /\ CopiesHaveNoGap /\ MarksAreReached /\ TypeOK
  BY DEF FailuresInvariant, LogInvariant
<1>2. k \in Int /\ 1 <= k /\ Reached(n) \in Nat
  BY <1>1, ReachedIsAPlace
<1>3. k <= Reached(n)
  BY <1>1, <1>2, ShownIsBounded
<1>4. k \in 1..Reached(n)
  BY <1>2, <1>3
<1> QED
  BY <1>1, <1>4 DEF CopiesHaveNoGap, CopyHasNoGap

(* Nothing is erased from any list before it is in every cluster, also in  *)
(* the clusters of those that are down (serializable_objects.hpp:84-85).   *)
THEOREM NothingForgottenTooSoonInFailures ==
  ASSUME SafeSettings PROVE FailuresSpec => []ForgottenOnlyWhenCopied
<1>1. FailuresInvariant => ForgottenOnlyWhenCopied
  <2> SUFFICES ASSUME FailuresInvariant, NEW m \in up, NEW n \in Node,
                      NEW content \in Added(m) \ Held(m)
               PROVE  content \in ToSet(global[n])
    BY DEF ForgottenOnlyWhenCopied
  <2> QED
    BY ForgottenIsMarked, MarkedIsCopied
<1> QED
  BY <1>1, FailuresSafe, PTL

(* Nobody is listed in replicas for an event its cluster does not have,    *)
(* before and after it was restarted (serializable_objects.hpp:39-40).     *)
THEOREM NothingMarkedTooSoonInFailures ==
  ASSUME SafeSettings PROVE FailuresSpec => []MarkedOnlyWhenCopied
<1>1. FailuresInvariant => MarkedOnlyWhenCopied
  <2> SUFFICES ASSUME FailuresInvariant, NEW m \in up, NEW event \in ToSet(events[m]),
                      NEW n \in Node, my_id[n] \in event.replicas
               PROVE  Content(event) \in ToSet(global[n])
    BY DEF MarkedOnlyWhenCopied
  <2>1. n \in event.replicas
    BY DEF FailuresInvariant, MembersAreKept
  <2> QED
    BY <2>1, MarkedInTheList, MarkedIsCopied
<1> QED
  BY <1>1, FailuresSafe, PTL

(* A mark finds its event in every list, also in one that was transferred, *)
(* and when its sender has been restarted (serializable_objects.hpp:98-100).*)
THEOREM MarksFindTheirEventInFailures ==
  ASSUME SafeSettings PROVE FailuresSpec => []MarkFindsEvent
<1>1. FailuresInvariant => MarkFindsEvent
  <2> SUFFICES ASSUME FailuresInvariant, NEW n \in up,
                      delivered[n] < Len(order), NextMessage(n).type = "mark_produced"
               PROVE  NextMessage(n).id \in {event.id : event \in ToSet(events[n])}
    BY DEF MarkFindsEvent
  <2>1. LogInvariant /\ ListShowsMarks(n) /\ TypeOK /\ n \in Node
    BY DEF FailuresInvariant, ListsShowMarks, FailuresTypeOK, LogInvariant
  <2>2. PICK i, d, k, j : /\ i = delivered[n] + 1 /\ d = order[i].derecho_id
                          /\ k = OrderPlace(i) /\ j = k - Forgotten(n)
    OBVIOUS
  <2>3. Forgotten(n) < k
    BY <2>1, <2>2, NextMarkIsAhead
  <2>4. j \in 1..Len(events[n]) /\ (events[n][j].id = order[i].id)
    BY <2>1, <2>2, <2>3, MarkIsInTheList
  <2>5. events[n][j] \in ToSet(events[n])
    BY <2>1, <2>4 DEF ToSet, TypeOK
  <2> QED
    BY <2>2, <2>4, <2>5 DEF NextMessage
<1> QED
  BY <1>1, FailuresSafe, PTL

(* Each time a "-global" topic repeats what it has, its instance had       *)
(* failed, and no failure accounts for two of those times.                 *)
THEOREM RepeatsAreExplained ==
  ASSUME SafeSettings PROVE FailuresSpec => []RepeatsOnlyAfterFailure
<1>1. FailuresInvariant => RepeatsOnlyAfterFailure
  <2> SUFFICES ASSUME FailuresInvariant, NEW n \in Node
               PROVE  Cardinality(Restarts(n)) <= failures[n]
    BY DEF RepeatsOnlyAfterFailure
  <2>1. Cardinality(Restarts(n)) \in Nat /\ failures[n] \in Nat
    BY RestartsAreFew DEF FailuresInvariant, LogInvariant, FailuresTypeOK
  <2>2. Cardinality(Restarts(n)) + (IF GoesOn(n) THEN 0 ELSE 1) <= failures[n]
    BY DEF FailuresInvariant, RepeatsAreCounted, RepeatIsCounted
  <2> QED
    BY <2>1, <2>2
<1> QED
  BY <1>1, FailuresSafe, PTL


----------------------------------------------------------------------------
(* Only replicate_event produces, of the reply in work the first event,    *)
(* also when its flush fails after the record was stored.                  *)
LEMMA WhatIsCopied ==
  ASSUME SafeSettings, FailuresInvariant, [FailuresNext]_allVars
  PROVE  \/ UNCHANGED global
         \/ \E n \in up :
              /\ n \in Node /\ pc[n] = "replicate" /\ UNCHANGED log
              /\ global' = [global EXCEPT ![n] = Append(@, Content(batch[n][1]))]
<1> USE DEF kafkaThread, derechoThread, multicast, history
<1>1. FailuresTypeOK /\ TypeOK /\ up \subseteq Node
  BY DEF FailuresInvariant, LogInvariant, FailuresTypeOK
<1>2. ASSUME NEW n \in Node, batch[n] # <<>>
      PROVE  Head(batch[n]) = batch[n][1]
  BY <1>1, <1>2 DEF TypeOK
<1>3. ASSUME NEW n \in Node, KafkaThread(n) \/ Order(n) \/ Delivery(n)
      PROVE  UNCHANGED global
  BY <1>3 DEF KafkaThread, KafkaPoll, Send, SendAddEvent, Order, OrderMessage,
     Delivery, DeliverAddEvent, DeliverMarkProduced, Deliver
<1>4. ASSUME NEW n \in up,
             AcceptReply(n, QueryReply(n, chunk[n], my_id[n])) \/ SendMark(n, my_id[n])
      PROVE  UNCHANGED global
  BY <1>4 DEF AcceptReply, SendMark
<1>5. ASSUME NEW n \in up, ReplicateStored(n) \/ ReplicateRejected(n)
      PROVE  /\ n \in Node /\ pc[n] = "replicate" /\ UNCHANGED log
             /\ global' = [global EXCEPT ![n] = Append(@, Content(batch[n][1]))]
  <2>1. ReplicateEvent(n) /\ n \in Node
    BY <1>1, <1>5 DEF ReplicateStored, ReplicateRejected, SafeSettings, ReplicateEvent
  <2>2. pc[n] = "replicate" /\ batch[n] # <<>> /\ UNCHANGED log
    BY <1>1, <2>1 DEF ReplicateEvent, GoOn, TypeOK
  <2> QED
    BY <1>2, <2>1, <2>2 DEF ReplicateEvent
<1>6. ASSUME NEW n \in Node, Ends(n), global' # global
      PROVE  /\ n \in up /\ pc[n] = "replicate" /\ UNCHANGED log
             /\ global' = [global EXCEPT ![n] = Append(@, Content(batch[n][1]))]
  <2>1. FlushFails(n)
    BY <1>6 DEF Ends, Crash, OversizedSend
  <2>2. /\ n \in up /\ pc[n] = "replicate" /\ UNCHANGED log
        /\ global' = [global EXCEPT ![n] = Append(@, Content(Head(batch[n])))]
    BY <1>6, <2>1 DEF FlushFails, Fail, EndProcess
  <2> QED
    BY <1>1, <1>2, <2>2 DEF TypeOK
<1>7. CASE UNCHANGED allVars
  BY <1>7 DEF allVars, vars
<1>8. ASSUME NEW n \in Node, NEW p \in Partition, Commit(n, p) PROVE UNCHANGED global
  BY <1>8 DEF Commit, vars
<1>9. CASE FormGroup \/ Join
  BY <1>9 DEF FormGroup, Join, StartProcesses
<1>10. CASE \E n \in Node : DerechoThread(n)
  BY <1>4, <1>5, <1>10 DEF DerechoThread
<1> QED
  BY <1>3, <1>6, <1>7, <1>8, <1>9, <1>10 DEF FailuresNext

(* What a cluster gets is behind all the marks of its instance, and each   *)
(* list shows a part of those.                                             *)
LEMMA CopiedIsUnmarked ==
  ASSUME FailuresInvariant, NEW n \in up, NEW c \in Nat, MarksUpTo(n, c),
         c + 1 \in 1..Len(log)
  PROVE  ~Done(n, log[c + 1])
<1>1. /\ LogInvariant /\ CopiesHaveNoGap /\ MarksAreReached /\ EventsOnce
      /\ my_id[n] = n /\ n \in Node /\ DOMAIN log = 1..Len(log)
  BY DEF FailuresInvariant, LogInvariant, TypeOK, FailuresTypeOK, MembersAreKept
<1>2. ASSUME NEW m \in up, NEW k \in DOMAIN log, HasMarked(n, delivered[m], k),
             log[k] = log[c + 1]
      PROVE  FALSE
  <2>1. k = c + 1 /\ k \in Int
    BY <1>1, <1>2 DEF EventsOnce
  <2>2. k <= c
    BY <1>1, <1>2, <2>1, ShownIsBounded
  <2> QED
    BY <2>1, <2>2
<1>3. ASSUME NEW m \in up, log[c + 1] \in Added(m) \ Held(m) PROVE FALSE
  BY <1>1, <1>2, <1>3, ForgottenIsMarked
<1>4. ASSUME NEW m \in up, NEW event \in ToSet(events[m]),
             Content(event) = log[c + 1], my_id[n] \in event.replicas
      PROVE  FALSE
  BY <1>1, <1>2, <1>4, MarkedInTheList
<1> QED
  BY <1>3, <1>4 DEF Done

(* An instance never produces an event that some list has marked for it or *)
(* has erased already, whenever it was restarted: what is repeated is      *)
(* limited to what no mark has arrived for (kdsync.cpp:102-117 and         *)
(* serializable_objects.hpp:112-138).                                      *)
THEOREM OnlyUnmarkedIsCopied ==
  ASSUME SafeSettings PROVE FailuresSpec => CopiesOnlyUnmarked
<1> DEFINE Unmarked == \A n \in Node : global'[n] # global[n]
                         => ~Done(n, global'[n][Len(global'[n])])
<1>1. FailuresInvariant /\ [FailuresNext]_allVars => Unmarked
  <2> SUFFICES ASSUME FailuresInvariant, [FailuresNext]_allVars,
                      NEW n \in Node, global'[n] # global[n]
               PROVE  ~Done(n, global'[n][Len(global'[n])])
    OBVIOUS
  <2>1. TypeOK /\ global \in [Node -> Seq(Record)]
    BY DEF FailuresInvariant, LogInvariant, TypeOK
  <2>2. PICK m \in up :
          /\ m \in Node /\ pc[m] = "replicate" /\ UNCHANGED log
          /\ global' = [global EXCEPT ![m] = Append(@, Content(batch[m][1]))]
    BY WhatIsCopied
  <2>3. m = n /\ global'[n] = Append(global[n], Content(batch[n][1]))
    BY <2>1, <2>2
  <2>4. PICK c \in Nat : /\ MarksUpTo(n, c) /\ c + 1 \in 1..Len(log)
                         /\ Content(batch[n][1]) = log[c + 1]
    BY <2>2, <2>3, CopyGoesOn
  <2>5. global'[n][Len(global'[n])] = log[c + 1]
    <3>1. log[c + 1] \in Record
      BY <2>1, <2>4 DEF TypeOK
    <3>2. PICK s, x : s = global[n] /\ x = log[c + 1]
      OBVIOUS
    <3>3. s \in Seq(Record) /\ x \in Record /\ global'[n] = Append(s, x)
      BY <2>1, <2>3, <2>4, <3>1, <3>2
    <3>4. Append(s, x)[Len(Append(s, x))] = x
      BY <3>3, AppendProperties
    <3> QED
      BY <3>2, <3>3, <3>4
  <2> QED
    BY <2>2, <2>3, <2>4, <2>5, CopiedIsUnmarked
<1> QED
  BY <1>1, FailuresSafe, PTL DEF FailuresSpec, CopiesOnlyUnmarked


----------------------------------------------------------------------------
(* The records under way of the instances that publish are not affected by *)
(* what happens to the others.                                             *)
LEMMA EndsStreams ==
  ASSUME SafeSettings, FailuresInvariant, StreamsInOrder, NEW n \in Node, Ends(n)
  PROVE  StreamsInOrder'
<1>1. FailuresTypeOK /\ MembersAreKept
  BY DEF FailuresInvariant
<1>2. /\ n \in Fallible /\ UNCHANGED <<position, log>>
      /\ polled'[n] = Nil /\ outbox'[n] = <<>>
      /\ \A m \in Node : m # n => polled'[m] = polled[m] /\ outbox'[m] = outbox[m]
  BY <1>1, OneEnds
<1>3. AddsInOutbox(n)' = {} /\ \A p \in Partition : position[n][p] = 0
  BY <1>1, <1>2 DEF AddsInOutbox, MembersAreKept
<1>4. ASSUME NEW m \in Node, m # n
      PROVE  /\ AddsInOutbox(m)' = AddsInOutbox(m)
             /\ \A j, id : SentBefore(m, j, id)' = SentBefore(m, j, id)
             /\ \A j, event :
                  FollowsItsSiblings(m, j, event)' = FollowsItsSiblings(m, j, event)
  <2>1. outbox'[m] = outbox[m] /\ log' = log
    BY <1>2, <1>4
  <2>2. AddsInOutbox(m)' = AddsInOutbox(m)
    BY <2>1 DEF AddsInOutbox
  <2>3. \A j, id : SentBefore(m, j, id)' = SentBefore(m, j, id)
    BY <2>1, <2>2 DEF SentBefore
  <2> QED
    BY <2>2, <2>3 DEF FollowsItsSiblings
<1>5. ASSUME NEW m \in Node
      PROVE  /\ \A j \in AddsInOutbox(m)' :
                  FollowsItsSiblings(m, j, outbox[m][j].event)'
             /\ polled'[m] # Nil =>
                  FollowsItsSiblings(m, Len(outbox[m]) + 1, polled[m])'
  BY <1>2, <1>3, <1>4 DEF StreamsInOrder
<1>6. ASSUME NEW m \in Node, NEW p \in Partition,
             NEW o \in 0..(position'[m][p] - 1)
      PROVE  \/ SentBefore(m, Len(outbox[m]) + 1, <<Topic[m], p, o>>)'
             \/ polled'[m] # Nil /\ polled'[m].id = <<Topic[m], p, o>>
  <2>1. m # n
    BY <1>2, <1>3
  <2> QED
    BY <1>2, <1>4, <2>1 DEF StreamsInOrder
<1>7. \A k \in DOMAIN log' :
        /\ log'[k].id \in Id(log'[k].payload)
        /\ \A o \in 0..(log'[k].id[3] - 1) :
             \E i \in 1..(k - 1) : log'[i].id = Sibling(log'[k].id, o)
  BY <1>2 DEF StreamsInOrder
<1> QED
  BY <1>5, <1>6, <1>7 DEF StreamsInOrder

LEMMA FailuresStreams ==
  ASSUME SafeSettings, FailuresInvariant, StreamsInOrder, [FailuresNext]_allVars
  PROVE  StreamsInOrder'
<1> USE DEF kafkaThread, derechoThread, multicast, history
<1>1. /\ LogInvariant /\ MembersAreKept /\ FailuresTypeOK /\ UniqueIds
      /\ up # {} /\ up \subseteq Node
  BY TheOthersStay DEF FailuresInvariant, SafeSettings, FailuresTypeOK
<1>2. ASSUME NEW n \in Node, KafkaThread(n) PROVE StreamsInOrder'
  BY <1>1, <1>2, KafkaPollStreams, SendAddEventStreams DEF KafkaThread, Send
<1>3. ASSUME NEW n \in Node, DerechoThread(n) PROVE StreamsInOrder'
  <2>1. CASE SendMark(n, my_id[n])
    BY <1>1, <2>1, SendMarkStreams DEF SendMarkProduced, MembersAreKept
  <2>2. CASE AcceptReply(n, QueryReply(n, chunk[n], my_id[n]))
    BY <2>2, StreamsUnchanged DEF AcceptReply
  <2>3. CASE ReplicateStored(n) \/ ReplicateRejected(n)
    BY <2>3, StreamsUnchanged
       DEF ReplicateStored, ReplicateRejected, ReplicateEvent, GoOn
  <2> QED
    BY <1>3, <2>1, <2>2, <2>3 DEF DerechoThread
<1>4. ASSUME NEW n \in Node, Order(n) PROVE StreamsInOrder'
  BY <1>1, <1>4, OrderMessageStreams DEF Order
<1>5. ASSUME NEW n \in Node, Delivery(n) PROVE StreamsInOrder'
  BY <1>5, StreamsUnchanged
     DEF Delivery, DeliverAddEvent, DeliverMarkProduced, Deliver
<1>6. ASSUME NEW n \in Node, Ends(n) PROVE StreamsInOrder'
  BY <1>6, EndsStreams
<1>7. ASSUME NEW n \in Node, NEW p \in Partition, Commit(n, p) PROVE StreamsInOrder'
  BY <1>7, StreamsUnchanged DEF Commit, vars
<1>8. CASE FormGroup
  BY <1>1, <1>8 DEF FormGroup
<1>9. CASE Join
  BY <1>1, <1>9, AllAreBack, StreamsUnchanged
<1>10. CASE UNCHANGED allVars
  BY <1>10, StreamsUnchanged DEF allVars, vars
<1> QED
  BY <1>2, <1>3, <1>4, <1>5, <1>6, <1>7, <1>8, <1>9, <1>10 DEF FailuresNext

(* The records of a source partition are ordered one after the other, also *)
(* when other instances fail and come back meanwhile.                      *)
THEOREM PartitionsKeepTheirOrderInFailures ==
  ASSUME SafeSettings PROVE FailuresSpec => []StreamsInOrder
<1>1. FailuresInit => StreamsInOrder
  BY InitStreams DEF FailuresInit
<1>2. FailuresInvariant /\ StreamsInOrder /\ [FailuresNext]_allVars => StreamsInOrder'
  BY FailuresStreams
<1> QED
  BY <1>1, <1>2, FailuresSafe, PTL DEF FailuresSpec


----------------------------------------------------------------------------
(* Entries tell the events of the log apart: how far a "-global" topic has *)
(* got is the same in the words of AtLeastOnce.                            *)
LEMMA EntriesReached ==
  ASSUME FailuresInvariant, StreamsInOrder, NEW n \in Node
  PROVE  Weakly!Reached(n) = Reached(n)
<1> DEFINE S == ToSet(global[n])
           T == {Entries(global[n])[i] : i \in DOMAIN Entries(global[n])}
           f == [x \in S |-> Entry(x)]
<1>1. /\ TypeOK /\ EventsOnce /\ CopiesHaveNoGap /\ Reached(n) \in 0..Len(log)
      /\ IsFiniteSet(S) /\ DOMAIN log = 1..Len(log) /\ Len(log) \in Nat
  BY ReachedIsAPlace DEF FailuresInvariant, LogInvariant
<1>2. ASSUME NEW x \in S
      PROVE  /\ x.id = <<Topic[x.payload], x.id[2], x.id[3]>>
             /\ \E k \in DOMAIN log : x = log[k]
  <2>1. PICK k \in 1..Reached(n) : x = log[k]
    BY <1>1 DEF CopiesHaveNoGap, CopyHasNoGap
  <2>2. k \in DOMAIN log
    BY <1>1, <2>1
  <2>3. log[k].id \in Id(log[k].payload)
    BY <2>2 DEF StreamsInOrder
  <2> QED
    BY <2>1, <2>2, <2>3 DEF Id
<1>3. ASSUME NEW x \in S, NEW y \in S, Entry(x) = Entry(y)
      PROVE  x = y
  <2>1. x.payload = y.payload /\ x.id[2] = y.id[2] /\ x.id[3] = y.id[3]
    BY <1>3 DEF Entry
  <2>2. x.id = y.id
    BY <1>2, <2>1
  <2> QED
    BY <1>1, <1>2, <2>2 DEF EventsOnce
<1>4. T = {Entry(x) : x \in S}
  BY DEF Entries, ToSet
<1>5. f \in Bijection(S, T)
  <2>1. f \in [S -> T] /\ \A y \in T : \E x \in S : f[x] = y
    BY <1>4
  <2>2. \A x, y \in S : f[x] = f[y] => x = y
    BY <1>3
  <2> HIDE DEF f, S, T
  <2> QED
    BY <2>1, <2>2 DEF Bijection, Injection, Surjection, IsInjective
<1>6. Cardinality(T) = Cardinality(S)
  <2> HIDE DEF f, S, T
  <2> QED
    BY <1>1, <1>5, FS_Bijection DEF ExistsBijection
<1>7. Weakly!Reached(n) = Cardinality(T)
  BY DEF Weakly!Reached, Weakly!Cardinality, Cardinality
<1> QED
  BY <1>6, <1>7 DEF Reached

(* A "-global" topic gets the first entry it does not have, or one it has. *)
LEMMA CopiedIsAStep ==
  ASSUME FailuresInvariant, StreamsInOrder, NEW n \in up, n \in Node,
         pc[n] = "replicate", UNCHANGED log,
         global' = [global EXCEPT ![n] = Append(@, Content(batch[n][1]))]
  PROVE  Weakly!Advance(n) \/ Weakly!Repeat(n)
<1>1. /\ global \in [Node -> Seq(Record)] /\ log \in Seq(Record)
      /\ DOMAIN log = 1..Len(log) /\ Len(log) \in Nat /\ Reached(n) \in Nat
      /\ Reached(n) \in 0..Len(log)
  BY ReachedIsAPlace DEF FailuresInvariant, LogInvariant, TypeOK
<1>2. PICK c \in Nat : /\ c <= Reached(n) /\ c + 1 \in 1..Len(log)
                       /\ Content(batch[n][1]) = log[c + 1]
  BY <1>1, CopyGoesOn
<1>3. PICK k : k = c + 1
  OBVIOUS
<1>4. /\ k \in DOMAIN log /\ log[k] \in Record /\ Content(batch[n][1]) = log[k]
      /\ Entries(log)[k] = Entry(log[k]) /\ Len(Entries(log)) = Len(log)
  BY <1>1, <1>2, <1>3 DEF Entries
<1> DEFINE copies == [m \in Node |-> Entries(global[m])]
<1>5. Entries(Append(global[n], log[k])) = Append(Entries(global[n]), Entry(log[k]))
  BY <1>1, <1>4 DEF Entries
<1>6. copies' = [copies EXCEPT ![n] = Append(@, Entries(log)[k])]
  BY <1>1, <1>4, <1>5
<1>7. Weakly!Reached(n) = Reached(n)
  BY EntriesReached
<1>8. CASE k <= Reached(n)
  <2>1. k \in 1..Weakly!Reached(n)
    BY <1>1, <1>2, <1>3, <1>7, <1>8
  <2> QED
    BY <1>6, <2>1 DEF Weakly!Repeat
<1>9. CASE ~(k <= Reached(n))
  <2>1. k = Weakly!Reached(n) + 1 /\ Weakly!Reached(n) < Len(Entries(log))
    BY <1>1, <1>2, <1>3, <1>4, <1>7, <1>9
  <2> QED
    BY <1>6, <2>1 DEF Weakly!Advance
<1> QED
  BY <1>8, <1>9

(* The log gets the next entry of a partition.                             *)
LEMMA OrderedIsAStep ==
  ASSUME SafeSettings, FailuresInvariant, StreamsInOrder,
         NEW n \in Node, OrderMessage(n)
  PROVE  [Weakly!StepWithRepeats]_(Weakly!agreement)
<1>1. CASE UNCHANGED <<log, global>>
  BY <1>1 DEF Weakly!agreement, Entries
<1>2. ASSUME NEW s \in Node \X Partition,
             Agreement!Agreed(s) < Records[s[1]],
             Entries(log') = Append(Entries(log), <<s, Agreement!Agreed(s)>>),
             UNCHANGED global
      PROVE  Weakly!Agree(s)
  <2>1. Weakly!Agreed(s) = Agreement!Agreed(s)
    BY DEF Weakly!Agreed, Agreement!Agreed, Weakly!Cardinality, Agreement!Cardinality
  <2> QED
    BY <1>2, <2>1 DEF Weakly!Agree
<1> QED
  BY <1>1, <1>2, OrderMessageAgrees
     DEF SafeSettings, FailuresInvariant, Weakly!StepWithRepeats

(* Nothing else changes the log.                                           *)
LEMMA WhatIsOrdered ==
  ASSUME SafeSettings, FailuresInvariant, [FailuresNext]_allVars
  PROVE  UNCHANGED log \/ \E n \in Node : OrderMessage(n)
<1> USE DEF kafkaThread, derechoThread, multicast, history
<1>1. FailuresTypeOK /\ MembersAreKept
  BY DEF FailuresInvariant
<1>2. ASSUME NEW n \in Node, KafkaThread(n) \/ DerechoThread(n) PROVE UNCHANGED log
  BY <1>2 DEF KafkaThread, KafkaPoll, Send, SendAddEvent, DerechoThread, AcceptReply,
     ReplicateStored, ReplicateRejected, ReplicateEvent, GoOn, SendMark
<1>3. ASSUME NEW n \in Node, Delivery(n) PROVE UNCHANGED log
  BY <1>3 DEF Delivery, DeliverAddEvent, DeliverMarkProduced, Deliver
<1>4. ASSUME NEW n \in Node, Ends(n) PROVE UNCHANGED log
  BY <1>1, <1>4, OneEnds
<1>5. CASE FormGroup \/ Join
  BY <1>5 DEF FormGroup, Join, StartProcesses
<1>6. ASSUME NEW n \in Node, NEW p \in Partition, Commit(n, p) PROVE UNCHANGED log
  BY <1>6 DEF Commit, vars
<1>7. CASE UNCHANGED allVars
  BY <1>7 DEF allVars, vars
<1>8. ASSUME NEW n \in Node, Order(n) PROVE OrderMessage(n)
  BY <1>8 DEF Order
<1> QED
  BY <1>2, <1>3, <1>4, <1>5, <1>6, <1>7, <1>8 DEF FailuresNext

LEMMA FailuresStepIsAStep ==
  ASSUME SafeSettings, FailuresInvariant, StreamsInOrder, [FailuresNext]_allVars
  PROVE  [Weakly!StepWithRepeats]_(Weakly!agreement)
<1>1. CASE \E n \in Node : OrderMessage(n)
  BY <1>1, OrderedIsAStep
<1>2. CASE UNCHANGED <<log, global>>
  BY <1>2 DEF Weakly!agreement, Entries
<1>3. ASSUME NEW n \in up, n \in Node, pc[n] = "replicate", UNCHANGED log,
             global' = [global EXCEPT ![n] = Append(@, Content(batch[n][1]))]
      PROVE  [Weakly!StepWithRepeats]_(Weakly!agreement)
  BY <1>3, CopiedIsAStep DEF Weakly!StepWithRepeats
<1> QED
  BY <1>1, <1>2, <1>3, WhatIsCopied, WhatIsOrdered

(* Through failures and restarts the group implements AtLeastOnce: there   *)
(* is one log that merges the partitions, each in its order, every cluster *)
(* gets its entries in that order and leaves none out, and what it repeats *)
(* is what it had already (README.md:2 and 31-32).                         *)
THEOREM GroupKeepsTheWeakPromise ==
  ASSUME SafeSettings PROVE FailuresSpec => KeepsTheWeakPromise
<1>1. FailuresInit => Weakly!Start
  BY DEF FailuresInit, Init, Weakly!Start, Entries
<1>2. FailuresInvariant /\ StreamsInOrder /\ [FailuresNext]_allVars
        => [Weakly!StepWithRepeats]_(Weakly!agreement)
  BY FailuresStepIsAStep
<1>3. FailuresSpec => []FailuresInvariant
  BY FailuresSafe
<1>4. FailuresSpec => []StreamsInOrder
  BY PartitionsKeepTheirOrderInFailures
<1> QED
  BY <1>1, <1>2, <1>3, <1>4, PTL
     DEF FailuresSpec, KeepsTheWeakPromise, Weakly!WeakPromise
=============================================================================
