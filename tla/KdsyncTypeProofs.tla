-------------------------- MODULE KdsyncTypeProofs --------------------------
(***************************************************************************)
(* Type correctness of Kdsync, for every group, every assignment of topics *)
(* and records and every chunk.                                            *)
(***************************************************************************)
EXTENDS Kdsync, EventListLemmas

LEMMA EventsOfTheLists == Seq(Event) = Events(Ids, Node, Node)
BY DEF Event, Events

(* A query returns events of the list.                                     *)
LEMMA QueryResultType ==
  ASSUME TypeOK, NEW n \in Node
  PROVE  QueryResult(n) \in Seq(Event)
<1>1. events[n] \in Seq(Event) /\ EventChunk[n] \in Int
  BY SettingsAssumption DEF TypeOK
<1> QED
  BY <1>1, QueriesReturnEvents DEF QueryResult, QueryReply

LEMMA TailEmpty ==
  ASSUME NEW S, NEW s \in Seq(S), s # <<>>
  PROVE  /\ Len(s) = 1 => Tail(s) = <<>>
         /\ Len(s) > 1 => Tail(s) # <<>>
<1>1. Tail(s) \in Seq(S) /\ Len(Tail(s)) = Len(s) - 1 /\ Len(s) \in Nat
  BY HeadTailProperties
<1> DEFINE t == Tail(s)
<1>2. t \in Seq(S) /\ Len(t) = Len(s) - 1
  BY <1>1
<1> HIDE DEF t
<1>3. t = <<>> <=> Len(t) = 0
  BY <1>2, EmptySeq
<1>4. Len(s) > 1 => Len(t) # 0
  BY <1>1, <1>2
<1>5. Len(s) = 1 => Len(t) = 0
  BY <1>1, <1>2
<1> QED
  BY <1>3, <1>4, <1>5 DEF t

LEMMA InitType == Init => TypeOK
BY DEF Init, TypeOK

LEMMA OrderedSendType ==
  ASSUME TypeOK, NEW n \in Node, NEW message \in Message, OrderedSend(n, message)
  PROVE  /\ outbox' \in [Node -> Seq(Message)]
         /\ UNCHANGED <<order, delivered>>
<1>1. outbox[n] \in Seq(Message)
  BY DEF TypeOK
<1>2. Append(outbox[n], message) \in Seq(Message)
  BY <1>1, AppendProperties
<1> QED
  BY <1>2 DEF TypeOK, OrderedSend

LEMMA NextType == TypeOK /\ [Next]_vars => TypeOK'
<1> SUFFICES ASSUME TypeOK, [Next]_vars PROVE TypeOK'
  OBVIOUS
<1> USE DEF kafkaThread, derechoThread, multicast, history
<1>1. ASSUME NEW n \in Node, NEW p \in Partition, KafkaPoll(n, p) PROVE TypeOK'
  <2>1. position[n][p] \in Nat /\ Records[n] \in Nat
    BY SettingsAssumption DEF TypeOK
  <2>2. position[n][p] \in 0..(Records[n] - 1)
    BY <1>1, <2>1 DEF KafkaPoll
  <2>3. <<Topic[n], p, position[n][p]>> \in Ids
    BY <2>2 DEF Ids, Id
  <2>4. NewEvent(n, p, position[n][p]) \in Event
    BY <2>3 DEF NewEvent, Event
  <2>5. polled' \in [Node -> Event \cup {Nil}]
    BY <1>1, <2>4 DEF TypeOK, KafkaPoll
  <2>6. position' \in [Node -> [Partition -> Nat]]
    BY <1>1, <2>1 DEF TypeOK, KafkaPoll
  <2> QED
    BY <1>1, <2>5, <2>6 DEF TypeOK, KafkaPoll
<1>2. ASSUME NEW n \in Node, SendAddEvent(n) PROVE TypeOK'
  <2>1. polled[n] \in Event
    BY <1>2 DEF TypeOK, SendAddEvent
  <2>2. AddMessage(polled[n]) \in Message
    BY <2>1 DEF AddMessage, Message
  <2>3. outbox' \in [Node -> Seq(Message)] /\ UNCHANGED <<order, delivered>>
    BY <1>2, <2>2, OrderedSendType DEF SendAddEvent
  <2>4. polled' \in [Node -> Event \cup {Nil}]
    BY <1>2 DEF TypeOK, SendAddEvent
  <2> QED
    BY <1>2, <2>3, <2>4 DEF TypeOK, SendAddEvent
<1>3. ASSUME NEW n \in Node, QueryEvents(n) PROVE TypeOK'
  <2>1. QueryResult(n) \in Seq(Event)
    BY QueryResultType
  <2>2. CASE QueryResult(n) = <<>> /\ UNCHANGED <<pc, batch>>
    BY <1>3, <2>2 DEF TypeOK, QueryEvents, AcceptReply
  <2>3. CASE /\ QueryResult(n) # <<>>
             /\ batch' = [batch EXCEPT ![n] = QueryResult(n)]
             /\ pc' = [pc EXCEPT ![n] = "replicate"]
    <3>1. /\ batch' \in [Node -> Seq(Event)]
          /\ pc' \in [Node -> {"query", "replicate", "mark"}]
      BY <2>1, <2>3 DEF TypeOK
    <3>2. \A m \in Node : /\ pc'[m] = "replicate" <=> batch'[m] # <<>>
                          /\ pc'[m] = "mark" => last[m] # Nil
      BY <2>3 DEF TypeOK
    <3> QED
      BY <1>3, <3>1, <3>2 DEF TypeOK, QueryEvents, AcceptReply
  <2> QED
    BY <1>3, <2>2, <2>3 DEF QueryEvents, AcceptReply
<1>4. ASSUME NEW n \in Node, ReplicateEvent(n) PROVE TypeOK'
  <2>1. batch[n] \in Seq(Event) /\ batch[n] # <<>>
    BY <1>4 DEF TypeOK, ReplicateEvent, GoOn
  <2>2. /\ Head(batch[n]) \in Event /\ Tail(batch[n]) \in Seq(Event)
        /\ Len(Tail(batch[n])) = Len(batch[n]) - 1 /\ Len(batch[n]) \in Nat
    BY <2>1, HeadTailProperties
  <2>3. Content(Head(batch[n])) \in Record /\ Head(batch[n]).id \in Ids
    BY <2>2 DEF Content, Event, Record
  <2>4. global' \in [Node -> Seq(Record)]
    <3>1. Append(global[n], Content(Head(batch[n]))) \in Seq(Record)
      BY <2>3, AppendProperties DEF TypeOK
    <3> QED
      BY <1>4, <3>1 DEF TypeOK, ReplicateEvent, GoOn
  <2>5. /\ batch' \in [Node -> Seq(Event)]
        /\ batch' = [batch EXCEPT ![n] = Tail(batch[n])]
    BY <1>4, <2>2 DEF TypeOK, ReplicateEvent, GoOn
  <2>51. batch'[n] = Tail(batch[n])
    BY <2>5 DEF TypeOK
  <2>6. CASE Len(batch[n]) > 1 /\ UNCHANGED <<pc, last>>
    <3>1. batch'[n] # <<>>
      BY <2>1, <2>51, <2>6, TailEmpty
    <3>2. \A m \in Node : pc'[m] = "replicate" <=> batch'[m] # <<>>
      BY <1>4, <2>5, <2>6, <3>1 DEF TypeOK, ReplicateEvent, GoOn
    <3> QED
      BY <1>4, <2>4, <2>5, <2>6, <3>2 DEF TypeOK, ReplicateEvent, GoOn
  <2>7. CASE /\ Len(batch[n]) = 1
             /\ last' = [last EXCEPT ![n] = Head(batch[n]).id]
             /\ pc' = [pc EXCEPT ![n] = "mark"]
    <3>1. batch'[n] = <<>>
      BY <2>1, <2>51, <2>7, TailEmpty
    <3>2. /\ pc' \in [Node -> {"query", "replicate", "mark"}]
          /\ last' \in [Node -> Ids \cup {Nil}]
      BY <2>3, <2>7 DEF TypeOK
    <3>3. \A m \in Node : /\ pc'[m] = "replicate" <=> batch'[m] # <<>>
                          /\ pc'[m] = "mark" => last'[m] # Nil
      BY <2>3, <2>5, <2>7, <3>1, NilAssumption DEF TypeOK
    <3> QED
      BY <1>4, <2>4, <2>5, <2>7, <3>2, <3>3 DEF TypeOK, ReplicateEvent, GoOn
  <2> QED
    BY <1>4, <2>6, <2>7 DEF ReplicateEvent, GoOn
<1>5. ASSUME NEW n \in Node, SendMarkProduced(n) PROVE TypeOK'
  <2>1. last[n] \in Ids
    BY <1>5 DEF TypeOK, SendMarkProduced, SendMark
  <2>2. MarkMessage(n, last[n]) \in Message
    BY <2>1 DEF MarkMessage, Message
  <2>3. outbox' \in [Node -> Seq(Message)] /\ UNCHANGED <<order, delivered>>
    BY <1>5, <2>2, OrderedSendType DEF SendMarkProduced, SendMark
  <2>4. /\ pc' \in [Node -> {"query", "replicate", "mark"}]
        /\ \A m \in Node : /\ pc'[m] = "replicate" <=> batch[m] # <<>>
                           /\ pc'[m] = "mark" => last[m] # Nil
    BY <1>5 DEF TypeOK, SendMarkProduced, SendMark
  <2> QED
    BY <1>5, <2>3, <2>4 DEF TypeOK, SendMarkProduced, SendMark
<1>6. ASSUME NEW n \in Node, OrderMessage(n) PROVE TypeOK'
  <2>1. outbox[n] \in Seq(Message) /\ outbox[n] # <<>>
    BY <1>6 DEF TypeOK, OrderMessage
  <2>2. Head(outbox[n]) \in Message /\ Tail(outbox[n]) \in Seq(Message)
    BY <2>1, HeadTailProperties
  <2>3. /\ order' \in Seq(Message) /\ Len(order') = Len(order) + 1
        /\ Len(order) \in Nat
    BY <1>6, <2>2, AppendProperties DEF TypeOK, OrderMessage
  <2>4. log' \in Seq(Record)
    <3>1. CASE Head(outbox[n]).type = "add_event"
      <4>1. Head(outbox[n]).event \in Event
        BY <2>2, <3>1 DEF Message
      <4>2. Content(Head(outbox[n]).event) \in Record
        BY <4>1 DEF Content, Event, Record
      <4> QED
        BY <1>6, <3>1, <4>2, AppendProperties DEF TypeOK, OrderMessage
    <3>2. CASE Head(outbox[n]).type # "add_event"
      BY <1>6, <3>2 DEF TypeOK, OrderMessage
    <3> QED
      BY <3>1, <3>2
  <2>5. logged' \in Seq(Nat)
    <3>1. Len(log') \in Nat
      BY <2>4
    <3> QED
      BY <1>6, <3>1, AppendProperties DEF TypeOK, OrderMessage
  <2>6. outbox' \in [Node -> Seq(Message)]
    BY <1>6, <2>2 DEF TypeOK, OrderMessage
  <2>7. \A m \in Node : delivered[m] <= Len(order')
    BY <2>3 DEF TypeOK
  <2> QED
    BY <1>6, <2>3, <2>4, <2>5, <2>6, <2>7 DEF TypeOK, OrderMessage
<1>7. ASSUME NEW n \in Node, NEW type, Deliver(n, type), events' \in [Node -> Seq(Event)]
      PROVE  TypeOK'
  <2>1. delivered[n] \in Nat /\ Len(order) \in Nat /\ delivered[n] < Len(order)
    BY <1>7 DEF TypeOK, Deliver
  <2>2. /\ delivered' \in [Node -> Nat]
        /\ \A m \in Node : delivered'[m] <= Len(order)
    BY <1>7, <2>1 DEF TypeOK, Deliver
  <2> QED
    BY <1>7, <2>2 DEF TypeOK, Deliver
<1>8. ASSUME NEW n \in Node, NEW type, Deliver(n, type)
      PROVE  NextMessage(n) \in Message /\ NextMessage(n).type = type
  <2>1. delivered[n] + 1 \in 1..Len(order) /\ order \in Seq(Message)
    BY <1>8 DEF TypeOK, Deliver
  <2> QED
    BY <1>8, <2>1, ElementOfSeq DEF NextMessage, Deliver
<1>9. ASSUME NEW n \in Node, DeliverAddEvent(n) PROVE TypeOK'
  <2>1. NextMessage(n).event \in Event
    BY <1>8, <1>9 DEF DeliverAddEvent, Message
  <2>2. AddEvent(events[n], NextMessage(n).event) \in Seq(Event)
    BY <2>1, AppendProperties DEF TypeOK, AddEvent
  <2>3. events' \in [Node -> Seq(Event)]
    BY <1>9, <2>2 DEF TypeOK, DeliverAddEvent
  <2> QED
    BY <1>7, <1>9, <2>3 DEF DeliverAddEvent
<1>10. ASSUME NEW n \in Node, DeliverMarkProduced(n) PROVE TypeOK'
  <2>1. NextMessage(n).derecho_id \in Node
    BY <1>8, <1>10 DEF DeliverMarkProduced, Message
  <2>2. events[n] \in Events(Ids, Node, Node)
    BY EventsOfTheLists DEF TypeOK
  <2>3. MarkProduced(events[n], Replicas, NextMessage(n).derecho_id,
                     NextMessage(n).id) \in Seq(Event)
    BY <2>1, <2>2, MarkProducedProperties, EventsOfTheLists
  <2>4. events' \in [Node -> Seq(Event)]
    BY <1>10, <2>3 DEF TypeOK, DeliverMarkProduced
  <2> QED
    BY <1>7, <1>10, <2>4 DEF DeliverMarkProduced
<1>11. CASE UNCHANGED vars
  BY <1>11 DEF TypeOK, vars
<1> QED
  BY <1>1, <1>2, <1>3, <1>4, <1>5, <1>6, <1>9, <1>10, <1>11
     DEF Next, KafkaPolling, DerechoPolling, Multicast

(* Every variable keeps its type, the thread that replicates has something *)
(* to replicate and the one that marks something to mark, whatever the     *)
(* instances, their topics and their chunks.                               *)
THEOREM TypeCorrect == Spec => []TypeOK
BY InitType, NextType, PTL DEF Spec
=============================================================================
