------------------------ MODULE KdsyncFailuresProofs ------------------------
(***************************************************************************)
(* What crashes, restarts and transfers of the list cannot break, for      *)
(* every number of instances and of failures, whatever the offsets, the    *)
(* rejected records and the Derecho ids: the types; that replicas at the   *)
(* same place of the order hold the same list; that a list is always the   *)
(* last part of what was added, and loses only what all have marked; that  *)
(* an empty reply means that nothing is new.                               *)
(***************************************************************************)
EXTENDS KdsyncFailures, KdsyncSafety, KdsyncTypeProofs

LEMMA MarkedEvents == Seq(MarkedEvent) = Events(Ids, Node, DerechoId)
BY DEF MarkedEvent, Events

LEMMA FailuresInitType == FailuresInit => FailuresTypeOK
<1> SUFFICES ASSUME FailuresInit PROVE FailuresTypeOK
  OBVIOUS
<1>1. my_id \in [Node -> DerechoId] /\ IsInjective(my_id)
  BY DEF FailuresInit, DerechoId, IsInjective
<1>2. PICK offset \in OffsetsAtStart :
        committed = [n \in Node |-> [p \in Partition |-> offset]]
  BY DEF FailuresInit
<1>3. committed \in [Node -> [Partition -> Nat \cup {None}]]
  <2>1. offset \in Nat \cup {None}
    BY FailuresAssumption
  <2> QED
    BY <1>2, <2>1
<1>4. chunk \in [Node -> Int] /\ failures \in [Node -> Nat] /\ up \subseteq Node
  BY SettingsAssumption DEF FailuresInit
<1>5. Node \ up = {}
  BY DEF FailuresInit
<1> QED
  BY <1>1, <1>3, <1>4, <1>5 DEF FailuresInit, Init, FailuresTypeOK

(* The end of a process leaves nothing of it.                              *)
LEMMA EndProcessType ==
  ASSUME FailuresTypeOK, NEW n \in Node, EndProcess(n),
         failures' \in [Node -> Nat], global' \in [Node -> Seq(Record)]
  PROVE  FailuresTypeOK'
<1> DEFINE gone == IF Survives(up \ {n}) THEN {n} ELSE up
<1>1. /\ up' = up \ gone
      /\ polled' = Afresh(polled, gone, Nil)
      /\ pc' = Afresh(pc, gone, "query")
      /\ batch' = Afresh(batch, gone, <<>>)
      /\ last' = Afresh(last, gone, Nil)
      /\ outbox' = Afresh(outbox, gone, <<>>)
      /\ events' = Afresh(events, gone, <<>>)
      /\ UNCHANGED <<position, order, delivered, log, logged,
                     committed, my_id, chunk>>
  BY DEF EndProcess, history
<1> HIDE DEF gone
<1>2. /\ polled' \in [Node -> MarkedEvent \cup {Nil}]
      /\ pc' \in [Node -> {"query", "replicate", "mark"}]
      /\ last' \in [Node -> Ids \cup {Nil}]
  BY <1>1 DEF FailuresTypeOK, Afresh
<1>3. /\ batch' \in [Node -> Seq(MarkedEvent)]
      /\ outbox' \in [Node -> Seq(AnyMessage)]
      /\ events' \in [Node -> Seq(MarkedEvent)]
  <2>1. <<>> \in Seq(MarkedEvent) /\ <<>> \in Seq(AnyMessage)
    BY EmptySeq
  <2> QED
    BY <1>1, <2>1 DEF FailuresTypeOK, Afresh
<1>4. \A m \in Node : /\ pc'[m] = "replicate" <=> batch'[m] # <<>>
                      /\ pc'[m] = "mark" => last'[m] # Nil
                      /\ delivered'[m] <= Len(order')
  BY <1>1 DEF FailuresTypeOK, Afresh
<1>5. \A m \in Node \ up' : /\ polled'[m] = Nil /\ pc'[m] = "query"
                            /\ outbox'[m] = <<>> /\ events'[m] = <<>>
  BY <1>1 DEF FailuresTypeOK, Afresh
<1> QED
  BY <1>1, <1>2, <1>3, <1>4, <1>5 DEF FailuresTypeOK

(* Processes that start have nothing to do yet.                            *)
LEMMA StartProcessesType ==
  ASSUME FailuresTypeOK, NEW joining \in SUBSET Node, StartProcesses(joining),
         events' \in [Node -> Seq(MarkedEvent)], chunk' \in [Node -> Int]
  PROVE  FailuresTypeOK'
<1>1. /\ up' = Node
      /\ delivered' = Afresh(delivered, joining, Len(order))
      /\ UNCHANGED <<polled, pc, batch, last, outbox, order, global, log, logged,
                     failures, committed>>
  BY DEF StartProcesses, derechoThread, history
<1>2. position' \in [Node -> [Partition -> Nat]]
  <2>1. PICK start \in [joining -> [Partition -> UNION {0..Records[n] : n \in Node}]] :
          position' = [n \in Node |-> IF n \in joining THEN start[n] ELSE position[n]]
    BY DEF StartProcesses, RestartConsumers
  <2>2. UNION {0..Records[n] : n \in Node} \subseteq Nat
    BY SettingsAssumption
  <2>3. \A n \in joining : start[n] \in [Partition -> Nat]
    BY <2>1, <2>2
  <2> QED
    BY <2>1, <2>3 DEF FailuresTypeOK
<1>3. my_id' \in [Node -> DerechoId] /\ IsInjective(my_id')
  <2>1. PICK id \in [joining -> DerechoId] :
          /\ my_id' = [n \in Node |-> IF n \in joining THEN id[n] ELSE my_id[n]]
          /\ IsInjective(my_id')
    BY DEF StartProcesses
  <2> QED
    BY <2>1 DEF FailuresTypeOK
<1>4. /\ delivered' \in [Node -> Nat]
      /\ \A m \in Node : delivered'[m] <= Len(order')
  <2>1. Len(order) \in Nat
    BY DEF FailuresTypeOK
  <2> QED
    BY <1>1, <2>1 DEF FailuresTypeOK, Afresh
<1> QED
  BY <1>1, <1>2, <1>3, <1>4 DEF FailuresTypeOK

----------------------------------------------------------------------------
(* The steps of the threads, as in Kdsync.                                 *)
LEMMA KafkaThreadType ==
  ASSUME FailuresTypeOK, NEW n \in Node, KafkaThread(n)
  PROVE  FailuresTypeOK'
<1> USE DEF kafkaThread, derechoThread, multicast, history, membership, failureVars
<1>1. ASSUME NEW p \in Partition, KafkaPoll(n, p) PROVE FailuresTypeOK'
  <2>1. position[n][p] \in 0..(Records[n] - 1) /\ position[n][p] \in Nat
    <3>1. position[n][p] \in Nat /\ Records[n] \in Nat
      BY SettingsAssumption DEF FailuresTypeOK
    <3> QED
      BY <1>1, <3>1 DEF KafkaPoll
  <2>2. NewEvent(n, p, position[n][p]) \in MarkedEvent
    <3>1. <<Topic[n], p, position[n][p]>> \in Ids
      BY <2>1 DEF Ids, Id
    <3> QED
      BY <3>1 DEF NewEvent, MarkedEvent
  <2>3. /\ polled' \in [Node -> MarkedEvent \cup {Nil}]
        /\ position' \in [Node -> [Partition -> Nat]]
        /\ \A m \in Node : m # n => polled'[m] = polled[m]
    BY <1>1, <2>1, <2>2 DEF FailuresTypeOK, KafkaPoll
  <2>4. n \in up /\ UNCHANGED <<derechoThread, multicast, events, global, history,
                                failureVars>>
    BY <1>1 DEF KafkaThread, KafkaPoll
  <2>5. \A m \in Node \ up' : polled'[m] = Nil
    BY <2>3, <2>4 DEF FailuresTypeOK
  <2> QED
    BY <2>3, <2>4, <2>5 DEF FailuresTypeOK
<1>2. ASSUME Send(n) PROVE FailuresTypeOK'
  <2>1. polled[n] \in MarkedEvent /\ outbox[n] \in Seq(AnyMessage)
    BY <1>2 DEF FailuresTypeOK, Send, SendAddEvent
  <2>2. AddMessage(polled[n]) \in AnyMessage
    BY <2>1 DEF AddMessage, AnyMessage
  <2>3. /\ polled' = [polled EXCEPT ![n] = Nil]
        /\ outbox' = [outbox EXCEPT ![n] = Append(@, AddMessage(polled[n]))]
        /\ UNCHANGED <<position, order, delivered, derechoThread, events, global,
                       history, failureVars>>
        /\ n \in up
    BY <1>2 DEF KafkaThread, Send, SendAddEvent, OrderedSend
  <2>4. outbox' \in [Node -> Seq(AnyMessage)]
    <3>1. Append(outbox[n], AddMessage(polled[n])) \in Seq(AnyMessage)
      BY <2>1, <2>2, AppendProperties
    <3> QED
      BY <2>3, <3>1 DEF FailuresTypeOK
  <2>5. /\ polled' \in [Node -> MarkedEvent \cup {Nil}]
        /\ \A m \in Node \ up' : polled'[m] = Nil /\ outbox'[m] = <<>>
    BY <2>3 DEF FailuresTypeOK
  <2> QED
    BY <2>3, <2>4, <2>5 DEF FailuresTypeOK
<1> QED
  BY <1>1, <1>2 DEF KafkaThread

(* An event of the reply is behind the thread.                             *)
LEMMA GoOnType ==
  ASSUME FailuresTypeOK, NEW n \in Node, GoOn(n), UNCHANGED failureVars,
         global' = global
           \/ global' = [global EXCEPT ![n] = Append(@, Content(Head(batch[n])))]
  PROVE  FailuresTypeOK'
<1> USE DEF kafkaThread, derechoThread, multicast, history, membership, failureVars
<1>1. batch[n] \in Seq(MarkedEvent) /\ batch[n] # <<>> /\ n \in up
  BY DEF FailuresTypeOK, GoOn
<1>2. /\ Head(batch[n]) \in MarkedEvent /\ Tail(batch[n]) \in Seq(MarkedEvent)
      /\ Len(batch[n]) \in Nat
  BY <1>1, HeadTailProperties
<1>3. Content(Head(batch[n])) \in Record /\ Head(batch[n]).id \in Ids
  BY <1>2 DEF Content, MarkedEvent, Record
<1>4. global' \in [Node -> Seq(Record)]
  <2>1. Append(global[n], Content(Head(batch[n]))) \in Seq(Record)
    BY <1>3, AppendProperties DEF FailuresTypeOK
  <2>2. global \in [Node -> Seq(Record)]
    BY DEF FailuresTypeOK
  <2> QED
    BY <2>1, <2>2
<1>5. /\ batch' = [batch EXCEPT ![n] = Tail(batch[n])]
      /\ batch' \in [Node -> Seq(MarkedEvent)]
      /\ batch'[n] = Tail(batch[n])
      /\ pc[n] = "replicate"
      /\ UNCHANGED <<position, polled, outbox, order, delivered, events, log, logged,
                     up, failures, my_id, chunk, committed>>
  BY <1>2 DEF FailuresTypeOK, GoOn
<1>6. CASE Len(batch[n]) > 1 /\ UNCHANGED <<pc, last>>
  <2>1. batch'[n] # <<>>
    BY <1>1, <1>5, <1>6, TailEmpty
  <2>2. \A m \in Node : pc'[m] = "replicate" <=> batch'[m] # <<>>
    BY <1>5, <1>6, <2>1 DEF FailuresTypeOK
  <2> QED
    BY <1>4, <1>5, <1>6, <2>2 DEF FailuresTypeOK
<1>7. CASE /\ Len(batch[n]) = 1
           /\ last' = [last EXCEPT ![n] = Head(batch[n]).id]
           /\ pc' = [pc EXCEPT ![n] = "mark"]
  <2>1. batch'[n] = <<>>
    BY <1>1, <1>5, <1>7, TailEmpty
  <2>2. /\ pc' \in [Node -> {"query", "replicate", "mark"}]
        /\ last' \in [Node -> Ids \cup {Nil}]
    BY <1>3, <1>7 DEF FailuresTypeOK
  <2>3. \A m \in Node : /\ pc'[m] = "replicate" <=> batch'[m] # <<>>
                        /\ pc'[m] = "mark" => last'[m] # Nil
    BY <1>3, <1>5, <1>7, <2>1, NilAssumption DEF FailuresTypeOK
  <2>4. \A m \in Node \ up' : pc'[m] = "query"
    BY <1>1, <1>5, <1>7 DEF FailuresTypeOK
  <2> QED
    BY <1>4, <1>5, <2>2, <2>3, <2>4 DEF FailuresTypeOK
<1> QED
  BY <1>6, <1>7 DEF GoOn

LEMMA DerechoThreadType ==
  ASSUME FailuresTypeOK, NEW n \in Node, DerechoThread(n)
  PROVE  FailuresTypeOK'
<1> DEFINE reply == QueryReply(n, chunk[n], my_id[n])
<1>0. n \in up /\ UNCHANGED failureVars
  BY DEF DerechoThread
<1>1. CASE AcceptReply(n, reply)
  <2> USE DEF kafkaThread, multicast, history, membership, failureVars
  <2>1. reply \in Seq(MarkedEvent)
    <3>1. events[n] \in Seq(MarkedEvent) /\ chunk[n] \in Int
      BY DEF FailuresTypeOK
    <3> QED
      BY <3>1, QueriesReturnEvents DEF QueryReply
  <2> HIDE DEF reply
  <2>2. CASE UNCHANGED <<pc, batch>>
    BY <1>0, <1>1, <2>2 DEF AcceptReply, FailuresTypeOK
  <2>3. CASE /\ reply # <<>>
             /\ batch' = [batch EXCEPT ![n] = reply]
             /\ pc' = [pc EXCEPT ![n] = "replicate"]
    <3>1. /\ batch' \in [Node -> Seq(MarkedEvent)]
          /\ pc' \in [Node -> {"query", "replicate", "mark"}]
      BY <2>1, <2>3 DEF FailuresTypeOK
    <3>2. \A m \in Node : /\ pc'[m] = "replicate" <=> batch'[m] # <<>>
                          /\ pc'[m] = "mark" => last[m] # Nil
      BY <2>3 DEF FailuresTypeOK
    <3>3. \A m \in Node \ up : pc'[m] = "query"
      BY <1>0, <2>3 DEF FailuresTypeOK
    <3>4. UNCHANGED <<last, position, polled, outbox, order, delivered, events,
                      global, log, logged, up, failures, my_id, chunk, committed>>
      BY <1>0, <1>1 DEF AcceptReply
    <3> QED
      BY <3>1, <3>2, <3>3, <3>4 DEF FailuresTypeOK
  <2> QED
    BY <1>1, <2>2, <2>3 DEF AcceptReply
<1>2. CASE ReplicateStored(n) \/ ReplicateRejected(n)
  BY <1>0, <1>2, GoOnType DEF ReplicateStored, ReplicateRejected, ReplicateEvent
<1>3. CASE SendMark(n, my_id[n])
  <2> USE DEF kafkaThread, multicast, history, membership, failureVars
  <2>1. /\ pc[n] = "mark" /\ last[n] \in Ids /\ my_id[n] \in DerechoId
        /\ outbox[n] \in Seq(AnyMessage)
    BY <1>3 DEF SendMark, FailuresTypeOK
  <2>2. MarkMessage(my_id[n], last[n]) \in AnyMessage
    BY <2>1 DEF MarkMessage, AnyMessage
  <2>3. Append(outbox[n], MarkMessage(my_id[n], last[n])) \in Seq(AnyMessage)
    BY <2>1, <2>2, AppendProperties
  <2>4. /\ outbox' = [outbox EXCEPT ![n] = Append(@, MarkMessage(my_id[n], last[n]))]
        /\ pc' = [pc EXCEPT ![n] = "query"]
        /\ UNCHANGED <<batch, last, position, polled, order, delivered, events,
                       global, log, logged, up, failures, my_id, chunk, committed>>
    BY <1>0, <1>3 DEF SendMark, OrderedSend
  <2>5. /\ outbox' \in [Node -> Seq(AnyMessage)]
        /\ pc' \in [Node -> {"query", "replicate", "mark"}]
        /\ \A m \in Node : /\ pc'[m] = "replicate" <=> batch[m] # <<>>
                           /\ pc'[m] = "mark" => last[m] # Nil
        /\ \A m \in Node \ up : pc'[m] = "query" /\ outbox'[m] = <<>>
    BY <1>0, <2>1, <2>3, <2>4 DEF FailuresTypeOK
  <2> QED
    BY <2>4, <2>5 DEF FailuresTypeOK
<1> QED
  BY <1>1, <1>2, <1>3 DEF DerechoThread

----------------------------------------------------------------------------
(* The steps of Derecho.                                                   *)
LEMMA OrderType ==
  ASSUME FailuresTypeOK, NEW n \in Node, Order(n)
  PROVE  FailuresTypeOK'
<1> DEFINE head == Head(outbox[n])
<1>1. /\ outbox[n] \in Seq(AnyMessage) /\ outbox[n] # <<>>
      /\ up = Node
      /\ order' = Append(order, head)
      /\ log' = IF head.type = "add_event" THEN Append(log, Content(head.event)) ELSE log
      /\ logged' = Append(logged, Len(log'))
      /\ outbox' = [outbox EXCEPT ![n] = Tail(@)]
      /\ UNCHANGED <<delivered, position, polled, pc, batch, last, events, global,
                     up, failures, my_id, chunk, committed>>
  BY DEF FailuresTypeOK, Order, OrderMessage, kafkaThread, derechoThread,
         failureVars, membership
<1>2. head \in AnyMessage /\ Tail(outbox[n]) \in Seq(AnyMessage)
  BY <1>1, HeadTailProperties
<1> HIDE DEF head
<1>3. /\ order' \in Seq(AnyMessage) /\ Len(order') = Len(order) + 1
      /\ Len(order) \in Nat
  BY <1>1, <1>2, AppendProperties DEF FailuresTypeOK
<1>4. log' \in Seq(Record)
  <2>1. CASE head.type = "add_event"
    <3>1. head.event \in MarkedEvent
      BY <1>2, <2>1 DEF AnyMessage
    <3>2. Content(head.event) \in Record
      BY <3>1 DEF Content, MarkedEvent, Record
    <3> QED
      BY <1>1, <2>1, <3>2, AppendProperties DEF FailuresTypeOK
  <2> QED
    BY <1>1, <2>1 DEF FailuresTypeOK
<1>5. logged' \in Seq(Nat)
  <2>1. Len(log') \in Nat
    BY <1>4
  <2> QED
    BY <1>1, <2>1, AppendProperties DEF FailuresTypeOK
<1>6. outbox' \in [Node -> Seq(AnyMessage)] /\ Node \ up' = {}
  BY <1>1, <1>2 DEF FailuresTypeOK
<1>7. ASSUME NEW m \in Node PROVE delivered'[m] <= Len(order')
  <2>1. delivered[m] \in Nat /\ delivered[m] <= Len(order) /\ Len(order) \in Nat
    BY DEF FailuresTypeOK
  <2> QED
    BY <1>1, <1>3, <2>1
<1> QED
  BY <1>1, <1>3, <1>4, <1>5, <1>6, <1>7 DEF FailuresTypeOK

(* What a message does to a list.                                          *)
Apply(list, message) ==
  IF message.type = "add_event"
  THEN AddEvent(list, message.event)
  ELSE MarkProduced(list, Replicas, message.derecho_id, message.id)

(* A delivery applies the next message of the order.                       *)
LEMMA DeliveryApplies ==
  ASSUME FailuresTypeOK, NEW n \in Node, Delivery(n)
  PROVE  /\ n \in up /\ delivered[n] \in 0..(Len(order) - 1) /\ Len(order) \in Nat
         /\ order[delivered[n] + 1] \in AnyMessage
         /\ delivered' = [delivered EXCEPT ![n] = @ + 1]
         /\ events' = [events EXCEPT ![n] = Apply(@, order[delivered[n] + 1])]
         /\ UNCHANGED <<position, polled, pc, batch, last, outbox, order, global,
                        log, logged, up, failures, my_id, chunk, committed>>
<1>1. PICK type \in {"add_event", "mark_produced"} : Deliver(n, type)
  BY DEF Delivery, DeliverAddEvent, DeliverMarkProduced
<1>2. /\ delivered[n] < Len(order) /\ delivered[n] \in Nat /\ Len(order) \in Nat
      /\ order \in Seq(AnyMessage)
  BY <1>1 DEF FailuresTypeOK, Deliver
<1>3. delivered[n] + 1 \in 1..Len(order) /\ order[delivered[n] + 1] \in AnyMessage
  BY <1>2, ElementOfSeq
<1>4. events' = [events EXCEPT ![n] = Apply(@, order[delivered[n] + 1])]
  <2>1. CASE DeliverAddEvent(n)
    BY <2>1 DEF DeliverAddEvent, Deliver, NextMessage, Apply
  <2>2. CASE DeliverMarkProduced(n)
    BY <2>2 DEF DeliverMarkProduced, Deliver, NextMessage, Apply
  <2> QED
    BY <2>1, <2>2 DEF Delivery
<1>5. /\ delivered' = [delivered EXCEPT ![n] = @ + 1]
      /\ UNCHANGED <<position, polled, pc, batch, last, outbox, order, global,
                     log, logged>>
  BY <1>1 DEF Deliver, kafkaThread, derechoThread, history
<1> QED
  BY <1>2, <1>3, <1>4, <1>5 DEF Delivery, failureVars, membership

LEMMA DeliveryType ==
  ASSUME FailuresTypeOK, NEW n \in Node, Delivery(n)
  PROVE  FailuresTypeOK'
<1>1. PICK message : message = order[delivered[n] + 1]
  OBVIOUS
<1>2. /\ n \in up /\ delivered[n] \in 0..(Len(order) - 1) /\ Len(order) \in Nat
      /\ message \in AnyMessage
      /\ delivered' = [delivered EXCEPT ![n] = @ + 1]
      /\ events' = [events EXCEPT ![n] = Apply(@, message)]
      /\ UNCHANGED <<position, polled, pc, batch, last, outbox, order, global,
                     log, logged, up, failures, my_id, chunk, committed>>
  BY <1>1, DeliveryApplies
<1>3. Apply(events[n], message) \in Seq(MarkedEvent)
  <2>1. events[n] \in Seq(MarkedEvent)
    BY DEF FailuresTypeOK
  <2>2. CASE message.type = "add_event"
    <3>1. message.event \in MarkedEvent
      BY <1>2, <2>2 DEF AnyMessage
    <3> QED
      BY <2>1, <2>2, <3>1, AppendProperties DEF Apply, AddEvent
  <2>3. CASE message.type # "add_event"
    <3>1. message.derecho_id \in DerechoId
      BY <1>2, <2>3 DEF AnyMessage
    <3>2. events[n] \in Events(Ids, Node, DerechoId)
      BY <2>1, MarkedEvents
    <3>3. MarkProduced(events[n], Replicas, message.derecho_id, message.id)
            \in Events(Ids, Node, DerechoId)
      BY <3>1, <3>2, MarkProducedProperties
    <3> QED
      BY <2>3, <3>3, MarkedEvents DEF Apply
  <2> QED
    BY <2>2, <2>3
<1>4. /\ events' \in [Node -> Seq(MarkedEvent)]
      /\ \A m \in Node \ up' : events'[m] = <<>>
  BY <1>2, <1>3 DEF FailuresTypeOK
<1>5. /\ delivered' \in [Node -> Nat]
      /\ \A m \in Node : delivered'[m] <= Len(order')
  BY <1>2 DEF FailuresTypeOK
<1> QED
  BY <1>2, <1>4, <1>5 DEF FailuresTypeOK

----------------------------------------------------------------------------
(* Every step keeps the types.                                             *)
LEMMA FailuresNextType ==
  FailuresTypeOK /\ [FailuresNext]_allVars => FailuresTypeOK'
<1> SUFFICES ASSUME FailuresTypeOK, [FailuresNext]_allVars PROVE FailuresTypeOK'
  OBVIOUS
<1>1. ASSUME NEW n \in Node, Ends(n) PROVE FailuresTypeOK'
  <2>1. ASSUME Fail(n) PROVE failures' \in [Node -> Nat]
    BY <2>1 DEF Fail, FailuresTypeOK
  <2>2. CASE Crash(n)
    BY <2>1, <2>2, EndProcessType DEF Crash, FailuresTypeOK
  <2>3. CASE FlushFails(n)
    <3>1. Content(Head(batch[n])) \in Record
      <4>1. batch[n] \in Seq(MarkedEvent) /\ batch[n] # <<>>
        BY <2>3 DEF FlushFails, FailuresTypeOK
      <4>2. Head(batch[n]) \in MarkedEvent
        BY <4>1, HeadTailProperties
      <4> QED
        BY <4>2 DEF Content, MarkedEvent, Record
    <3>2. Append(global[n], Content(Head(batch[n]))) \in Seq(Record)
      BY <3>1, AppendProperties DEF FailuresTypeOK
    <3>3. global' \in [Node -> Seq(Record)]
      <4>1. global \in [Node -> Seq(Record)]
        BY DEF FailuresTypeOK
      <4>2. \/ global' = global
            \/ global' = [global EXCEPT ![n] = Append(@, Content(Head(batch[n])))]
        BY <2>3 DEF FlushFails
      <4> QED
        BY <3>2, <4>1, <4>2
    <3> QED
      BY <2>1, <2>3, <3>3, EndProcessType DEF FlushFails
  <2>4. CASE OversizedSend(n)
    BY <2>4, EndProcessType DEF OversizedSend, FailuresTypeOK
  <2> QED
    BY <1>1, <2>2, <2>3, <2>4 DEF Ends
<1>2. ASSUME NEW n \in Node, NEW p \in Partition, Commit(n, p) PROVE FailuresTypeOK'
  <2>1. committed' \in [Node -> [Partition -> Nat \cup {None}]]
    <3>1. position[n][p] \in Nat
      BY DEF FailuresTypeOK
    <3> QED
      BY <1>2, <3>1 DEF Commit, FailuresTypeOK
  <2> QED
    BY <1>2, <2>1 DEF Commit, FailuresTypeOK, vars, kafkaThread, derechoThread,
                      multicast, history, membership
<1>3. CASE FormGroup
  <2>1. events' \in [Node -> Seq(MarkedEvent)] /\ chunk' \in [Node -> Int]
    BY <1>3, SettingsAssumption DEF FormGroup, FailuresTypeOK
  <2> QED
    BY <1>3, <2>1, StartProcessesType DEF FormGroup
<1>4. CASE Join
  <2> DEFINE joining == Node \ up
  <2>1. StartProcesses(joining)
    BY <1>4 DEF Join
  <2>2. PICK donor \in up :
          /\ events' = Afresh(events, joining, events[donor])
          /\ chunk' = Afresh(chunk, joining, Deserialized(chunk[donor]))
    BY <1>4 DEF Join
  <2>3. donor \in Node /\ chunk[donor] \in Int
    BY <2>2 DEF FailuresTypeOK
  <2>4. events' \in [Node -> Seq(MarkedEvent)]
    BY <2>2, <2>3 DEF FailuresTypeOK, Afresh
  <2>5. Deserialized(chunk[donor]) \in Int
    BY <2>3, FailuresAssumption DEF Deserialized
  <2>6. chunk' \in [Node -> Int]
    BY <2>2, <2>5 DEF FailuresTypeOK, Afresh
  <2> QED
    BY <2>1, <2>4, <2>6, StartProcessesType
<1>5. CASE UNCHANGED allVars
  BY <1>5 DEF FailuresTypeOK, allVars, vars, failureVars, membership, kafkaThread,
              derechoThread, multicast, history
<1> QED
  BY <1>1, <1>2, <1>3, <1>4, <1>5, KafkaThreadType, DerechoThreadType, OrderType,
     DeliveryType DEF FailuresNext

(* Whatever fails and restarts, every variable keeps its type, Derecho ids *)
(* stay distinct, and of a process that has ended nothing is left at work. *)
THEOREM FailuresTypeCorrect == FailuresSpec => []FailuresTypeOK
BY FailuresInitType, FailuresNextType, PTL DEF FailuresSpec

----------------------------------------------------------------------------
(* The list after i messages is states[i], on every replica, as long as    *)
(* somebody who is up has been there: a replica that joined got it from    *)
(* another one, and one that was formed anew starts a history of its own.  *)
IsHistory(states) ==
  /\ \A n \in up : events[n] = states[delivered[n]]
  /\ \A i \in 0..(Len(order) - 1) :
       (\E n \in up : delivered[n] <= i)
         => states[i + 1] = Apply(states[i], order[i + 1])

OneHistory == \E states : IsHistory(states)

LEMMA InitHistory == FailuresInit => OneHistory
<1> SUFFICES ASSUME FailuresInit PROVE IsHistory([i \in {0} |-> <<>>])
  BY DEF OneHistory
<1>1. \A n \in up : events[n] = <<>> /\ delivered[n] = 0
  BY DEF FailuresInit, Init
<1>2. 0..(Len(order) - 1) = {}
  BY DEF FailuresInit, Init
<1> QED
  BY <1>1, <1>2 DEF IsHistory

(* The order grows at its end.                                             *)
LEMMA OrderHistory ==
  ASSUME FailuresTypeOK, NEW states, IsHistory(states), NEW n \in Node, Order(n)
  PROVE  OneHistory'
<1> DEFINE top == Len(order) + 1
           head == Head(outbox[n])
<1>0. PICK longer :
        longer = [i \in 0..top |-> IF i = top THEN Apply(states[top - 1], head)
                                              ELSE states[i]]
  OBVIOUS
<1>1. /\ outbox[n] \in Seq(AnyMessage) /\ outbox[n] # <<>> /\ order \in Seq(AnyMessage)
      /\ order' = Append(order, head)
      /\ UNCHANGED <<up, events, delivered>>
  BY DEF FailuresTypeOK, Order, OrderMessage, failureVars, membership
<1>2. head \in AnyMessage
  BY <1>1, HeadTailProperties
<1> HIDE DEF head
<1>3. /\ Len(order) \in Nat /\ Len(order') = top
      /\ order'[top] = head
      /\ \A i \in 1..Len(order) : order'[i] = order[i]
  BY <1>1, <1>2, AppendProperties
<1>4. \A m \in up : delivered[m] \in 0..Len(order)
  BY <1>3 DEF FailuresTypeOK
<1>5. \A m \in up' : events'[m] = longer[delivered'[m]]
  BY <1>0, <1>1, <1>3, <1>4 DEF IsHistory
<1>6. ASSUME NEW i \in 0..(Len(order') - 1), \E m \in up' : delivered'[m] <= i
      PROVE  longer[i + 1] = Apply(longer[i], order'[i + 1])
  <2>1. CASE i = Len(order)
    BY <1>0, <1>3, <2>1
  <2>2. CASE i \in 0..(Len(order) - 1)
    <3>1. states[i + 1] = Apply(states[i], order[i + 1])
      BY <1>1, <1>6, <2>2 DEF IsHistory
    <3>2. order'[i + 1] = order[i + 1]
      BY <1>3, <2>2
    <3>3. longer[i + 1] = states[i + 1] /\ longer[i] = states[i]
      BY <1>0, <1>3, <2>2
    <3> QED
      BY <3>1, <3>2, <3>3
  <2> QED
    BY <1>3, <2>1, <2>2
<1>7. IsHistory(longer)'
  BY <1>5, <1>6 DEF IsHistory, Apply, AddEvent
<1> QED
  BY <1>7 DEF OneHistory, IsHistory

(* A replica takes the step that all take from this place.                 *)
LEMMA DeliveryHistory ==
  ASSUME FailuresTypeOK, NEW states, IsHistory(states), NEW n \in Node, Delivery(n)
  PROVE  IsHistory(states)'
<1>1. PICK d, message : d = delivered[n] /\ message = order[d + 1]
  OBVIOUS
<1>2. /\ n \in up /\ d \in 0..(Len(order) - 1)
      /\ delivered' = [delivered EXCEPT ![n] = @ + 1]
      /\ events' = [events EXCEPT ![n] = Apply(@, message)]
      /\ UNCHANGED <<order, up>>
  BY <1>1, DeliveryApplies
<1>3. /\ delivered'[n] = d + 1 /\ events'[n] = Apply(events[n], message)
      /\ \A m \in Node : m # n => delivered'[m] = delivered[m] /\ events'[m] = events[m]
  BY <1>1, <1>2 DEF FailuresTypeOK
<1>4. events'[n] = states[d + 1]
  BY <1>1, <1>2, <1>3 DEF IsHistory
<1>5. \A m \in up' : events'[m] = states[delivered'[m]]
  BY <1>2, <1>3, <1>4 DEF IsHistory, FailuresTypeOK
<1>6. ASSUME NEW i \in 0..(Len(order') - 1), NEW m \in up', delivered'[m] <= i
      PROVE  delivered[m] <= i
  BY <1>1, <1>2, <1>3, <1>6 DEF FailuresTypeOK
<1>7. \A i \in 0..(Len(order') - 1) :
        (\E m \in up' : delivered'[m] <= i)
          => states[i + 1] = Apply(states[i], order'[i + 1])
  BY <1>2, <1>6 DEF IsHistory
<1> QED
  BY <1>5, <1>7 DEF IsHistory, Apply, AddEvent

(* Whoever joins was given what belongs to the end of the order.           *)
LEMMA JoinHistory ==
  ASSUME FailuresTypeOK, NEW states, IsHistory(states), Join
  PROVE  IsHistory(states)'
<1>1. PICK joining, end : joining = Node \ up /\ end = Len(order)
  OBVIOUS
<1>2. /\ up' = Node /\ \A m \in up : delivered[m] = end
      /\ delivered' = Afresh(delivered, joining, end)
      /\ UNCHANGED order /\ end \in Nat
  <2>1. order \in Seq(AnyMessage)
    BY DEF FailuresTypeOK
  <2>2. Len(order) \in Nat
    BY <2>1
  <2> QED
    BY <1>1, <2>2 DEF Join, StartProcesses
<1>3. PICK donor \in up : events' = Afresh(events, joining, events[donor])
  BY <1>1 DEF Join
<1>4. \A m \in up : events[m] = states[end]
  BY <1>2 DEF IsHistory
<1>5. \A m \in Node : events'[m] = states[end] /\ delivered'[m] = end
  BY <1>1, <1>2, <1>3, <1>4 DEF Afresh
<1>6. ASSUME NEW i \in 0..(Len(order') - 1), NEW m \in up' PROVE ~(delivered'[m] <= i)
  <2>1. delivered'[m] = end /\ Len(order') = end
    BY <1>1, <1>2, <1>5
  <2> QED
    BY <1>2, <2>1
<1> QED
  BY <1>2, <1>5, <1>6 DEF IsHistory, Apply, AddEvent

(* Without anybody left the lists are empty, and a new history begins.     *)
LEMMA FormGroupHistory ==
  ASSUME FailuresTypeOK, FormGroup
  PROVE  OneHistory'
<1>1. PICK end : end = Len(order)
  OBVIOUS
<1>2. /\ up = {} /\ up' = Node /\ UNCHANGED <<order, events>> /\ end \in Nat
      /\ \A m \in Node : delivered'[m] = end
  BY <1>1 DEF FormGroup, StartProcesses, Afresh, FailuresTypeOK
<1>3. \A m \in Node : events'[m] = <<>>
  BY <1>2 DEF FailuresTypeOK
<1>4. \A i \in 0..(Len(order') - 1) : ~\E m \in up' : delivered'[m] <= i
  BY <1>1, <1>2
<1>5. PICK empty : empty = [i \in {end} |-> <<>>]
  OBVIOUS
<1>6. IsHistory(empty)'
  BY <1>2, <1>3, <1>4, <1>5 DEF IsHistory, Apply, AddEvent
<1> QED
  BY <1>6 DEF OneHistory, IsHistory

LEMMA NextHistory ==
  ASSUME FailuresTypeOK, OneHistory, [FailuresNext]_allVars
  PROVE  OneHistory'
<1> USE DEF kafkaThread, derechoThread, multicast, history, membership, failureVars
<1>1. PICK states : IsHistory(states)
  BY DEF OneHistory
<1>2. ASSUME UNCHANGED <<up, events, delivered, order>> PROVE OneHistory'
  BY <1>1, <1>2 DEF OneHistory, IsHistory
<1>3. ASSUME NEW n \in Node, KafkaThread(n) PROVE OneHistory'
  BY <1>2, <1>3 DEF KafkaThread, KafkaPoll, Send, SendAddEvent, OrderedSend
<1>4. ASSUME NEW n \in Node, DerechoThread(n) PROVE OneHistory'
  BY <1>2, <1>4 DEF DerechoThread, AcceptReply, ReplicateStored, ReplicateRejected,
                    ReplicateEvent, GoOn, SendMark, OrderedSend
<1>5. ASSUME NEW n \in Node, Delivery(n) PROVE OneHistory'
  BY <1>1, <1>5, DeliveryHistory DEF OneHistory, IsHistory
<1>6. ASSUME NEW n \in Node, Ends(n) PROVE OneHistory'
  <2>1. EndProcess(n)
    BY <1>6 DEF Ends, Crash, FlushFails, OversizedSend
  <2>2. PICK gone : /\ up' = up \ gone /\ events' = Afresh(events, gone, <<>>)
                    /\ UNCHANGED <<order, delivered>>
    BY <2>1 DEF EndProcess
  <2>3. \A m \in up' : m \in up /\ events'[m] = events[m]
    BY <2>2 DEF FailuresTypeOK, Afresh
  <2>4. IsHistory(states)'
    BY <1>1, <2>2, <2>3 DEF IsHistory, Apply, AddEvent
  <2> QED
    BY <2>4 DEF OneHistory, IsHistory
<1>7. ASSUME NEW n \in Node, NEW p \in Partition, Commit(n, p) PROVE OneHistory'
  BY <1>2, <1>7 DEF Commit, vars
<1>8. CASE UNCHANGED allVars
  BY <1>2, <1>8 DEF allVars, vars
<1>9. CASE Join
  BY <1>1, <1>9, JoinHistory DEF OneHistory, IsHistory
<1> QED
  BY <1>1, <1>3, <1>4, <1>5, <1>6, <1>7, <1>8, <1>9, OrderHistory, FormGroupHistory
     DEF FailuresNext

(* Replicas that have applied the same messages hold the same list, marks  *)
(* included, whoever crashed and joined in between: the group replicates a *)
(* deterministic object, and the state that a joiner gets is complete      *)
(* (serializable_objects.hpp:182-188).                                     *)
THEOREM ReplicasStayAlike == FailuresSpec => []ReplicasAgree
<1>1. OneHistory => ReplicasAgree
  BY DEF OneHistory, IsHistory, ReplicasAgree
<1>2. FailuresTypeOK /\ OneHistory /\ [FailuresNext]_allVars => OneHistory'
  BY NextHistory
<1> QED
  BY <1>1, <1>2, InitHistory, FailuresTypeCorrect, PTL DEF FailuresSpec

----------------------------------------------------------------------------
(* Nobody fails, and the clusters and the multicast take what they get.    *)
NothingFails ==
  /\ Fallible = {}
  /\ Oversized = {}
  /\ \A n \in Node : Rejected[n] = {}

(* Then the instances stay what main made them.                            *)
AsAtStart == up = Node /\ my_id = [n \in Node |-> n] /\ chunk = EventChunk

LEMMA UneventfulStep ==
  ASSUME NothingFails, AsAtStart, [FailuresNext]_allVars
  PROVE  AsAtStart' /\ [Next]_vars
<1>1. ASSUME NEW n \in Node
      PROVE  /\ QueryReply(n, chunk[n], my_id[n]) = QueryResult(n)
             /\ SendMark(n, my_id[n]) = SendMarkProduced(n)
  BY DEF AsAtStart, QueryResult, SendMarkProduced
<1>2. ASSUME NEW n \in Node, KafkaThread(n) PROVE AsAtStart' /\ Next
  BY <1>2 DEF KafkaThread, Send, failureVars, membership, AsAtStart, Next, KafkaPolling
<1>3. ASSUME NEW n \in Node, DerechoThread(n) PROVE AsAtStart' /\ Next
  <2>1. ~ReplicateRejected(n)
    BY DEF ReplicateRejected, NothingFails
  <2>2. DerechoPolling(n)
    BY <1>1, <1>3, <2>1 DEF DerechoThread, ReplicateStored, DerechoPolling, QueryEvents
  <2>3. AsAtStart'
    BY <1>3 DEF DerechoThread, failureVars, membership, AsAtStart
  <2> QED
    BY <2>2, <2>3 DEF Next
<1>4. ASSUME NEW n \in Node, Order(n) \/ Delivery(n) PROVE AsAtStart' /\ Next
  BY <1>4 DEF Order, Delivery, failureVars, membership, AsAtStart, Next, Multicast
<1>5. ASSUME NEW n \in Node PROVE ~Ends(n)
  BY DEF Ends, Crash, FlushFails, Fail, OversizedSend, NothingFails
<1>6. ~FormGroup /\ ~Join
  BY ReplicasAssumption DEF FormGroup, Join, StartProcesses, AsAtStart
<1>7. ASSUME NEW n \in Node, NEW p \in Partition, Commit(n, p)
      PROVE  AsAtStart' /\ UNCHANGED vars
  BY <1>7 DEF Commit, membership, AsAtStart
<1>8. CASE UNCHANGED allVars
  BY <1>8 DEF allVars, failureVars, membership, AsAtStart
<1> QED
  BY <1>2, <1>3, <1>4, <1>5, <1>6, <1>7, <1>8 DEF FailuresNext

(* The two models of the group are one: where nothing fails the threads of *)
(* KdsyncFailures, with all that a restart may change (the id and chunk of *)
(* kdsync.cpp:203 and serializable_objects.hpp:183), do what those of      *)
(* Kdsync do, so that the theorems on Kdsync are about this group as well. *)
THEOREM WithoutFailuresItIsKdsync ==
  ASSUME NothingFails PROVE FailuresSpec => Spec
<1>1. FailuresInit => Init /\ AsAtStart
  BY DEF FailuresInit, AsAtStart
<1>2. AsAtStart /\ [FailuresNext]_allVars => AsAtStart' /\ [Next]_vars
  BY UneventfulStep
<1> QED
  BY <1>1, <1>2, PTL DEF FailuresSpec, Spec

----------------------------------------------------------------------------
(* Whatever fails, and whatever the ids: the list of a replica is the last *)
(* part of the first added events of contents, the marks of an instance    *)
(* are on a prefix of it, and no event is marked by all.                   *)
IsSound(list, contents, added) ==
  /\ Len(list) <= added
  /\ \A j \in DOMAIN list : Content(list[j]) = contents[(added - Len(list)) + j]
  /\ Nested(list)
  /\ Incomplete(list, Replicas)

(* What waits to be added carries no mark.                                 *)
NothingIsMarkedYet ==
  \A n \in Node :
     /\ polled[n] # Nil => polled[n].replicas = {}
     /\ \A j \in DOMAIN outbox[n] :
          outbox[n][j].type = "add_event" => outbox[n][j].event.replicas = {}

ListsAreSound ==
  /\ NothingIsMarkedYet
  /\ LogFollowsOrder
  /\ \A n \in Node : IsSound(events[n], log, AddedCount(n))

LEMMA Instances ==
  /\ IsFiniteSet(DerechoId)
  /\ Replicas \in Nat /\ Replicas > 0
<1>1. IsFiniteSet(DerechoId)
  BY ReplicasAssumption, FailuresAssumption, FS_Union DEF DerechoId
<1>2. Cardinality(Node) \in Nat /\ Cardinality(Node) # 0
  BY ReplicasAssumption, FS_CardinalityType, FS_EmptySet
<1> QED
  BY <1>1, <1>2, ReplicasAssumption

LEMMA EmptyIsSound ==
  ASSUME NEW contents, NEW added \in Nat
  PROVE  IsSound(<<>>, contents, added)
BY DEF IsSound, Nested, Incomplete

(* An unmarked event at the end of a list.                                 *)
LEMMA AddedIsSound ==
  ASSUME NEW list \in Seq(MarkedEvent), NEW contents, NEW added \in Nat,
         IsSound(list, contents, added),
         NEW event \in MarkedEvent, event.replicas = {},
         contents[added + 1] = Content(event)
  PROVE  IsSound(AddEvent(list, event), contents, added + 1)
<1>1. PICK result, length, before :
        /\ result = AddEvent(list, event) /\ length = Len(list)
        /\ before = added - length
  OBVIOUS
<1>2. /\ length \in Nat /\ length <= added /\ before \in Nat
      /\ DOMAIN list = 1..length
  BY <1>1 DEF IsSound
<1>3. /\ Len(result) = length + 1 /\ DOMAIN result = 1..(length + 1)
      /\ \A j \in 1..length : result[j] = list[j]
      /\ result[length + 1] = event
  <2>1. /\ result \in Seq(MarkedEvent) /\ Len(result) = length + 1
        /\ \A j \in 1..length : result[j] = list[j]
        /\ result[length + 1] = event
    BY <1>1, AppendProperties DEF AddEvent
  <2> QED
    BY <2>1
<1>4. (added + 1) - Len(result) = before /\ Len(result) <= added + 1
  BY <1>1, <1>2, <1>3
<1>5. ASSUME NEW j \in DOMAIN result PROVE Content(result[j]) = contents[before + j]
  <2>1. CASE j \in 1..length
    BY <1>1, <1>2, <1>3, <2>1 DEF IsSound
  <2>2. CASE j = length + 1
    <3>1. before + j = added + 1
      BY <1>1, <1>2, <2>2
    <3> QED
      BY <1>3, <2>2, <3>1
  <2> QED
    BY <1>2, <1>3, <2>1, <2>2
<1>6. Nested(result)
  <2> SUFFICES ASSUME NEW i \in 1..(length + 1), NEW j \in 1..(length + 1), i < j
               PROVE  result[j].replicas \subseteq result[i].replicas
    BY <1>3 DEF Nested
  <2>1. CASE j = length + 1
    BY <1>3, <2>1
  <2>2. CASE j # length + 1
    <3>1. i \in 1..length /\ j \in 1..length
      BY <1>2, <2>2
    <3> QED
      BY <1>2, <1>3, <3>1 DEF IsSound, Nested
  <2> QED
    BY <2>1, <2>2
<1>7. Incomplete(result, Replicas)
  <2> SUFFICES ASSUME NEW i \in 1..(length + 1)
               PROVE  Cardinality(result[i].replicas) < Replicas
    BY <1>3 DEF Incomplete
  <2>1. CASE i = length + 1
    BY <1>3, <2>1, Instances, FS_EmptySet
  <2>2. CASE i \in 1..length
    BY <1>2, <1>3, <2>2 DEF IsSound, Incomplete
  <2> QED
    BY <1>2, <2>1, <2>2
<1> QED
  BY <1>1, <1>4, <1>5, <1>6, <1>7 DEF IsSound

(* A mark erases the beginning of a list, and nothing that not all marked. *)
LEMMA MarkedIsSound ==
  ASSUME NEW list \in Seq(MarkedEvent), NEW contents, NEW added \in Nat,
         IsSound(list, contents, added), NEW d \in DerechoId, NEW id
  PROVE  /\ IsSound(MarkProduced(list, Replicas, d, id), contents, added)
         /\ \A i \in 1..(Len(list) - Len(MarkProduced(list, Replicas, d, id))) :
              Cardinality(list[i].replicas \cup {d}) = Replicas
<1>1. PICK result, length, before, k :
        /\ result = MarkProduced(list, Replicas, d, id) /\ length = Len(list)
        /\ before = added - length /\ k = LastCompleted(list, Replicas, d, id)
  OBVIOUS
<1>2. /\ length \in Nat /\ length <= added /\ before \in Nat
      /\ DOMAIN list = 1..length /\ list \in Events(Ids, Node, DerechoId)
      /\ Nested(list) /\ Incomplete(list, Replicas)
  BY <1>1, MarkedEvents DEF IsSound
<1>3. k \in 0..length
  BY <1>1, <1>2, LastCompletedProperties
<1>4. /\ Len(result) = length - k /\ DOMAIN result = 1..(length - k)
      /\ \A i \in 1..(length - k) : result[i] = Marked(list, d, id)[i + k]
  <2>1. /\ result \in Events(Ids, Node, DerechoId) /\ Len(result) = length - k
        /\ \A i \in 1..(length - k) : result[i] = Marked(list, d, id)[i + k]
    BY <1>1, <1>2, MarkProducedProperties
  <2>2. DOMAIN result = 1..Len(result)
    BY <2>1 DEF Events
  <2> QED
    BY <2>1, <2>2
<1>5. added - Len(result) = before + k /\ Len(result) <= added
  BY <1>1, <1>2, <1>3, <1>4
<1>6. ASSUME NEW j \in 1..(length - k)
      PROVE  Content(result[j]) = contents[(before + k) + j]
  <2>1. j + k \in 1..length /\ (before + k) + j = before + (j + k)
    BY <1>2, <1>3
  <2>2. /\ Marked(list, d, id)[j + k].id = list[j + k].id
        /\ Marked(list, d, id)[j + k].payload = list[j + k].payload
    BY <1>1, <1>2, <2>1, MarkedProperties
  <2>3. Content(list[j + k]) = contents[before + (j + k)]
    BY <1>1, <1>2, <2>1 DEF IsSound
  <2> QED
    BY <1>4, <2>1, <2>2, <2>3 DEF Content
<1>7. Nested(result) /\ Incomplete(result, Replicas)
  BY <1>1, <1>2, Instances, MarkProducedIsNested, MarkProducedIsIncomplete
<1>8. ASSUME NEW i \in 1..(length - Len(result))
      PROVE  Cardinality(list[i].replicas \cup {d}) = Replicas
  <2>1. i \in 1..k
    BY <1>2, <1>3, <1>4
  <2> QED
    BY <1>1, <1>2, <2>1, Instances, ErasedAreCompleted
<1> QED
  BY <1>1, <1>4, <1>5, <1>6, <1>7, <1>8 DEF IsSound

(* A list is the same part of a longer log.                                *)
LEMMA LongerLogIsSound ==
  ASSUME NEW list \in Seq(MarkedEvent), NEW contents, NEW longer, NEW length \in Nat,
         NEW added \in 0..length, IsSound(list, contents, added),
         \A k \in 1..length : longer[k] = contents[k]
  PROVE  IsSound(list, longer, added)
<1>1. PICK before, len : before = added - Len(list) /\ len = Len(list)
  OBVIOUS
<1>2. len \in Nat /\ before \in Nat /\ added = before + len /\ DOMAIN list = 1..len
  BY <1>1 DEF IsSound
<1>3. \A j \in 1..len : before + j \in 1..length
  BY <1>2
<1> QED
  BY <1>1, <1>2, <1>3 DEF IsSound

(* What of the log a replica has been given.                               *)
LEMMA AddsAreCounted ==
  ASSUME FailuresTypeOK, LogFollowsOrder
  PROVE  /\ Len(log) \in Nat /\ Len(order) \in Nat /\ LogLen(0) = 0
         /\ \A i \in 0..Len(order) : LogLen(i) \in 0..Len(log)
         /\ \A n \in Node : /\ delivered[n] \in 0..Len(order)
                            /\ AddedCount(n) \in 0..Len(log)
<1>1. /\ Len(log) \in Nat /\ Len(order) \in Nat /\ logged \in Seq(Nat)
      /\ Len(logged) = Len(order)
      /\ \A n \in Node : delivered[n] \in 0..Len(order)
  BY DEF FailuresTypeOK, LogFollowsOrder
<1>2. ASSUME NEW i \in 0..Len(order) PROVE LogLen(i) \in 0..Len(log)
  <2>1. LogLen(i) \in Nat
    <3>1. CASE i = 0
      BY <3>1 DEF LogLen
    <3>2. CASE i # 0
      <4>1. i \in 1..Len(logged)
        BY <1>1, <3>2
      <4> QED
        BY <1>1, <3>2, <4>1, ElementOfSeq DEF LogLen
    <3> QED
      BY <3>1, <3>2
  <2>2. LogLen(i) <= LogLen(Len(order)) /\ LogLen(Len(order)) = Len(log)
    BY <1>1 DEF LogFollowsOrder
  <2> QED
    BY <1>1, <2>1, <2>2
<1> QED
  BY <1>1, <1>2 DEF AddedCount, LogLen

LEMMA InitIsSound == FailuresInit => ListsAreSound
<1> SUFFICES ASSUME FailuresInit PROVE ListsAreSound
  OBVIOUS
<1>1. /\ log = <<>> /\ logged = <<>> /\ order = <<>>
      /\ \A n \in Node : /\ events[n] = <<>> /\ delivered[n] = 0
                         /\ polled[n] = Nil /\ outbox[n] = <<>>
  BY DEF FailuresInit, Init
<1>2. NothingIsMarkedYet
  BY <1>1 DEF NothingIsMarkedYet
<1>3. LogFollowsOrder
  <2>1. /\ Len(order) = 0 /\ Len(logged) = 0 /\ Len(log) = 0 /\ 0..Len(order) = {0}
        /\ DOMAIN order = {} /\ LogLen(0) = 0
    BY <1>1 DEF LogLen
  <2> QED
    BY <2>1 DEF LogFollowsOrder
<1>4. \A n \in Node : IsSound(events[n], log, AddedCount(n))
  BY <1>1, EmptyIsSound DEF AddedCount, LogLen
<1> QED
  BY <1>2, <1>3, <1>4 DEF ListsAreSound

(* A step that moves no message and no list.                               *)
LEMMA SoundnessStays ==
  ASSUME ListsAreSound, UNCHANGED <<order, log, logged, delivered, events>>,
         NothingIsMarkedYet'
  PROVE  ListsAreSound'
<1>1. LogFollowsOrder'
  BY DEF ListsAreSound, LogFollowsOrder, LogLen, Content
<1>2. \A n \in Node : IsSound(events[n], log, AddedCount(n))'
  BY DEF ListsAreSound, AddedCount, LogLen, IsSound, Nested, Incomplete, Content
<1> QED
  BY <1>1, <1>2 DEF ListsAreSound

(* What a message that an instance sends adds to its outbox.               *)
LEMMA SentIsUnmarked ==
  ASSUME FailuresTypeOK, NothingIsMarkedYet, NEW n \in Node,
         NEW message \in AnyMessage,
         outbox' = [outbox EXCEPT ![n] = Append(@, message)],
         message.type = "add_event" => message.event.replicas = {},
         \A m \in Node : polled'[m] \in {polled[m], Nil}
  PROVE  NothingIsMarkedYet'
<1>1. PICK length : length = Len(outbox[n])
  OBVIOUS
<1>2. outbox[n] \in Seq(AnyMessage) /\ length \in Nat /\ DOMAIN outbox[n] = 1..length
  BY <1>1 DEF FailuresTypeOK
<1>3. /\ outbox'[n] = Append(outbox[n], message)
      /\ \A m \in Node : m # n => outbox'[m] = outbox[m]
  BY DEF FailuresTypeOK
<1>4. /\ DOMAIN outbox'[n] = 1..(length + 1)
      /\ \A j \in 1..length : outbox'[n][j] = outbox[n][j]
      /\ outbox'[n][length + 1] = message
  <2>1. /\ outbox'[n] \in Seq(AnyMessage) /\ Len(outbox'[n]) = length + 1
        /\ \A j \in 1..length : outbox'[n][j] = outbox[n][j]
        /\ outbox'[n][length + 1] = message
    BY <1>1, <1>2, <1>3, AppendProperties
  <2>2. DOMAIN outbox'[n] = 1..Len(outbox'[n])
    BY <2>1, LenProperties
  <2> QED
    BY <2>1, <2>2
<1> SUFFICES ASSUME NEW m \in Node, NEW j \in DOMAIN outbox'[m],
                    outbox'[m][j].type = "add_event"
             PROVE  outbox'[m][j].event.replicas = {}
  BY DEF NothingIsMarkedYet
<1>5. CASE m # n
  BY <1>3, <1>5 DEF NothingIsMarkedYet
<1>6. CASE m = n
  <2>1. CASE j \in 1..length
    BY <1>2, <1>4, <1>6, <2>1 DEF NothingIsMarkedYet
  <2>2. CASE j = length + 1
    BY <1>4, <1>6, <2>2
  <2> QED
    BY <1>2, <1>4, <1>6, <2>1, <2>2
<1> QED
  BY <1>5, <1>6

LEMMA KafkaThreadIsSound ==
  ASSUME FailuresTypeOK, ListsAreSound, NEW n \in Node, KafkaThread(n)
  PROVE  ListsAreSound'
<1>1. UNCHANGED <<order, log, logged, delivered, events>>
  BY DEF KafkaThread, KafkaPoll, Send, SendAddEvent, OrderedSend, multicast, history
<1>2. CASE \E p \in Partition : KafkaPoll(n, p)
  <2>1. PICK p \in Partition : KafkaPoll(n, p)
    BY <1>2
  <2>2. /\ outbox' = outbox
        /\ polled' = [polled EXCEPT ![n] = NewEvent(n, p, position[n][p])]
    BY <2>1 DEF KafkaPoll, multicast
  <2>3. \A m \in Node : polled'[m] # Nil => polled'[m].replicas = {}
    BY <2>2 DEF NewEvent, ListsAreSound, NothingIsMarkedYet, FailuresTypeOK
  <2>4. NothingIsMarkedYet'
    BY <2>2, <2>3 DEF ListsAreSound, NothingIsMarkedYet
  <2> QED
    BY <1>1, <2>4, SoundnessStays
<1>3. CASE Send(n)
  <2>1. /\ outbox' = [outbox EXCEPT ![n] = Append(@, AddMessage(polled[n]))]
        /\ polled' = [polled EXCEPT ![n] = Nil] /\ polled[n] # Nil
    BY <1>3 DEF Send, SendAddEvent, OrderedSend
  <2>2. AddMessage(polled[n]) \in AnyMessage
    BY <2>1 DEF AddMessage, AnyMessage, FailuresTypeOK
  <2>3. AddMessage(polled[n]).event.replicas = {}
    BY <2>1 DEF AddMessage, ListsAreSound, NothingIsMarkedYet
  <2>4. \A m \in Node : polled'[m] \in {polled[m], Nil}
    BY <2>1 DEF FailuresTypeOK
  <2>5. NothingIsMarkedYet'
    BY <2>1, <2>2, <2>3, <2>4, SentIsUnmarked DEF ListsAreSound
  <2> QED
    BY <1>1, <2>5, SoundnessStays
<1> QED
  BY <1>2, <1>3 DEF KafkaThread

LEMMA DerechoThreadIsSound ==
  ASSUME FailuresTypeOK, ListsAreSound, NEW n \in Node, DerechoThread(n)
  PROVE  ListsAreSound'
<1>1. UNCHANGED <<order, log, logged, delivered, events, polled>>
  BY DEF DerechoThread, AcceptReply, ReplicateStored, ReplicateRejected,
         ReplicateEvent, GoOn, SendMark, OrderedSend, multicast, history, kafkaThread
<1>2. CASE SendMark(n, my_id[n])
  <2>1. /\ outbox' = [outbox EXCEPT ![n] = Append(@, MarkMessage(my_id[n], last[n]))]
        /\ last[n] \in Ids /\ my_id[n] \in DerechoId
    BY <1>2 DEF SendMark, OrderedSend, FailuresTypeOK
  <2>2. MarkMessage(my_id[n], last[n]) \in AnyMessage
    BY <2>1 DEF MarkMessage, AnyMessage
  <2>3. MarkMessage(my_id[n], last[n]).type # "add_event"
    BY DEF MarkMessage
  <2>4. NothingIsMarkedYet'
    BY <1>1, <2>1, <2>2, <2>3, SentIsUnmarked DEF ListsAreSound
  <2> QED
    BY <1>1, <2>4, SoundnessStays
<1>3. CASE UNCHANGED outbox
  BY <1>1, <1>3, SoundnessStays DEF ListsAreSound, NothingIsMarkedYet
<1>4. UNCHANGED outbox \/ SendMark(n, my_id[n])
  BY DEF DerechoThread, AcceptReply, ReplicateStored, ReplicateRejected,
         ReplicateEvent, GoOn, multicast
<1> QED
  BY <1>2, <1>3, <1>4

(* Who ends leaves an empty list and no messages.                          *)
LEMMA EndIsSound ==
  ASSUME FailuresTypeOK, ListsAreSound, NEW n \in Node, EndProcess(n)
  PROVE  ListsAreSound'
<1>1. PICK gone : /\ polled' = Afresh(polled, gone, Nil)
                  /\ outbox' = Afresh(outbox, gone, <<>>)
                  /\ events' = Afresh(events, gone, <<>>)
                  /\ UNCHANGED <<order, delivered, log, logged>>
  BY DEF EndProcess, history
<1>2. NothingIsMarkedYet'
  BY <1>1 DEF ListsAreSound, NothingIsMarkedYet, Afresh
<1>3. LogFollowsOrder' /\ \A m \in Node : AddedCount(m)' = AddedCount(m)
  BY <1>1 DEF ListsAreSound, LogFollowsOrder, LogLen, Content, AddedCount
<1>4. ASSUME NEW m \in Node PROVE IsSound(events'[m], log', AddedCount(m)')
  <2>1. CASE m \in gone
    <3>1. AddedCount(m) \in Nat
      BY AddsAreCounted DEF ListsAreSound
    <3> QED
      BY <1>1, <1>3, <2>1, <3>1, EmptyIsSound DEF Afresh
  <2>2. CASE m \notin gone
    BY <1>1, <1>3, <2>2 DEF ListsAreSound, Afresh
  <2> QED
    BY <2>1, <2>2
<1> QED
  BY <1>2, <1>3, <1>4 DEF ListsAreSound, IsSound, Nested, Incomplete, Content

(* Who starts is given the list of one that has applied all messages, or   *)
(* an empty one.                                                           *)
LEMMA StartIsSound ==
  ASSUME FailuresTypeOK, ListsAreSound, FormGroup \/ Join
  PROVE  ListsAreSound'
<1>1. PICK joining, end : joining = Node \ up /\ end = Len(order)
  OBVIOUS
<1>2. /\ StartProcesses(joining)
      /\ UNCHANGED <<polled, outbox, order, log, logged>>
      /\ delivered' = Afresh(delivered, joining, end)
  BY <1>1 DEF FormGroup, Join, StartProcesses, history
<1>3. NothingIsMarkedYet' /\ LogFollowsOrder'
  BY <1>2 DEF ListsAreSound, NothingIsMarkedYet, LogFollowsOrder, LogLen, Content
<1>4. LogLen(end)' = LogLen(end) /\ LogLen(end) \in Nat
  BY <1>1, <1>2, AddsAreCounted DEF ListsAreSound, LogLen
<1>5. ASSUME NEW m \in Node, m \in joining
      PROVE  IsSound(events'[m], log', AddedCount(m)')
  <2>1. AddedCount(m)' = LogLen(end)
    BY <1>2, <1>4, <1>5 DEF AddedCount, Afresh
  <2>2. CASE FormGroup
    <3>1. events'[m] = <<>>
      BY <2>2, <1>1, <1>5 DEF FormGroup, FailuresTypeOK
    <3> QED
      BY <1>4, <2>1, <3>1, EmptyIsSound
  <2>3. CASE Join
    <3>1. PICK donor \in up : events' = Afresh(events, joining, events[donor])
      BY <1>1, <2>3 DEF Join
    <3>2. donor \in Node /\ delivered[donor] = end
      BY <1>1, <2>3, <3>1 DEF Join, FailuresTypeOK
    <3>3. IsSound(events[donor], log, LogLen(end))
      BY <3>2 DEF ListsAreSound, AddedCount
    <3>4. events'[m] = events[donor]
      BY <1>5, <3>1 DEF Afresh
    <3> QED
      BY <1>2, <2>1, <3>3, <3>4
  <2> QED
    BY <2>2, <2>3
<1>6. ASSUME NEW m \in Node, m \notin joining
      PROVE  IsSound(events'[m], log', AddedCount(m)')
  <2>1. AddedCount(m)' = AddedCount(m)
    BY <1>2, <1>6 DEF AddedCount, Afresh, LogLen
  <2>2. events'[m] = events[m]
    <3>1. CASE FormGroup
      BY <3>1 DEF FormGroup
    <3>2. CASE Join
      BY <1>1, <1>6, <3>2 DEF Join, Afresh
    <3> QED
      BY <3>1, <3>2
  <2> QED
    BY <1>2, <2>1, <2>2 DEF ListsAreSound
<1>7. \A m \in Node : IsSound(events'[m], log', AddedCount(m)')
  BY <1>5, <1>6
<1> QED
  BY <1>3, <1>7 DEF ListsAreSound, IsSound, Nested, Incomplete, Content

(* The message that gets its place in the order.                           *)
LEMMA OrderedMessage ==
  ASSUME FailuresTypeOK, ListsAreSound, NEW n \in Node, Order(n),
         NEW head, head = Head(outbox[n]),
         NEW top, top = Len(order) + 1, NEW old, old = Len(log)
  PROVE  /\ head \in AnyMessage
         /\ head.type = "add_event" => head.event.replicas = {}
         /\ NothingIsMarkedYet'
         /\ UNCHANGED <<events, delivered>>
         /\ top \in Nat /\ Len(order') = top /\ Len(logged') = top
         /\ DOMAIN order' = 1..top /\ DOMAIN order = 1..(top - 1)
         /\ order'[top] = head
         /\ \A i \in 1..(top - 1) : order'[i] = order[i]
         /\ old \in Nat
         /\ \A k \in 1..old : log'[k] = log[k]
         /\ head.type = "add_event" =>
              Len(log') = old + 1 /\ log'[old + 1] = Content(head.event)
         /\ head.type = "mark_produced" => log' = log
         /\ LogLen(top)' = Len(log')
         /\ \A i \in 0..(top - 1) : LogLen(i)' = LogLen(i)
<1>1. /\ outbox[n] \in Seq(AnyMessage) /\ outbox[n] # <<>>
      /\ order \in Seq(AnyMessage) /\ log \in Seq(Record) /\ logged \in Seq(Nat)
      /\ Len(logged) = Len(order)
      /\ order' = Append(order, head)
      /\ log' = IF head.type = "add_event" THEN Append(log, Content(head.event)) ELSE log
      /\ logged' = Append(logged, Len(log'))
      /\ outbox' = [outbox EXCEPT ![n] = Tail(@)]
      /\ UNCHANGED <<delivered, polled, events>>
  BY DEF FailuresTypeOK, Order, OrderMessage, kafkaThread, ListsAreSound, LogFollowsOrder
<1>2. /\ head \in AnyMessage /\ head = outbox[n][1] /\ 1 \in DOMAIN outbox[n]
      /\ \A j \in DOMAIN outbox'[n] :
            j + 1 \in DOMAIN outbox[n] /\ outbox'[n][j] = outbox[n][j + 1]
  <2>1. PICK queue, length : queue = outbox[n] /\ length = Len(queue)
    OBVIOUS
  <2>2. /\ Head(queue) \in AnyMessage /\ Tail(queue) \in Seq(AnyMessage)
        /\ Len(Tail(queue)) = length - 1
        /\ \A j \in 1..Len(Tail(queue)) : Tail(queue)[j] = queue[j + 1]
        /\ length \in Nat \ {0} /\ DOMAIN queue = 1..length
        /\ Head(queue) = queue[1]
    BY <1>1, <2>1, HeadTailProperties, EmptySeq
  <2>3. DOMAIN Tail(queue) = 1..(length - 1)
    BY <2>2, LenProperties
  <2>4. outbox'[n] = Tail(queue)
    BY <1>1, <2>1 DEF FailuresTypeOK
  <2>5. \A j \in 1..(length - 1) : j + 1 \in 1..length
    BY <2>2
  <2> QED
    BY <2>1, <2>2, <2>3, <2>4, <2>5
<1>3. head.type = "add_event" => head.event.replicas = {}
  BY <1>2 DEF ListsAreSound, NothingIsMarkedYet
<1>4. NothingIsMarkedYet'
  <2>1. \A m \in Node : m # n => outbox'[m] = outbox[m]
    BY <1>1 DEF FailuresTypeOK
  <2> QED
    BY <1>1, <1>2, <2>1 DEF ListsAreSound, NothingIsMarkedYet
<1>5. /\ top \in Nat /\ Len(order') = top /\ order'[top] = head
      /\ \A i \in 1..(top - 1) : order'[i] = order[i]
      /\ DOMAIN order' = 1..top /\ DOMAIN order = 1..(top - 1)
  <2>1. /\ order' \in Seq(AnyMessage) /\ Len(order') = Len(order) + 1
        /\ \A i \in 1..Len(order) : order'[i] = order[i]
        /\ order'[Len(order) + 1] = head
    BY <1>1, <1>2, AppendProperties
  <2>2. /\ DOMAIN order = 1..Len(order) /\ DOMAIN order' = 1..Len(order')
        /\ Len(order) \in Nat
    BY <1>1, <2>1, LenProperties
  <2>3. top - 1 = Len(order) /\ top = Len(order) + 1
    BY <2>2
  <2> QED
    BY <2>1, <2>2, <2>3
<1>6. /\ old \in Nat /\ Len(log') \in Nat
      /\ \A k \in 1..old : log'[k] = log[k]
      /\ head.type = "add_event" =>
           Len(log') = old + 1 /\ log'[old + 1] = Content(head.event)
  <2>1. CASE head.type = "add_event"
    <3>1. Content(head.event) \in Record
      BY <1>2, <2>1 DEF AnyMessage, MarkedEvent, Content, Record
    <3> QED
      BY <1>1, <2>1, <3>1, AppendProperties
  <2>2. CASE head.type # "add_event"
    BY <1>1, <2>2
  <2> QED
    BY <2>1, <2>2
<1>7. head.type = "mark_produced" => log' = log
  BY <1>1
<1>8. /\ Len(logged') = top /\ logged'[top] = Len(log')
      /\ \A i \in 1..(top - 1) : logged'[i] = logged[i]
  <2>1. /\ Len(logged') = Len(logged) + 1
        /\ \A i \in 1..Len(logged) : logged'[i] = logged[i]
        /\ logged'[Len(logged) + 1] = Len(log')
    BY <1>1, <1>6, AppendProperties
  <2>2. top - 1 = Len(logged) /\ top = Len(logged) + 1
    BY <1>1
  <2> QED
    BY <2>1, <2>2
<1>9. LogLen(top)' = Len(log') /\ \A i \in 0..(top - 1) : LogLen(i)' = LogLen(i)
  <2>1. top # 0 /\ \A i \in 0..(top - 1) : i = 0 \/ i \in 1..(top - 1)
    BY <1>1, <1>5
  <2> QED
    BY <1>8, <2>1 DEF LogLen
<1> QED
  BY <1>1, <1>2, <1>3, <1>4, <1>5, <1>6, <1>7, <1>8, <1>9

LEMMA OrderIsSound ==
  ASSUME FailuresTypeOK, ListsAreSound, NEW n \in Node, Order(n),
         NEW head, head = Head(outbox[n]),
         NEW top, top = Len(order) + 1, NEW old, old = Len(log)
  PROVE  ListsAreSound'
<1>1. /\ head \in AnyMessage
      /\ head.type = "add_event" => head.event.replicas = {}
      /\ NothingIsMarkedYet' /\ UNCHANGED <<events, delivered>>
      /\ top \in Nat /\ Len(order') = top /\ Len(logged') = top
      /\ DOMAIN order' = 1..top /\ DOMAIN order = 1..(top - 1)
      /\ order'[top] = head
      /\ \A i \in 1..(top - 1) : order'[i] = order[i]
      /\ old \in Nat
      /\ \A k \in 1..old : log'[k] = log[k]
      /\ head.type = "add_event" =>
           Len(log') = old + 1 /\ log'[old + 1] = Content(head.event)
      /\ head.type = "mark_produced" => log' = log
      /\ LogLen(top)' = Len(log')
      /\ \A i \in 0..(top - 1) : LogLen(i)' = LogLen(i)
  <2>1. /\ head \in AnyMessage
        /\ head.type = "add_event" => head.event.replicas = {}
        /\ NothingIsMarkedYet' /\ UNCHANGED <<events, delivered>>
    <3>1. head \in AnyMessage
      BY OrderedMessage
    <3>2. head.type = "add_event" => head.event.replicas = {}
      BY OrderedMessage
    <3>3. NothingIsMarkedYet'
      BY OrderedMessage
    <3>4. UNCHANGED <<events, delivered>>
      BY OrderedMessage
    <3> QED
      BY <3>1, <3>2, <3>3, <3>4
  <2>2. /\ top \in Nat /\ Len(order') = top /\ Len(logged') = top
        /\ DOMAIN order' = 1..top /\ DOMAIN order = 1..(top - 1)
        /\ order'[top] = head
        /\ \A i \in 1..(top - 1) : order'[i] = order[i]
    <3>1. top \in Nat /\ Len(order') = top /\ Len(logged') = top
      BY OrderedMessage
    <3>2. /\ DOMAIN order' = 1..top /\ DOMAIN order = 1..(top - 1)
          /\ order'[top] = head
      BY OrderedMessage
    <3>3. \A i \in 1..(top - 1) : order'[i] = order[i]
      BY OrderedMessage
    <3> QED
      BY <3>1, <3>2, <3>3
  <2>3. /\ old \in Nat
        /\ \A k \in 1..old : log'[k] = log[k]
        /\ head.type = "add_event" =>
             Len(log') = old + 1 /\ log'[old + 1] = Content(head.event)
        /\ head.type = "mark_produced" => log' = log
    <3>1. old \in Nat /\ \A k \in 1..old : log'[k] = log[k]
      BY OrderedMessage
    <3>2. head.type = "add_event" =>
            Len(log') = old + 1 /\ log'[old + 1] = Content(head.event)
      BY OrderedMessage
    <3>3. head.type = "mark_produced" => log' = log
      BY OrderedMessage
    <3> QED
      BY <3>1, <3>2, <3>3
  <2>4. LogLen(top)' = Len(log')
    BY OrderedMessage
  <2>5. \A i \in 0..(top - 1) : LogLen(i)' = LogLen(i)
    BY OrderedMessage
  <2> QED
    BY <2>1, <2>2, <2>3, <2>4, <2>5
<1>2. /\ \A i \in 0..(top - 1) : LogLen(i) \in 0..old
      /\ \A i, j \in 0..(top - 1) : i <= j => LogLen(i) <= LogLen(j)
      /\ LogLen(top - 1) = old /\ top - 1 \in Nat
      /\ \A m \in Node : delivered[m] \in 0..(top - 1) /\ AddedCount(m) \in 0..old
  <2>1. Len(order) = top - 1 /\ Len(order) \in Nat
    BY AddsAreCounted DEF ListsAreSound
  <2> QED
    BY <2>1, AddsAreCounted DEF ListsAreSound, LogFollowsOrder
<1>3. head.type \in {"add_event", "mark_produced"}
  BY <1>1 DEF AnyMessage
<1>4. Len(log') \in Nat /\ old <= Len(log')
  BY <1>1, <1>3
<1>5. \A i, j \in 0..top : i <= j => LogLen(i)' <= LogLen(j)'
  <2> SUFFICES ASSUME NEW i \in 0..top, NEW j \in 0..top, i <= j
               PROVE  LogLen(i)' <= LogLen(j)'
    OBVIOUS
  <2>1. CASE j # top
    <3>1. i \in 0..(top - 1) /\ j \in 0..(top - 1)
      BY <1>1, <2>1
    <3> QED
      BY <1>1, <1>2, <3>1
  <2>2. CASE j = top /\ i # top
    <3>1. i \in 0..(top - 1)
      BY <1>1, <2>2
    <3>2. LogLen(i)' = LogLen(i) /\ LogLen(i) \in 0..old
      BY <1>1, <1>2, <3>1
    <3> QED
      BY <1>1, <1>4, <2>2, <3>2
  <2>3. CASE j = top /\ i = top
    BY <1>1, <1>4, <2>3
  <2> QED
    BY <2>1, <2>2, <2>3
<1>6. ASSUME NEW i \in 1..top
      PROVE  /\ order'[i].type = "add_event" =>
                  /\ LogLen(i)' = LogLen(i - 1)' + 1
                  /\ log'[LogLen(i)'] = Content(order'[i].event)
                  /\ order'[i].event.replicas = {}
             /\ order'[i].type = "mark_produced" => LogLen(i)' = LogLen(i - 1)'
  <2>1. CASE i # top
    <3>1. /\ i \in 1..(top - 1) /\ i \in 0..(top - 1) /\ i - 1 \in 0..(top - 1)
      BY <1>1, <2>1
    <3>2. /\ order'[i] = order[i] /\ LogLen(i)' = LogLen(i)
          /\ LogLen(i - 1)' = LogLen(i - 1)
          /\ LogLen(i) \in 0..old /\ LogLen(i - 1) \in 0..old
      BY <1>1, <1>2, <3>1
    <3>3. /\ order[i].type = "add_event" =>
               /\ LogLen(i) = LogLen(i - 1) + 1
               /\ log[LogLen(i)] = Content(order[i].event)
               /\ order[i].event.replicas = {}
          /\ order[i].type = "mark_produced" => LogLen(i) = LogLen(i - 1)
      BY <1>1, <3>1 DEF ListsAreSound, LogFollowsOrder
    <3>4. order[i].type = "add_event" => LogLen(i) \in 1..old
      BY <1>1, <3>2, <3>3
    <3> QED
      BY <1>1, <3>2, <3>3, <3>4
  <2>2. CASE i = top
    <3>1. LogLen(i - 1)' = old /\ order'[i] = head /\ LogLen(i)' = Len(log')
      BY <1>1, <1>2, <2>2
    <3> QED
      BY <1>1, <3>1
  <2> QED
    BY <2>1, <2>2
<1>7. LogFollowsOrder'
  <2>1. /\ Len(logged') = Len(order') /\ LogLen(Len(order))' = Len(log')
        /\ \A i, j \in 0..Len(order') : i <= j => LogLen(i)' <= LogLen(j)'
    <3>1. LogLen(Len(order))' = LogLen(top)'
      BY <1>1 DEF LogLen
    <3> QED
      BY <1>1, <1>5, <3>1
  <2> QED
    BY <1>1, <1>6, <2>1 DEF LogFollowsOrder, LogLen, Content
<1>8. ASSUME NEW m \in Node PROVE IsSound(events'[m], log', AddedCount(m)')
  <2>1. AddedCount(m)' = AddedCount(m) /\ AddedCount(m) \in 0..old
    BY <1>1, <1>2 DEF AddedCount
  <2>2. IsSound(events[m], log, AddedCount(m)) /\ events[m] \in Seq(MarkedEvent)
    BY DEF ListsAreSound, FailuresTypeOK
  <2>3. IsSound(events[m], log', AddedCount(m))
    BY <1>1, <2>1, <2>2, LongerLogIsSound
  <2> QED
    BY <1>1, <2>1, <2>3
<1> QED
  BY <1>1, <1>7, <1>8 DEF ListsAreSound, IsSound, Nested, Incomplete, Content

(* The next message keeps a list sound; it forgets what all have marked.   *)
LEMMA DeliveryIsSound ==
  ASSUME FailuresTypeOK, ListsAreSound, NEW n \in Node, Delivery(n)
  PROVE  /\ ListsAreSound'
         /\ \A m \in Node : m # n => Forgotten(m)' = Forgotten(m)
         /\ \A i \in 1..(Forgotten(n)' - Forgotten(n)) :
              Cardinality(events[n][i].replicas \cup {NextMessage(n).derecho_id})
                = Replicas
<1>1. PICK list, d, message, added, given :
        /\ list = events[n] /\ d = delivered[n] + 1 /\ message = order[d]
        /\ added = AddedCount(n) /\ given = AddedCount(n)'
  OBVIOUS
<1>2. /\ d \in 1..Len(order) /\ Len(order) \in Nat /\ d - 1 = delivered[n]
      /\ message \in AnyMessage /\ message = NextMessage(n)
      /\ delivered'[n] = d /\ events'[n] = Apply(list, message)
      /\ \A m \in Node : m # n => delivered'[m] = delivered[m] /\ events'[m] = events[m]
      /\ UNCHANGED <<polled, outbox, order, log, logged>>
  <2>1. /\ delivered[n] \in 0..(Len(order) - 1) /\ Len(order) \in Nat
        /\ order[delivered[n] + 1] \in AnyMessage
        /\ delivered' = [delivered EXCEPT ![n] = @ + 1]
        /\ events' = [events EXCEPT ![n] = Apply(@, order[delivered[n] + 1])]
        /\ UNCHANGED <<polled, outbox, order, log, logged>>
    BY DeliveryApplies
  <2>2. d \in 1..Len(order) /\ d - 1 = delivered[n]
    BY <1>1, <2>1
  <2>3. message \in AnyMessage /\ message = NextMessage(n)
    BY <1>1, <2>1 DEF NextMessage
  <2>4. /\ delivered'[n] = d /\ events'[n] = Apply(list, message)
        /\ \A m \in Node : m # n => delivered'[m] = delivered[m] /\ events'[m] = events[m]
    BY <1>1, <2>1 DEF FailuresTypeOK
  <2> QED
    BY <2>1, <2>2, <2>3, <2>4
<1>3. /\ added = LogLen(d - 1) /\ given = LogLen(d) /\ added \in Nat /\ given \in Nat
      /\ list \in Seq(MarkedEvent) /\ IsSound(list, log, added)
  <2>1. d \in 0..Len(order)
    BY <1>2
  <2>2. added = LogLen(d - 1) /\ given = LogLen(d)
    BY <1>1, <1>2 DEF AddedCount, LogLen
  <2>3. added \in Nat /\ given \in Nat
    <3>1. LogLen(d) \in Nat /\ AddedCount(n) \in Nat
      BY <2>1, AddsAreCounted DEF ListsAreSound
    <3> QED
      BY <1>1, <2>2, <3>1
  <2>4. list \in Seq(MarkedEvent)
    BY <1>1 DEF FailuresTypeOK
  <2>5. IsSound(list, log, added)
    BY <1>1 DEF ListsAreSound
  <2> QED
    BY <2>2, <2>3, <2>4, <2>5
<1>4. d \in DOMAIN order
  BY <1>2 DEF FailuresTypeOK
<1>5. /\ message.type = "add_event" =>
           given = added + 1 /\ log[given] = Content(message.event)
             /\ message.event.replicas = {}
      /\ message.type = "mark_produced" => given = added
  BY <1>1, <1>3, <1>4 DEF ListsAreSound, LogFollowsOrder
<1>6. /\ IsSound(events'[n], log, given)
      /\ \A i \in 1..((given - Len(events'[n])) - (added - Len(list))) :
           Cardinality(list[i].replicas \cup {message.derecho_id}) = Replicas
  <2>1. CASE message.type = "add_event"
    <3>1. message.event \in MarkedEvent /\ events'[n] = AddEvent(list, message.event)
      BY <1>2, <2>1 DEF AnyMessage, Apply
    <3>2. IsSound(events'[n], log, given)
      BY <1>3, <1>5, <2>1, <3>1, AddedIsSound
    <3>3. Len(events'[n]) = Len(list) + 1 /\ Len(list) \in Nat
      BY <1>3, <3>1, AppendProperties, LenProperties DEF AddEvent
    <3>4. (given - Len(events'[n])) - (added - Len(list)) = 0
      BY <1>3, <1>5, <2>1, <3>3
    <3> QED
      BY <3>2, <3>4
  <2>2. CASE message.type = "mark_produced"
    <3>1. /\ message.derecho_id \in DerechoId
          /\ events'[n] = MarkProduced(list, Replicas, message.derecho_id, message.id)
      BY <1>2, <2>2 DEF AnyMessage, Apply
    <3>2. /\ IsSound(events'[n], log, added)
          /\ \A i \in 1..(Len(list) - Len(events'[n])) :
               Cardinality(list[i].replicas \cup {message.derecho_id}) = Replicas
      BY <1>3, <3>1, MarkedIsSound
    <3>3. Len(list) \in Nat /\ Len(events'[n]) \in Nat
      <4>1. events'[n] \in Seq(MarkedEvent)
        BY <1>3, <3>1, MarkedEvents, MarkProducedProperties
      <4> QED
        BY <1>3, <4>1, LenProperties
    <3>4. (given - Len(events'[n])) - (added - Len(list)) = Len(list) - Len(events'[n])
      BY <1>3, <1>5, <2>2, <3>3
    <3> QED
      BY <1>5, <2>2, <3>2, <3>4
  <2> QED
    BY <1>2, <2>1, <2>2 DEF AnyMessage
<1>7. \A m \in Node : m # n => AddedCount(m)' = AddedCount(m)
  BY <1>2 DEF AddedCount, LogLen
<1>8. ListsAreSound'
  <2>1. \A m \in Node : IsSound(events'[m], log', AddedCount(m)')
    BY <1>1, <1>2, <1>6, <1>7 DEF ListsAreSound
  <2>2. NothingIsMarkedYet' /\ LogFollowsOrder'
    BY <1>2 DEF ListsAreSound, NothingIsMarkedYet, LogFollowsOrder, LogLen, Content
  <2> QED
    BY <2>1, <2>2 DEF ListsAreSound, IsSound, Nested, Incomplete, Content
<1> QED
  BY <1>1, <1>2, <1>6, <1>7, <1>8 DEF Forgotten

LEMMA NextIsSound ==
  ASSUME FailuresTypeOK, ListsAreSound, [FailuresNext]_allVars
  PROVE  ListsAreSound'
<1>1. ASSUME NEW n \in Node, Ends(n) PROVE ListsAreSound'
  BY <1>1, EndIsSound DEF Ends, Crash, FlushFails, OversizedSend
<1>2. ASSUME NEW n \in Node, NEW p \in Partition, Commit(n, p) PROVE ListsAreSound'
  BY <1>2, SoundnessStays DEF Commit, vars, kafkaThread, multicast, history,
                              ListsAreSound, NothingIsMarkedYet
<1>3. CASE UNCHANGED allVars
  BY <1>3, SoundnessStays DEF allVars, vars, kafkaThread, multicast, history,
                              ListsAreSound, NothingIsMarkedYet
<1> QED
  BY <1>1, <1>2, <1>3, KafkaThreadIsSound, DerechoThreadIsSound, OrderIsSound,
     DeliveryIsSound, StartIsSound DEF FailuresNext

THEOREM ListsStaySound == FailuresSpec => []ListsAreSound
BY FailuresTypeCorrect, InitIsSound, NextIsSound, PTL DEF FailuresSpec

(* The list of every instance is the last part of what was added, whatever *)
(* crashes, joins, or is configured with the topic of another one: erasing *)
(* never makes a hole in a list, and a list that was transferred fits the  *)
(* messages that follow it.                                                *)
THEOREM ListsAreNeverBroken == FailuresSpec => []ListsEndTheLog
<1>1. FailuresTypeOK /\ ListsAreSound => ListsEndTheLog
  <2> SUFFICES ASSUME FailuresTypeOK, ListsAreSound, NEW n \in up
               PROVE  /\ Forgotten(n) >= 0
                      /\ \A j \in DOMAIN events[n] :
                           Content(events[n][j]) = log[Forgotten(n) + j]
    BY DEF ListsEndTheLog
  <2>1. /\ n \in Node /\ IsSound(events[n], log, AddedCount(n))
        /\ Len(events[n]) \in Nat /\ AddedCount(n) \in Nat
    <3>1. up \subseteq Node /\ events \in [Node -> Seq(MarkedEvent)]
      BY DEF FailuresTypeOK
    <3>2. n \in Node /\ Len(events[n]) \in Nat
      BY <3>1
    <3> QED
      BY <3>2, AddsAreCounted DEF ListsAreSound
  <2>2. Forgotten(n) = AddedCount(n) - Len(events[n])
    BY DEF Forgotten
  <2> QED
    BY <2>1, <2>2 DEF IsSound
<1> QED
  BY <1>1, FailuresTypeCorrect, ListsStaySound, PTL

(* Nothing is forgotten by a step that delivers nothing.                   *)
LEMMA OnlyDeliveryForgets ==
  ASSUME FailuresTypeOK, ListsAreSound, NEW n \in up \cap up',
         [FailuresNext]_allVars, ~Delivery(n)
  PROVE  Forgotten(n)' = Forgotten(n)
<1> USE DEF kafkaThread, derechoThread, multicast, history, membership, failureVars
<1>1. n \in Node
  BY DEF FailuresTypeOK
<1>2. CASE UNCHANGED <<events, delivered, logged>>
  BY <1>2 DEF Forgotten, AddedCount, LogLen
<1>3. ASSUME NEW m \in Node, KafkaThread(m) PROVE UNCHANGED <<events, delivered, logged>>
  BY <1>3 DEF KafkaThread, KafkaPoll, Send, SendAddEvent, OrderedSend
<1>4. ASSUME NEW m \in Node, DerechoThread(m) PROVE UNCHANGED <<events, delivered, logged>>
  BY <1>4 DEF DerechoThread, AcceptReply, ReplicateStored, ReplicateRejected,
              ReplicateEvent, GoOn, SendMark, OrderedSend
<1>5. ASSUME NEW m \in Node, NEW p \in Partition, Commit(m, p)
      PROVE  UNCHANGED <<events, delivered, logged>>
  BY <1>5 DEF Commit, vars
<1>6. ASSUME NEW m \in Node, Order(m) PROVE Forgotten(n)' = Forgotten(n)
  <2>1. PICK head, top, old :
          head = Head(outbox[m]) /\ top = Len(order) + 1 /\ old = Len(log)
    OBVIOUS
  <2>2. UNCHANGED <<events, delivered>>
    BY <1>6, <2>1, OrderedMessage
  <2>3. \A i \in 0..(top - 1) : LogLen(i)' = LogLen(i)
    BY <1>6, <2>1, OrderedMessage
  <2>4. delivered[n] \in 0..(top - 1)
    BY <1>1, <2>1, AddsAreCounted DEF ListsAreSound
  <2> QED
    BY <2>2, <2>3, <2>4 DEF Forgotten, AddedCount
<1>7. ASSUME NEW m \in Node, Delivery(m) PROVE Forgotten(n)' = Forgotten(n)
  BY <1>1, <1>7, DeliveryIsSound
<1>8. ASSUME NEW m \in Node, Ends(m) PROVE Forgotten(n)' = Forgotten(n)
  <2>1. EndProcess(m)
    BY <1>8 DEF Ends, Crash, FlushFails, OversizedSend
  <2>2. PICK gone : /\ up' = up \ gone /\ events' = Afresh(events, gone, <<>>)
                    /\ UNCHANGED <<delivered, logged>>
    BY <2>1 DEF EndProcess
  <2>3. events'[n] = events[n]
    BY <1>1, <2>2 DEF Afresh
  <2> QED
    BY <2>2, <2>3 DEF Forgotten, AddedCount, LogLen
<1>9. CASE Join
  <2>1. PICK donor \in up : events' = Afresh(events, Node \ up, events[donor])
    BY <1>9 DEF Join
  <2>2. delivered' = Afresh(delivered, Node \ up, Len(order)) /\ logged' = logged
    BY <1>9 DEF Join, StartProcesses
  <2>3. events'[n] = events[n] /\ delivered'[n] = delivered[n]
    BY <1>1, <2>1, <2>2 DEF Afresh
  <2> QED
    BY <2>2, <2>3 DEF Forgotten, AddedCount, LogLen
<1>10. ~FormGroup
  BY DEF FormGroup
<1>11. CASE UNCHANGED allVars
  BY <1>2, <1>11 DEF allVars, vars
<1> QED
  BY <1>2, <1>3, <1>4, <1>5, <1>6, <1>7, <1>8, <1>9, <1>10, <1>11 DEF FailuresNext

(* An event leaves the list of a running instance only with the last of    *)
(* Replicas marks of different instances, whatever fails and whatever the  *)
(* ids: what the loop of mark_produced erases without a look at it has     *)
(* been marked by all, too.                                                *)
THEOREM NothingIsErasedUnmarked == FailuresSpec => ErasedWhenMarkedByAll
<1>1. ASSUME FailuresTypeOK, ListsAreSound, [FailuresNext]_allVars,
             NEW n \in up \cap up', NEW i \in 1..(Forgotten(n)' - Forgotten(n))
      PROVE  Cardinality(events[n][i].replicas \cup {NextMessage(n).derecho_id})
               = Replicas
  <2>1. n \in Node
    BY <1>1 DEF FailuresTypeOK
  <2>2. CASE Delivery(n)
    BY <1>1, <2>1, <2>2, DeliveryIsSound
  <2>3. CASE ~Delivery(n)
    <3>1. Forgotten(n)' = Forgotten(n)
      BY <1>1, <2>3, OnlyDeliveryForgets
    <3>2. Forgotten(n) \in Int
      BY <1>1, <2>1, AddsAreCounted DEF ListsAreSound, Forgotten, FailuresTypeOK
    <3>3. 1..(Forgotten(n)' - Forgotten(n)) = {}
      BY <3>1, <3>2
    <3> QED
      BY <1>1, <3>3
  <2> QED
    BY <2>2, <2>3
<1>2. FailuresTypeOK /\ ListsAreSound /\ [FailuresNext]_allVars
        => [\A n \in up \cap up' : \A i \in 1..(Forgotten(n)' - Forgotten(n)) :
              Cardinality(events[n][i].replicas \cup {NextMessage(n).derecho_id})
                = Replicas]_allVars
  BY <1>1
<1> QED
  BY <1>2, FailuresTypeCorrect, ListsStaySound, PTL
     DEF FailuresSpec, ErasedWhenMarkedByAll

----------------------------------------------------------------------------
(* Chunks that a configuration may name without stopping queries by an     *)
(* exception.                                                              *)
ChunksAreCounts == \A n \in Node : EventChunk[n] \in Nat

(* A chunk other than 0 stays one, whoever the list comes from.            *)
ChunksStay ==
  \A n \in Node : chunk[n] \in Nat /\ (EventChunk[n] > 0 => chunk[n] > 0)

LEMMA ChunksStayInEveryStep ==
  ASSUME ChunksAreCounts, FailuresTypeOK, ChunksStay, [FailuresNext]_allVars
  PROVE  ChunksStay'
<1>1. CASE UNCHANGED chunk
  BY <1>1 DEF ChunksStay
<1>2. CASE FormGroup
  <2>1. chunk' = EventChunk
    BY <1>2 DEF FormGroup
  <2> QED
    BY <2>1 DEF ChunksAreCounts, ChunksStay
<1>3. CASE Join
  <2>1. PICK donor \in up : chunk' = Afresh(chunk, Node \ up, Deserialized(chunk[donor]))
    BY <1>3 DEF Join
  <2>2. chunk[donor] \in Nat
    BY DEF ChunksStay, FailuresTypeOK
  <2>3. Deserialized(chunk[donor]) \in Nat \ {0}
    BY <2>2, FailuresAssumption DEF Deserialized
  <2>4. ASSUME NEW n \in Node
        PROVE  chunk'[n] \in Nat /\ (EventChunk[n] > 0 => chunk'[n] > 0)
    <3>1. chunk'[n] = chunk[n] \/ chunk'[n] = Deserialized(chunk[donor])
      BY <2>1 DEF Afresh
    <3> QED
      BY <2>3, <3>1 DEF ChunksStay
  <2> QED
    BY <2>4 DEF ChunksStay
<1>4. \/ UNCHANGED chunk \/ FormGroup \/ Join
  BY DEF FailuresNext, allVars, failureVars, membership, KafkaThread,
         DerechoThread, Order, Delivery, Ends, Crash, FlushFails,
         OversizedSend, EndProcess, Commit
<1> QED
  BY <1>1, <1>2, <1>3, <1>4

(* An empty chunk of a list starts behind its end.                         *)
LEMMA EmptyChunk ==
  ASSUME NEW S, NEW list \in Seq(S), NEW event_chunk \in Nat \ {0},
         NEW first \in 1..(Len(list) + 1), Chunk(list, event_chunk, first) = <<>>
  PROVE  first = Len(list) + 1
<1> DEFINE rest == Len(list) - first + 1
<1>1. Len(list) \in Nat /\ rest \in Nat
  OBVIOUS
<1>2. Min({event_chunk, rest}) = IF event_chunk <= rest THEN event_chunk ELSE rest
  BY <1>1, MinOfTwo
<1>3. ChunkLength(list, event_chunk, first) = 0
  BY ChunkProperties
<1> DEFINE least == Min({event_chunk, rest})
<1>4. least \in Nat /\ Max({0, least}) = IF 0 >= least THEN 0 ELSE least
  <2>1. least \in Nat
    BY <1>1, <1>2
  <2> HIDE DEF least
  <2> QED
    BY <2>1, MaxOfTwo
<1>5. Max({0, least}) = 0
  BY <1>3 DEF ChunkLength
<1>6. least = 0
  <2> HIDE DEF least
  <2> QED
    BY <1>4, <1>5
<1> QED
  BY <1>1, <1>2, <1>6

(* Who was configured with a chunk is never left with empty replies by a   *)
(* list, or a chunk, that comes from another instance: an empty reply of   *)
(* get_events means that all is marked, one of get_events_from that        *)
(* last_event is the last event, or that the list is empty.                *)
THEOREM EmptyRepliesAreRight ==
  ChunksAreCounts /\ FailuresSpec => []EmptyMeansNothingNew
<1> SUFFICES ASSUME ChunksAreCounts PROVE FailuresSpec => []EmptyMeansNothingNew
  OBVIOUS
<1>1. FailuresInit => ChunksStay
  BY DEF FailuresInit, ChunksAreCounts, ChunksStay
<1>2. FailuresTypeOK /\ ChunksStay /\ [FailuresNext]_allVars => ChunksStay'
  BY ChunksStayInEveryStep
<1>3. FailuresTypeOK /\ ChunksStay => EmptyMeansNothingNew
  <2> SUFFICES ASSUME FailuresTypeOK, ChunksStay, NEW n \in up, EventChunk[n] > 0,
                      QueryReply(n, chunk[n], my_id[n]) = <<>>
               PROVE  NothingNew(n)
    BY DEF EmptyMeansNothingNew
  <2>1. PICK list : list = events[n]
    OBVIOUS
  <2>2. /\ list \in Seq(MarkedEvent) /\ chunk[n] \in Nat \ {0}
        /\ DOMAIN list = 1..Len(list) /\ Len(list) \in Nat
    BY <2>1 DEF FailuresTypeOK, ChunksStay
  <2>3. CASE last[n] = Nil
    <3> DEFINE matching == {i \in DOMAIN list : my_id[n] \notin list[i].replicas}
               first == Find(list, matching)
    <3>1. /\ first \in 1..(Len(list) + 1)
          /\ first = Len(list) + 1 => matching = {}
      <4>1. matching \subseteq 1..Len(list)
        BY <2>2
      <4> HIDE DEF matching
      <4> QED
        BY <2>2, <4>1, FindProperties
    <3>2. Chunk(list, chunk[n], first) = <<>>
      BY <2>1, <2>3 DEF QueryReply, GetEvents
    <3>3. matching = {}
      <4> HIDE DEF matching, first
      <4> QED
        BY <2>2, <3>1, <3>2, EmptyChunk
    <3>4. \A i \in DOMAIN list : my_id[n] \in list[i].replicas
      BY <3>3
    <3>5. ToSet(list) = {list[i] : i \in DOMAIN list}
      BY DEF ToSet
    <3> QED
      BY <2>1, <2>3, <3>4, <3>5 DEF NothingNew
  <2>4. CASE last[n] # Nil
    <3> DEFINE matching == {i \in DOMAIN list : list[i].id = last[n]}
               found == Find(list, matching)
               first == IF found = Len(list) + 1 THEN 1 ELSE found + 1
    <3>1. /\ found \in 1..(Len(list) + 1)
          /\ found # Len(list) + 1 => found \in matching
      <4>1. matching \subseteq 1..Len(list)
        BY <2>2
      <4> HIDE DEF matching
      <4> QED
        BY <2>2, <4>1, FindProperties
    <3>2. Chunk(list, chunk[n], first) = <<>>
      BY <2>1, <2>4 DEF QueryReply, GetEventsFrom
    <3>3. first \in 1..(Len(list) + 1)
      <4> HIDE DEF found
      <4> QED
        BY <2>2, <3>1
    <3>4. first = Len(list) + 1
      <4> HIDE DEF first
      <4> QED
        BY <2>2, <3>2, <3>3, EmptyChunk
    <3>5. CASE found = Len(list) + 1
      <4>1. Len(list) = 0
        <5> HIDE DEF found
        <5> QED
          BY <2>2, <3>4, <3>5
      <4>2. list = <<>>
        BY <2>2, <4>1
      <4> QED
        BY <2>1, <2>4, <4>2 DEF NothingNew
    <3>6. CASE found # Len(list) + 1
      <4>1. found = Len(list)
        <5>1. found \in 1..(Len(list) + 1) /\ found + 1 = Len(list) + 1
          BY <3>1, <3>4, <3>6
        <5>2. Len(list) \in Nat
          BY <2>2
        <5> HIDE DEF found
        <5> QED
          BY <5>1, <5>2
      <4>2. list[found].id = last[n]
        BY <3>1, <3>6
      <4> QED
        BY <2>1, <2>4, <4>1, <4>2 DEF NothingNew
    <3> QED
      BY <3>5, <3>6
  <2> QED
    BY <2>3, <2>4
<1> QED
  BY <1>1, <1>2, <1>3, FailuresTypeCorrect, PTL DEF FailuresSpec
=============================================================================
