------------------------ MODULE KdsyncPromiseProofs ------------------------
(***************************************************************************)
(* A group of kdsync instances implements TotalOrder: the log keeps the    *)
(* order of every source partition, and the "-global" topics are copies of *)
(* it that grow by one entry at a time.  For every number of instances,    *)
(* when no two clusters replicate the same topic.                          *)
(*                                                                         *)
(* And the two ways in which derecho_polling asks its list agree: what     *)
(* follows last_event is what the instance has not marked, once its own    *)
(* marks have arrived at home.                                             *)
(***************************************************************************)
EXTENDS KdsyncSafetyProofs

LEMMA InitStreams == Init => StreamsInOrder
<1> SUFFICES ASSUME Init PROVE StreamsInOrder
  OBVIOUS
<1>1. log = <<>> /\ \A n \in Node : /\ outbox[n] = <<>> /\ polled[n] = Nil
                                    /\ \A p \in Partition : position[n][p] = 0
  BY DEF Init
<1>2. DOMAIN log = {} /\ \A n \in Node : AddsInOutbox(n) = {}
  BY <1>1 DEF AddsInOutbox
<1>3. \A n \in Node, p \in Partition : 0..(position[n][p] - 1) = {}
  BY <1>1
<1> QED
  BY <1>1, <1>2, <1>3 DEF StreamsInOrder

----------------------------------------------------------------------------
(* kafka_polling reads the record that follows those it has read.          *)
LEMMA KafkaPollStreams ==
  ASSUME LogInvariant, StreamsInOrder, NEW n \in Node, NEW p \in Partition,
         KafkaPoll(n, p)
  PROVE  StreamsInOrder'
<1> DEFINE offset0 == position[n][p]
           event0 == NewEvent(n, p, offset0)
<1>1. /\ UNCHANGED <<outbox, log>>
      /\ polled[n] = Nil
      /\ polled' = [polled EXCEPT ![n] = event0]
      /\ position' = [position EXCEPT ![n][p] = @ + 1]
  BY DEF KafkaPoll, multicast, history
<1>2. /\ polled'[n] = event0
      /\ \A m \in Node : m # n => polled'[m] = polled[m] /\ position'[m] = position[m]
      /\ position'[n][p] = offset0 + 1
      /\ \A q \in Partition : q # p => position'[n][q] = position[n][q]
      /\ offset0 \in Nat
  BY <1>1 DEF LogInvariant, TypeOK
<1>3. /\ event0.payload = n /\ event0.id = <<Topic[n], p, offset0>>
      /\ event0.id[3] = offset0
      /\ \A o : Sibling(event0.id, o) = <<Topic[n], p, o>>
  BY DEF NewEvent, Sibling
<1> HIDE DEF event0, offset0
<1>4. \A m, j, id : SentBefore(m, j, id)' = SentBefore(m, j, id)
  BY <1>1 DEF SentBefore, AddsInOutbox
<1>5. \A m, j, event : FollowsItsSiblings(m, j, event)' = FollowsItsSiblings(m, j, event)
  BY <1>4 DEF FollowsItsSiblings
<1>6. \A m : AddsInOutbox(m)' = AddsInOutbox(m)
  BY <1>1 DEF AddsInOutbox
<1>7. ASSUME NEW m \in Node, polled'[m] # Nil
      PROVE  FollowsItsSiblings(m, Len(outbox[m]) + 1, polled[m])'
  <2>1. CASE m = n
    <3>1. \A o \in 0..(offset0 - 1) :
            SentBefore(n, Len(outbox[n]) + 1, <<Topic[n], p, o>>)
      BY <1>1 DEF StreamsInOrder, offset0
    <3>2. FollowsItsSiblings(n, Len(outbox[n]) + 1, event0)
      BY <1>3, <3>1 DEF FollowsItsSiblings
    <3> QED
      BY <1>1, <1>2, <1>5, <2>1, <3>2
  <2>2. CASE m # n
    BY <1>1, <1>2, <1>5, <1>7, <2>2 DEF StreamsInOrder
  <2> QED
    BY <2>1, <2>2
<1>8. ASSUME NEW m \in Node, NEW q \in Partition,
             NEW o \in 0..(position'[m][q] - 1)
      PROVE  \/ SentBefore(m, Len(outbox[m]) + 1, <<Topic[m], q, o>>)'
             \/ polled'[m] # Nil /\ polled'[m].id = <<Topic[m], q, o>>
  <2>1. CASE m = n /\ q = p /\ o = offset0
    <3>1. polled'[m] # Nil
      <4>1. event0.id \in Ids
        <5>1. offset0 \in 0..(Records[n] - 1)
          <6>1. offset0 < Records[n] /\ Records[n] \in Nat
            BY SettingsAssumption DEF KafkaPoll, offset0
          <6> QED
            BY <1>2, <6>1
        <5> QED
          BY <1>3, <5>1 DEF Ids, Id
      <4>2. event0 \in Event
        BY <4>1 DEF event0, NewEvent, Event
      <4> QED
        BY <1>2, <2>1, <4>2, NilAssumption
    <3> QED
      BY <1>2, <1>3, <2>1, <3>1
  <2>2. CASE ~(m = n /\ q = p /\ o = offset0)
    <3>1. o \in 0..(position[m][q] - 1)
      <4>1. CASE m = n /\ q = p
        BY <1>2, <2>2, <4>1 DEF offset0
      <4>2. CASE ~(m = n /\ q = p)
        BY <1>2, <4>2
      <4> QED
        BY <4>1, <4>2
    <3>2. \/ SentBefore(m, Len(outbox[m]) + 1, <<Topic[m], q, o>>)
          \/ polled[m] # Nil /\ polled[m].id = <<Topic[m], q, o>>
      BY <3>1 DEF StreamsInOrder
    <3>3. polled[m] # Nil => polled'[m] = polled[m]
      BY <1>1, <1>2
    <3> QED
      BY <1>1, <1>4, <3>2, <3>3
  <2> QED
    BY <2>1, <2>2
<1>9. \A k \in DOMAIN log' :
        /\ log'[k].id \in Id(log'[k].payload)
        /\ \A o \in 0..(log'[k].id[3] - 1) :
             \E i \in 1..(k - 1) : log'[i].id = Sibling(log'[k].id, o)
  BY <1>1 DEF StreamsInOrder
<1>10. \A m \in Node : \A j \in AddsInOutbox(m)' :
         FollowsItsSiblings(m, j, outbox[m][j].event)'
  BY <1>1, <1>5, <1>6 DEF StreamsInOrder
<1> QED
  BY <1>7, <1>8, <1>9, <1>10 DEF StreamsInOrder

(* What it sends comes behind what it has sent.                            *)
LEMMA SendAddEventStreams ==
  ASSUME LogInvariant, StreamsInOrder, NEW n \in Node, SendAddEvent(n)
  PROVE  StreamsInOrder'
<1>0. PICK new : new = Len(outbox[n]) + 1
  OBVIOUS
<1>1. /\ UNCHANGED <<position, log>>
      /\ polled[n] # Nil
      /\ polled' = [polled EXCEPT ![n] = Nil]
      /\ AddMessage(polled[n]).event = polled[n]
      /\ \A m \in Node : m # n => outbox'[m] = outbox[m]
      /\ new \in Nat /\ Len(outbox'[n]) = new
      /\ outbox'[n][new] = AddMessage(polled[n])
  BY <1>0, SendAddEventAppends
<1>2. /\ \A j \in AddsInOutbox(n) : outbox'[n][j] = outbox[n][j]
      /\ AddsInOutbox(n)' = AddsInOutbox(n) \cup {new}
      /\ AddsInOutbox(n) \subseteq 1..(new - 1)
      /\ \A m \in Node : m # n => AddsInOutbox(m)' = AddsInOutbox(m)
  BY <1>0, SendAddEventAppends
<1>3. /\ polled'[n] = Nil
      /\ \A m \in Node : m # n => polled'[m] = polled[m]
  BY <1>1 DEF LogInvariant, TypeOK
<1>4. ASSUME NEW m \in Node, NEW i, NEW id, SentBefore(m, i, id)
      PROVE  SentBefore(m, i, id)'
  BY <1>1, <1>2, <1>4 DEF SentBefore
<1>5. ASSUME NEW id, SentBefore(n, new, id) PROVE SentBefore(n, new + 1, id)'
  <2>1. \A i \in AddsInOutbox(n) : i < new + 1
    BY <1>1, <1>2
  <2> QED
    BY <1>1, <1>2, <1>5, <2>1 DEF SentBefore
<1>6. ASSUME NEW m \in Node, NEW j \in AddsInOutbox(m)'
      PROVE  FollowsItsSiblings(m, j, outbox[m][j].event)'
  <2>1. CASE m = n /\ j = new
    <3>1. outbox'[m][j].event = polled[n]
      BY <1>1, <2>1
    <3>2. FollowsItsSiblings(n, new, polled[n])
      BY <1>0, <1>1 DEF StreamsInOrder
    <3> QED
      BY <1>4, <2>1, <3>1, <3>2 DEF FollowsItsSiblings
  <2>2. CASE j \in AddsInOutbox(m)
    <3>1. outbox'[m][j] = outbox[m][j]
      BY <1>1, <1>2, <2>2
    <3>2. FollowsItsSiblings(m, j, outbox[m][j].event)
      BY <2>2 DEF StreamsInOrder
    <3> QED
      BY <1>4, <3>1, <3>2 DEF FollowsItsSiblings
  <2> QED
    BY <1>2, <2>1, <2>2
<1>7. ASSUME NEW m \in Node, polled'[m] # Nil
      PROVE  FollowsItsSiblings(m, Len(outbox[m]) + 1, polled[m])'
  <2>1. m # n /\ polled'[m] = polled[m] /\ outbox'[m] = outbox[m]
    BY <1>1, <1>3, <1>7
  <2>2. FollowsItsSiblings(m, Len(outbox[m]) + 1, polled[m])
    BY <1>7, <2>1 DEF StreamsInOrder
  <2> QED
    BY <1>4, <2>1, <2>2 DEF FollowsItsSiblings
<1>8. ASSUME NEW m \in Node, NEW q \in Partition,
             NEW o \in 0..(position'[m][q] - 1)
      PROVE  \/ SentBefore(m, Len(outbox[m]) + 1, <<Topic[m], q, o>>)'
             \/ polled'[m] # Nil /\ polled'[m].id = <<Topic[m], q, o>>
  <2>1. \/ SentBefore(m, Len(outbox[m]) + 1, <<Topic[m], q, o>>)
        \/ polled[m] # Nil /\ polled[m].id = <<Topic[m], q, o>>
    BY <1>1 DEF StreamsInOrder
  <2>2. CASE m # n
    BY <1>1, <1>3, <1>4, <2>1, <2>2
  <2>3. CASE m = n /\ SentBefore(m, Len(outbox[m]) + 1, <<Topic[m], q, o>>)
    BY <1>0, <1>1, <1>5, <2>3
  <2>4. CASE m = n /\ polled[m].id = <<Topic[m], q, o>>
    <3>1. new \in AddsInOutbox(n)' /\ new < new + 1
      BY <1>1, <1>2
    <3> QED
      BY <1>1, <2>4, <3>1 DEF SentBefore
  <2> QED
    BY <2>1, <2>2, <2>3, <2>4
<1>9. \A k \in DOMAIN log' :
        /\ log'[k].id \in Id(log'[k].payload)
        /\ \A o \in 0..(log'[k].id[3] - 1) :
             \E i \in 1..(k - 1) : log'[i].id = Sibling(log'[k].id, o)
  BY <1>1 DEF StreamsInOrder
<1> QED
  BY <1>6, <1>7, <1>8, <1>9 DEF StreamsInOrder

(* Its marks change nothing for the events.                                *)
LEMMA SendMarkStreams ==
  ASSUME LogInvariant, StreamsInOrder, NEW n \in Node, SendMarkProduced(n)
  PROVE  StreamsInOrder'
<1> DEFINE mark == MarkMessage(n, last[n])
           new == Len(outbox[n]) + 1
<1>1. /\ UNCHANGED <<position, polled, log>>
      /\ outbox' = [outbox EXCEPT ![n] = Append(@, mark)]
      /\ last[n] \in Ids /\ outbox[n] \in Seq(Message)
  BY DEF SendMarkProduced, SendMark, OrderedSend, kafkaThread, history,
         LogInvariant, TypeOK
<1>2. mark \in Message /\ mark.type # "add_event"
  BY <1>1 DEF MarkMessage, Message
<1> HIDE DEF mark
<1>3. /\ \A m \in Node : m # n => outbox'[m] = outbox[m]
      /\ outbox'[n] = Append(outbox[n], mark)
  BY <1>1 DEF LogInvariant, TypeOK
<1>4. /\ DOMAIN outbox'[n] = 1..new /\ DOMAIN outbox[n] = 1..(new - 1)
      /\ new \in Nat /\ Len(outbox'[n]) = new
      /\ \A j \in 1..(new - 1) : outbox'[n][j] = outbox[n][j]
      /\ outbox'[n][new] = mark
  BY <1>1, <1>2, <1>3, AppendProperties
<1> HIDE DEF new
<1>5. /\ AddsInOutbox(n)' = AddsInOutbox(n)
      /\ AddsInOutbox(n) \subseteq 1..(new - 1)
      /\ \A m \in Node : m # n => AddsInOutbox(m)' = AddsInOutbox(m)
  BY <1>2, <1>3, <1>4 DEF AddsInOutbox
<1>6. \A m \in Node : \A j \in AddsInOutbox(m) : outbox'[m][j] = outbox[m][j]
  BY <1>3, <1>4, <1>5
<1>7. ASSUME NEW m \in Node, NEW i, NEW id, SentBefore(m, i, id)
      PROVE  SentBefore(m, i, id)'
  <2>1. AddsInOutbox(m)' = AddsInOutbox(m) /\ log' = log
    BY <1>1, <1>5
  <2>2. \A j \in AddsInOutbox(m) : outbox'[m][j] = outbox[m][j]
    BY <1>6
  <2> QED
    BY <1>7, <2>1, <2>2 DEF SentBefore
<1>8. ASSUME NEW m \in Node, NEW id, SentBefore(m, Len(outbox[m]) + 1, id)
      PROVE  SentBefore(m, Len(outbox[m]) + 1, id)'
  <2>1. CASE m # n
    BY <1>3, <1>7, <1>8, <2>1
  <2>2. CASE m = n
    <3>1. \A i \in AddsInOutbox(n) : i < new + 1
      BY <1>4, <1>5
    <3> QED
      BY <1>1, <1>4, <1>5, <1>6, <1>8, <2>2, <3>1 DEF SentBefore
  <2> QED
    BY <2>1, <2>2
<1>9. ASSUME NEW m \in Node, NEW j \in AddsInOutbox(m)'
      PROVE  FollowsItsSiblings(m, j, outbox[m][j].event)'
  <2>1. j \in AddsInOutbox(m) /\ outbox'[m][j] = outbox[m][j]
    BY <1>5, <1>6
  <2> QED
    BY <1>7, <2>1 DEF StreamsInOrder, FollowsItsSiblings
<1>10. ASSUME NEW m \in Node, polled'[m] # Nil
       PROVE  FollowsItsSiblings(m, Len(outbox[m]) + 1, polled[m])'
  <2>1. FollowsItsSiblings(m, Len(outbox[m]) + 1, polled[m]) /\ polled'[m] = polled[m]
    BY <1>1, <1>10 DEF StreamsInOrder
  <2> QED
    BY <1>8, <2>1 DEF FollowsItsSiblings
<1>11. ASSUME NEW m \in Node, NEW q \in Partition,
              NEW o \in 0..(position'[m][q] - 1)
       PROVE  \/ SentBefore(m, Len(outbox[m]) + 1, <<Topic[m], q, o>>)'
              \/ polled'[m] # Nil /\ polled'[m].id = <<Topic[m], q, o>>
  <2>1. \/ SentBefore(m, Len(outbox[m]) + 1, <<Topic[m], q, o>>)
        \/ polled[m] # Nil /\ polled[m].id = <<Topic[m], q, o>>
    BY <1>1 DEF StreamsInOrder
  <2> QED
    BY <1>1, <1>8, <2>1
<1>12. \A k \in DOMAIN log' :
         /\ log'[k].id \in Id(log'[k].payload)
         /\ \A o \in 0..(log'[k].id[3] - 1) :
              \E i \in 1..(k - 1) : log'[i].id = Sibling(log'[k].id, o)
  BY <1>1 DEF StreamsInOrder
<1> QED
  BY <1>9, <1>10, <1>11, <1>12 DEF StreamsInOrder

(* The oldest message of a window finds all its siblings in the log, ...   *)
LEMMA HeadFindsItsSiblings ==
  ASSUME LogInvariant, StreamsInOrder, NEW n \in Node, OrderMessage(n),
         outbox[n][1].type = "add_event"
  PROVE  LET event == outbox[n][1].event
         IN  /\ 1 \in AddsInOutbox(n)
             /\ event.payload = n /\ event.id \in Id(n)
             /\ \A k \in DOMAIN log : log[k].id # event.id
             /\ \A o \in 0..(event.id[3] - 1) : IsPlaced(log, Sibling(event.id, o))
<1> DEFINE event == outbox[n][1].event
<1>1. 1 \in AddsInOutbox(n)
  BY OrderGrows
<1>2. EventIsNew(n, event)
  BY <1>1 DEF LogInvariant, EventsOnce
<1>3. event.id \in Id(n) /\ \A k \in DOMAIN log : log[k].id # event.id
  BY <1>2 DEF EventIsNew, Issued
<1>4. FollowsItsSiblings(n, 1, event)
  BY <1>1 DEF StreamsInOrder
<1>5. \A i \in AddsInOutbox(n) : ~(i < 1)
  BY Domains DEF AddsInOutbox, LogInvariant
<1> QED
  BY <1>1, <1>3, <1>4, <1>5 DEF FollowsItsSiblings, SentBefore

(* ... and goes behind them; those that follow it find it there.           *)
LEMMA OrderMessageStreams ==
  ASSUME LogInvariant, StreamsInOrder, NEW n \in Node, OrderMessage(n)
  PROVE  StreamsInOrder'
<1>0. PICK head, top : head = outbox[n][1] /\ top = Len(order) + 1
  OBVIOUS
<1>1. /\ UNCHANGED <<position, polled>>
      /\ head \in Message
      /\ head.type = "add_event" => log' = Append(log, Content(head.event))
      /\ head.type = "mark_produced" => log' = log
  <2>1. UNCHANGED <<position, polled>> /\ head \in Message
    BY <1>0, OrderGrows
  <2>2. head.type = "add_event" => log' = Append(log, Content(head.event))
    BY <1>0, OrderGrows
  <2>3. head.type = "mark_produced" => log' = log
    BY <1>0, OrderGrows
  <2> QED
    BY <2>1, <2>2, <2>3
<1>2. /\ head.type \in {"add_event", "mark_produced"}
      /\ (head.type = "add_event" => Content(head.event) \in Record)
      /\ log \in Seq(Record) /\ Len(log) \in Nat /\ DOMAIN log = 1..Len(log)
  BY <1>1 DEF Message, Event, Content, Record, LogInvariant, TypeOK
<1>3. head.type = "add_event" =>
        /\ DOMAIN log' = 1..(Len(log) + 1)
        /\ \A k \in DOMAIN log : log'[k] = log[k]
        /\ log'[Len(log) + 1] = Content(head.event)
  BY <1>1, <1>2, AppendProperties
<1>4. \A id : IsPlaced(log, id) => IsPlaced(log', id)
  BY <1>1, <1>2, <1>3 DEF IsPlaced
<1>5. ASSUME NEW i \in AddsInOutbox(n)
      PROVE  \/ i - 1 \in AddsInOutbox(n)' /\ outbox'[n][i - 1] = outbox[n][i]
             \/ i = 1 /\ IsPlaced(log', outbox[n][i].event.id)
  <2>1. /\ outbox[n] \in Seq(Message) /\ outbox[n] # <<>>
        /\ outbox'[n] = Tail(outbox[n])
    BY DEF LogInvariant, TypeOK, OrderMessage
  <2>2. /\ DOMAIN outbox'[n] = 1..(Len(outbox[n]) - 1)
        /\ Len(outbox[n]) \in Nat
        /\ \A j \in 1..(Len(outbox[n]) - 1) : outbox'[n][j] = outbox[n][j + 1]
        /\ i \in 1..Len(outbox[n]) /\ outbox[n][i].type = "add_event"
    BY <2>1, HeadTailProperties DEF AddsInOutbox
  <2>3. CASE i = 1
    <3>1. head.type = "add_event" /\ Content(head.event).id = head.event.id
      BY <1>0, <2>2, <2>3 DEF Content
    <3>2. Len(log) + 1 \in DOMAIN log' /\ log'[Len(log) + 1].id = head.event.id
      BY <1>2, <1>3, <3>1
    <3> QED
      BY <1>0, <2>3, <3>2 DEF IsPlaced
  <2>4. CASE i # 1
    <3>1. i - 1 \in 1..(Len(outbox[n]) - 1) /\ (i - 1) + 1 = i
      BY <2>2, <2>4
    <3>2. outbox'[n][i - 1] = outbox[n][i]
      BY <2>2, <3>1
    <3> QED
      BY <2>2, <3>1, <3>2 DEF AddsInOutbox
  <2> QED
    BY <2>3, <2>4
<1>6. \A m \in Node : m # n => outbox'[m] = outbox[m]
  BY DEF LogInvariant, TypeOK, OrderMessage
<1>7. \A m \in Node : AddsInOutbox(m) \subseteq Nat \ {0}
  BY Domains DEF AddsInOutbox, LogInvariant
<1>8. ASSUME NEW m \in Node, NEW j \in Nat, NEW id,
             SentBefore(m, WasAt(m, n, j), id)
      PROVE  SentBefore(m, j, id)'
  <2>1. CASE m = n
    <3>1. SentBefore(n, j + 1, id)
      BY <1>8, <2>1 DEF WasAt
    <3>2. CASE IsPlaced(log, id)
      BY <1>4, <3>2 DEF SentBefore
    <3>3. ASSUME NEW i \in AddsInOutbox(n), i < j + 1, outbox[n][i].event.id = id
          PROVE  SentBefore(n, j, id)'
      <4>1. CASE i - 1 \in AddsInOutbox(n)' /\ outbox'[n][i - 1] = outbox[n][i]
        <5>1. i - 1 < j
          BY <1>7, <3>3
        <5> QED
          BY <3>3, <4>1, <5>1 DEF SentBefore
      <4>2. CASE IsPlaced(log', outbox[n][i].event.id)
        BY <3>3, <4>2 DEF SentBefore
      <4> QED
        BY <1>5, <4>1, <4>2
    <3> QED
      BY <2>1, <3>1, <3>2, <3>3 DEF SentBefore
  <2>2. CASE m # n
    BY <1>4, <1>6, <1>8, <2>2 DEF SentBefore, WasAt, AddsInOutbox
  <2> QED
    BY <2>1, <2>2
<1>9. ASSUME NEW m \in Node
      PROVE  /\ Len(outbox'[m]) \in Nat
             /\ Len(outbox[m]) + 1 = WasAt(m, n, Len(outbox'[m]) + 1)
  <2>1. outbox[m] \in Seq(Message) /\ outbox[n] \in Seq(Message) /\ outbox[n] # <<>>
        /\ outbox'[n] = Tail(outbox[n])
    BY DEF LogInvariant, TypeOK, OrderMessage
  <2>2. Len(Tail(outbox[n])) = Len(outbox[n]) - 1 /\ Len(outbox[n]) \in Nat
        /\ Len(outbox[n]) > 0
    BY <2>1, HeadTailProperties, EmptySeq
  <2>3. CASE m = n
    <3>1. Len(outbox'[m]) = Len(outbox[m]) - 1
      BY <2>1, <2>2, <2>3
    <3>2. WasAt(m, n, Len(outbox'[m]) + 1) = Len(outbox'[m]) + 1 + 1
      BY <2>3 DEF WasAt
    <3> HIDE <2>1
    <3> QED
      BY <2>2, <2>3, <3>1, <3>2
  <2>4. CASE m # n
    BY <1>6, <2>1, <2>4 DEF WasAt
  <2> QED
    BY <2>3, <2>4
<1>10. ASSUME NEW m \in Node, NEW j \in AddsInOutbox(m)'
       PROVE  FollowsItsSiblings(m, j, outbox[m][j].event)'
  <2>1. /\ j \in Nat \ {0} /\ WasAt(m, n, j) \in AddsInOutbox(m)
        /\ outbox'[m][j] = outbox[m][WasAt(m, n, j)]
    BY OutboxMovesUp
  <2>2. FollowsItsSiblings(m, WasAt(m, n, j), outbox'[m][j].event)
    BY <2>1 DEF StreamsInOrder
  <2> QED
    BY <1>8, <2>1, <2>2 DEF FollowsItsSiblings
<1>11. ASSUME NEW m \in Node, polled'[m] # Nil
       PROVE  FollowsItsSiblings(m, Len(outbox[m]) + 1, polled[m])'
  <2>1. FollowsItsSiblings(m, Len(outbox[m]) + 1, polled[m]) /\ polled'[m] = polled[m]
    BY <1>1, <1>11 DEF StreamsInOrder
  <2>2. /\ Len(outbox'[m]) + 1 \in Nat
        /\ FollowsItsSiblings(m, WasAt(m, n, Len(outbox'[m]) + 1), polled[m])
    BY <1>9, <2>1
  <2> QED
    BY <1>8, <2>1, <2>2 DEF FollowsItsSiblings
<1>12. ASSUME NEW m \in Node, NEW q \in Partition,
              NEW o \in 0..(position'[m][q] - 1)
       PROVE  \/ SentBefore(m, Len(outbox[m]) + 1, <<Topic[m], q, o>>)'
              \/ polled'[m] # Nil /\ polled'[m].id = <<Topic[m], q, o>>
  <2>1. \/ SentBefore(m, Len(outbox[m]) + 1, <<Topic[m], q, o>>)
        \/ polled[m] # Nil /\ polled[m].id = <<Topic[m], q, o>>
    BY <1>1 DEF StreamsInOrder
  <2>2. CASE SentBefore(m, Len(outbox[m]) + 1, <<Topic[m], q, o>>)
    <3>1. /\ Len(outbox'[m]) + 1 \in Nat
          /\ SentBefore(m, WasAt(m, n, Len(outbox'[m]) + 1), <<Topic[m], q, o>>)
      BY <1>9, <2>2
    <3> QED
      BY <1>8, <3>1
  <2> QED
    BY <1>1, <2>1, <2>2
<1>13. ASSUME NEW k \in DOMAIN log'
       PROVE  /\ log'[k].id \in Id(log'[k].payload)
              /\ \A o \in 0..(log'[k].id[3] - 1) :
                   \E i \in 1..(k - 1) : log'[i].id = Sibling(log'[k].id, o)
  <2>1. CASE k \in DOMAIN log
    <3>1. /\ log[k].id \in Id(log[k].payload)
          /\ \A o \in 0..(log[k].id[3] - 1) :
               \E i \in 1..(k - 1) : log[i].id = Sibling(log[k].id, o)
      BY <2>1 DEF StreamsInOrder
    <3>2. log'[k] = log[k] /\ \A i \in 1..(k - 1) : log'[i] = log[i]
      BY <1>1, <1>2, <1>3, <2>1
    <3> QED
      BY <3>1, <3>2
  <2>2. CASE k \notin DOMAIN log
    <3>1. head.type = "add_event" /\ k = Len(log) + 1
      BY <1>1, <1>2, <1>3, <2>2
    <3>2. /\ log'[k].id = head.event.id
          /\ log'[k].payload = head.event.payload
      BY <1>3, <3>1 DEF Content
    <3>3. /\ head.event.payload = n /\ head.event.id \in Id(n)
          /\ \A o \in 0..(head.event.id[3] - 1) :
               IsPlaced(log, Sibling(head.event.id, o))
      BY <1>0, <3>1, HeadFindsItsSiblings
    <3>4. \A o \in 0..(head.event.id[3] - 1) :
            \E i \in 1..(k - 1) : log'[i].id = Sibling(head.event.id, o)
      BY <1>2, <1>3, <3>1, <3>3 DEF IsPlaced
    <3> QED
      BY <3>2, <3>3, <3>4
  <2> QED
    BY <2>1, <2>2
<1> QED
  BY <1>10, <1>11, <1>12, <1>13 DEF StreamsInOrder

(* The other steps have nothing to do with the records under way.          *)
LEMMA StreamsUnchanged ==
  ASSUME StreamsInOrder, UNCHANGED <<position, polled, outbox, log>>
  PROVE  StreamsInOrder'
<1>1. \A n, j, id : SentBefore(n, j, id)' = SentBefore(n, j, id)
  BY DEF SentBefore, AddsInOutbox
<1>2. \A n, j, event : FollowsItsSiblings(n, j, event)' = FollowsItsSiblings(n, j, event)
  BY <1>1 DEF FollowsItsSiblings
<1>3. \A n : AddsInOutbox(n)' = AddsInOutbox(n)
  BY DEF AddsInOutbox
<1>4. ASSUME NEW n \in Node
      PROVE  /\ \A j \in AddsInOutbox(n)' :
                  FollowsItsSiblings(n, j, outbox[n][j].event)'
             /\ polled'[n] # Nil =>
                  FollowsItsSiblings(n, Len(outbox[n]) + 1, polled[n])'
  BY <1>2, <1>3 DEF StreamsInOrder
<1>6. ASSUME NEW n \in Node, NEW p \in Partition,
             NEW o \in 0..(position'[n][p] - 1)
      PROVE  \/ SentBefore(n, Len(outbox[n]) + 1, <<Topic[n], p, o>>)'
             \/ polled'[n] # Nil /\ polled'[n].id = <<Topic[n], p, o>>
  BY <1>1 DEF StreamsInOrder
<1>5. \A k \in DOMAIN log' :
        /\ log'[k].id \in Id(log'[k].payload)
        /\ \A o \in 0..(log'[k].id[3] - 1) :
             \E i \in 1..(k - 1) : log'[i].id = Sibling(log'[k].id, o)
  BY DEF StreamsInOrder
<1> QED
  BY <1>4, <1>5, <1>6 DEF StreamsInOrder

LEMMA NextStreams ==
  ASSUME LogInvariant, StreamsInOrder, [Next]_vars
  PROVE  StreamsInOrder'
<1> USE DEF kafkaThread, derechoThread, multicast, history
<1>1. CASE UNCHANGED vars
  BY <1>1, StreamsUnchanged DEF vars
<1>2. ASSUME NEW n \in Node, QueryEvents(n) \/ ReplicateEvent(n) PROVE StreamsInOrder'
  BY <1>2, StreamsUnchanged DEF QueryEvents, AcceptReply, ReplicateEvent, GoOn
<1>3. ASSUME NEW n \in Node, DeliverAddEvent(n) \/ DeliverMarkProduced(n)
      PROVE  StreamsInOrder'
  BY <1>3, StreamsUnchanged DEF DeliverAddEvent, DeliverMarkProduced, Deliver
<1>4. CASE Next
  <2>1. PICK n \in Node : KafkaPolling(n) \/ DerechoPolling(n) \/ Multicast(n)
    BY <1>4 DEF Next
  <2> QED
    BY <1>2, <1>3, <2>1, KafkaPollStreams, SendAddEventStreams, SendMarkStreams,
       OrderMessageStreams
       DEF KafkaPolling, DerechoPolling, Multicast
<1> QED
  BY <1>1, <1>4

(* The records of a source partition are ordered one after the other, ...  *)
THEOREM PartitionsKeepTheirOrder ==
  ASSUME UniqueIds PROVE Spec => []StreamsInOrder
<1>1. SafetyInvariant /\ StreamsInOrder /\ [Next]_vars => StreamsInOrder'
  BY NextStreams DEF SafetyInvariant
<1>2. Spec => []SafetyInvariant
  BY Safe
<1> QED
  BY <1>1, <1>2, InitStreams, PTL DEF Spec

----------------------------------------------------------------------------
(* The entries of n's partition p in the log.                              *)
Ordered(n, p) == {k \in DOMAIN log : log[k].payload = n /\ log[k].id[2] = p}

(* As many of them are in the log as its place in the partition says.      *)
LEMMA PlaceInPartition ==
  ASSUME UniqueIds, LogInvariant, StreamsInOrder, NEW n \in Node,
         NEW event, event.id \in Id(n),
         \A k \in DOMAIN log : log[k].id # event.id,
         \A o \in 0..(event.id[3] - 1) : IsPlaced(log, Sibling(event.id, o))
  PROVE  Cardinality(Ordered(n, event.id[2])) = event.id[3]
<1> DEFINE p == event.id[2]
           place == event.id[3]
           S == Ordered(n, p)
           f == [k \in S |-> log[k].id[3]]
<1>1. /\ event.id = <<Topic[n], p, place>>
      /\ p \in Partition /\ place \in Nat
      /\ \A o : Sibling(event.id, o) = <<Topic[n], p, o>>
  BY SettingsAssumption DEF Id, Sibling
<1>2. /\ DOMAIN log = 1..Len(log) /\ Len(log) \in Nat
      /\ \A k, l \in DOMAIN log : log[k].id = log[l].id => k = l
      /\ \A k \in DOMAIN log : log[k].payload \in Node
  <2>1. log \in Seq(Record)
    BY DEF LogInvariant, TypeOK
  <2>2. /\ DOMAIN log = 1..Len(log) /\ Len(log) \in Nat
        /\ \A k \in DOMAIN log : log[k] \in Record
    BY <2>1
  <2> QED
    BY <2>2 DEF LogInvariant, EventsOnce, Record
<1>3. \A k \in S : /\ k \in DOMAIN log
                   /\ log[k].id \in Id(n)
                   /\ log[k].id = <<Topic[n], p, log[k].id[3]>>
                   /\ log[k].id[3] \in Nat
  BY SettingsAssumption DEF StreamsInOrder, Ordered, Id
<1>4. ASSUME NEW k \in S PROVE log[k].id[3] \in 0..(place - 1)
  <2>1. log[k].id[3] # place
    BY <1>1, <1>3
  <2>2. ASSUME log[k].id[3] > place PROVE FALSE
    <3>1. place \in 0..(log[k].id[3] - 1)
      BY <1>1, <1>3, <2>2
    <3>2. PICK i \in 1..(k - 1) : log[i].id = Sibling(log[k].id, place)
      BY <1>3, <3>1 DEF StreamsInOrder
    <3>3. log[i].id = event.id
      BY <1>1, <1>3, <3>2 DEF Sibling
    <3>4. i \in DOMAIN log
      BY <1>2, <1>3, <3>2
    <3> QED
      BY <3>3, <3>4
  <2> QED
    BY <1>1, <1>3, <2>1, <2>2
<1>5. ASSUME NEW o \in 0..(place - 1) PROVE \E k \in S : log[k].id[3] = o
  <2>1. PICK k \in DOMAIN log : log[k].id = <<Topic[n], p, o>>
    BY <1>1 DEF IsPlaced
  <2>2. log[k].id \in Id(log[k].payload) /\ log[k].payload \in Node
    BY <1>2 DEF StreamsInOrder
  <2>3. log[k].id \in Id(n)
    <3>1. place \in 0..(Records[n] - 1) /\ Records[n] \in Nat
      BY <1>1, SettingsAssumption DEF Id
    <3>2. o \in 0..(Records[n] - 1)
      BY <1>1, <3>1
    <3> QED
      BY <1>1, <2>1, <3>2 DEF Id
  <2>4. log[k].payload = n
    BY <2>2, <2>3 DEF UniqueIds
  <2> QED
    BY <2>1, <2>4 DEF Ordered
<1>6. f \in Bijection(S, 0..(place - 1))
  <2> HIDE DEF S, place
  <2>1. f \in [S -> 0..(place - 1)]
    BY <1>4
  <2>2. \A k, l \in S : f[k] = f[l] => k = l
    BY <1>2, <1>3
  <2>3. \A o \in 0..(place - 1) : \E k \in S : f[k] = o
    BY <1>5
  <2> HIDE DEF f
  <2> QED
    BY <2>1, <2>2, <2>3 DEF Bijection, Injection, Surjection, IsInjective
<1>7. IsFiniteSet(S)
  <2>1. IsFiniteSet(1..Len(log)) /\ S \subseteq 1..Len(log)
    BY <1>2, FS_Interval DEF Ordered
  <2> QED
    BY <2>1, FS_Subset
<1>8. Cardinality(0..(place - 1)) = Cardinality(S)
  <2> HIDE DEF S, place, f
  <2> QED
    BY <1>6, <1>7, FS_Bijection DEF ExistsBijection
<1>9. Cardinality(0..(place - 1)) = place
  <2> HIDE DEF place
  <2>1. 0 \in Int /\ place - 1 \in Int /\ (0 > place - 1 => place = 0)
        /\ (place - 1) - 0 + 1 = place
    BY <1>1
  <2> QED
    BY <2>1, FS_Interval
<1> QED
  BY <1>8, <1>9

(* What has been agreed on of a partition, in the words of TotalOrder.     *)
LEMMA AgreedIsOrdered ==
  ASSUME NEW n, NEW p
  PROVE  Agreement!Agreed(<<n, p>>) = Cardinality(Ordered(n, p))
<1>1. {i \in DOMAIN Entries(log) : Entries(log)[i][1] = <<n, p>>} = Ordered(n, p)
  BY DEF Entries, Entry, Ordered
<1> QED
  BY <1>1 DEF Agreement!Agreed, Agreement!Cardinality, Cardinality

(* The log gets the next entry of a partition, ...                         *)
LEMMA OrderMessageAgrees ==
  ASSUME UniqueIds, LogInvariant, StreamsInOrder, NEW n \in Node,
         OrderMessage(n)
  PROVE  \/ UNCHANGED <<log, global>>
         \/ \E s \in Node \X Partition :
              /\ Agreement!Agreed(s) < Records[s[1]]
              /\ Entries(log') = Append(Entries(log), <<s, Agreement!Agreed(s)>>)
              /\ UNCHANGED global
<1>0. PICK head, top : head = outbox[n][1] /\ top = Len(order) + 1
  OBVIOUS
<1>1. /\ UNCHANGED global
      /\ head \in Message
      /\ head.type = "add_event" => log' = Append(log, Content(head.event))
      /\ head.type = "mark_produced" => log' = log
  BY <1>0, OrderGrows
<1>2. CASE head.type = "mark_produced"
  BY <1>1, <1>2
<1>3. CASE head.type = "add_event"
  <2> DEFINE event == head.event
             s == <<n, event.id[2]>>
  <2>1. /\ event.payload = n /\ event.id \in Id(n)
        /\ Cardinality(Ordered(n, event.id[2])) = event.id[3]
    BY <1>0, <1>3, HeadFindsItsSiblings, PlaceInPartition
  <2>2. Agreement!Agreed(s) = event.id[3]
    BY <2>1, AgreedIsOrdered
  <2>3. /\ s \in Node \X Partition
        /\ event.id[3] < Records[n]
    BY <2>1, SettingsAssumption DEF Id
  <2>4. Content(event) \in Record /\ log \in Seq(Record)
        /\ Entry(Content(event)) = <<s, event.id[3]>>
    BY <1>1, <1>3, <2>1 DEF Message, Event, Content, Record, Entry,
       LogInvariant, TypeOK
  <2>5. Entries(log') = Append(Entries(log), <<s, event.id[3]>>)
    BY <1>1, <1>3, <2>4 DEF Entries
  <2> QED
    BY <1>1, <2>2, <2>3, <2>5
<1> QED
  BY <1>1, <1>2, <1>3 DEF Message

(* ... a "-global" topic the next entry of the log, ...                    *)
LEMMA ReplicateEventCopies ==
  ASSUME SafetyInvariant, NEW n \in Node, ReplicateEvent(n)
  PROVE  [Agreement!Step]_(Agreement!agreement)
<1> DEFINE next == Content(Head(batch[n]))
<1>1. /\ UNCHANGED log
      /\ global' = [global EXCEPT ![n] = Append(@, next)]
      /\ batch[n] # <<>> /\ batch[n] \in Seq(Event)
  BY DEF ReplicateEvent, GoOn, history, SafetyInvariant, LogInvariant, TypeOK
<1>2. /\ global \in [Node -> Seq(Record)] /\ log \in Seq(Record)
      /\ Copied(n) \in Nat /\ Len(log) \in Nat
      /\ AddedCount(n) <= Len(log) /\ AddedCount(n) \in Nat
  BY Counts DEF SafetyInvariant, LogInvariant, TypeOK
<1>3. 1 \in DOMAIN batch[n] /\ Head(batch[n]) = batch[n][1]
      /\ Len(batch[n]) \in Nat /\ Len(batch[n]) >= 1
  BY <1>1, EmptySeq
<1>4. next = log[Copied(n) + 1] /\ Copied(n) < Len(log)
  BY <1>2, <1>3 DEF SafetyInvariant, LogInvariant, CopiesAreAPrefix
<1>5. Copied(n) + 1 \in DOMAIN log
  BY <1>2, <1>4
<1> DEFINE copies == [m \in Node |-> Entries(global[m])]
<1>6. next \in Record
  BY <1>2, <1>4, <1>5
<1>7. Entries(Append(global[n], next)) = Append(Entries(global[n]), Entry(next))
  BY <1>2, <1>6 DEF Entries
<1>8. copies' = [copies EXCEPT ![n] = Append(@, Entry(next))]
  BY <1>1, <1>2, <1>7
<1>9. Entries(log)[Len(copies[n]) + 1] = Entry(next)
      /\ Len(copies[n]) < Len(Entries(log))
  BY <1>2, <1>4, <1>5 DEF Entries, Copied
<1>10. Agreement!Copy(n)
  BY <1>1, <1>8, <1>9 DEF Agreement!Copy
<1> QED
  BY <1>10 DEF Agreement!Step

(* ... and nothing else changes either of them.                            *)
LEMMA StepIsAStep ==
  ASSUME UniqueIds, SafetyInvariant, StreamsInOrder, [Next]_vars
  PROVE  [Agreement!Step]_(Agreement!agreement)
<1> USE DEF kafkaThread, derechoThread, multicast, history
<1>1. ASSUME UNCHANGED <<log, global>>
      PROVE  [Agreement!Step]_(Agreement!agreement)
  BY <1>1 DEF Agreement!agreement, Entries
<1>2. CASE UNCHANGED vars
  BY <1>1, <1>2 DEF vars
<1>3. ASSUME NEW n \in Node, NEW p \in Partition, KafkaPoll(n, p)
      PROVE  UNCHANGED <<log, global>>
  BY <1>3 DEF KafkaPoll
<1>4. ASSUME NEW n \in Node, SendAddEvent(n) \/ SendMarkProduced(n) \/ QueryEvents(n)
      PROVE  UNCHANGED <<log, global>>
  BY <1>4 DEF SendAddEvent, SendMarkProduced, SendMark, QueryEvents, AcceptReply
<1>5. ASSUME NEW n \in Node, DeliverAddEvent(n) \/ DeliverMarkProduced(n)
      PROVE  UNCHANGED <<log, global>>
  BY <1>5 DEF DeliverAddEvent, DeliverMarkProduced, Deliver
<1>6. ASSUME NEW n \in Node, OrderMessage(n)
      PROVE  [Agreement!Step]_(Agreement!agreement)
  <2>1. ASSUME NEW s \in Node \X Partition,
               Agreement!Agreed(s) < Records[s[1]],
               Entries(log') = Append(Entries(log), <<s, Agreement!Agreed(s)>>),
               UNCHANGED global
        PROVE  Agreement!Agree(s)
    BY <2>1 DEF Agreement!Agree
  <2> QED
    BY <1>1, <1>6, <2>1, OrderMessageAgrees DEF SafetyInvariant, Agreement!Step
<1>7. CASE Next
  <2>1. PICK n \in Node : KafkaPolling(n) \/ DerechoPolling(n) \/ Multicast(n)
    BY <1>7 DEF Next
  <2> QED
    BY <1>1, <1>3, <1>4, <1>5, <1>6, <2>1, ReplicateEventCopies
       DEF SafetyInvariant, KafkaPolling, DerechoPolling, Multicast
<1> QED
  BY <1>2, <1>7

(* ... so that the group implements TotalOrder: one log that merges the    *)
(* partitions of all clusters, each in its order, and copies of it.        *)
THEOREM GroupKeepsThePromise ==
  ASSUME UniqueIds PROVE Spec => KeepsThePromise
<1>1. Init => Agreement!Start
  BY DEF Init, Agreement!Start, Entries
<1>2. SafetyInvariant /\ StreamsInOrder /\ [Next]_vars
        => [Agreement!Step]_(Agreement!agreement)
  BY StepIsAStep
<1>3. Spec => []SafetyInvariant
  BY Safe
<1>4. Spec => []StreamsInOrder
  BY PartitionsKeepTheirOrder
<1> QED
  BY <1>1, <1>2, <1>3, <1>4, PTL DEF Spec, KeepsThePromise, Agreement!Promise

----------------------------------------------------------------------------
LEMMA InitArrive == Init => OwnMarksArrive
BY DEF Init, OwnMarksArrive

(* What the invariant depends on, but for the marks sent and the place in  *)
(* the loop.                                                               *)
LEMMA ArriveUnchanged ==
  ASSUME OwnMarksArrive,
         UNCHANGED <<last, order, delivered, events, global, log, logged>>,
         \A n \in Node : pc[n] = "mark" => pc'[n] = "mark",
         \A n \in Node : \A j \in MarksInOutbox(n) :
           j \in MarksInOutbox(n)' /\ outbox'[n][j] = outbox[n][j]
  PROVE  OwnMarksArrive'
<1> SUFFICES ASSUME NEW n \in Node, last[n] # Nil
             PROVE  /\ IsPlaced(log', last[n]) /\ Place(log', last[n]) <= Copied(n)'
                    /\ pc'[n] # "mark" =>
                         \/ MarkUnderWay(n, last[n])'
                         \/ MarkedThrough(n, Place(log, last[n]))'
  BY DEF OwnMarksArrive
<1>1. IsPlaced(log', last[n]) /\ Place(log', last[n]) <= Copied(n)'
  BY DEF OwnMarksArrive, Copied
<1>2. ASSUME MarkUnderWay(n, last[n]) PROVE MarkUnderWay(n, last[n])'
  BY <1>2 DEF MarkUnderWay, MarksInOrder
<1>3. ASSUME MarkedThrough(n, Place(log, last[n]))
      PROVE  MarkedThrough(n, Place(log, last[n]))'
  BY <1>3 DEF MarkedThrough, Forgotten, AddedCount, LogLen
<1> QED
  BY <1>1, <1>2, <1>3 DEF OwnMarksArrive

(* derecho_polling: after the batch, last_event is what was copied last.   *)
LEMMA ReplicateEventArrive ==
  ASSUME SafetyInvariant, SafetyInvariant', OwnMarksArrive,
         NEW n \in Node, ReplicateEvent(n)
  PROVE  OwnMarksArrive'
<1>1. /\ UNCHANGED <<outbox, order, delivered, events, log, logged>>
      /\ pc[n] = "replicate"
      /\ global' = [global EXCEPT ![n] = Append(@, Content(Head(batch[n])))]
      /\ \/ UNCHANGED <<pc, last>>
         \/ /\ pc' = [pc EXCEPT ![n] = "mark"]
            /\ last' = [last EXCEPT ![n] = Head(batch[n]).id]
  BY DEF ReplicateEvent, GoOn, kafkaThread, multicast, history
<1>2. \A m \in Node : /\ Copied(m) \in Nat /\ Copied(m)' \in Nat
                      /\ Copied(m)' >= Copied(m)
                      /\ m # n => /\ Copied(m)' = Copied(m) /\ pc'[m] = pc[m]
                                  /\ last'[m] = last[m]
  <2>1. \A m \in Node : Copied(m) \in Nat /\ Copied(m)' \in Nat
    <3>1. \A m \in Node : global[m] \in Seq(Record) /\ global'[m] \in Seq(Record)
      BY DEF SafetyInvariant, LogInvariant, TypeOK
    <3> QED
      BY <3>1 DEF Copied
  <2>2. \A m \in Node : m # n => /\ global'[m] = global[m] /\ pc'[m] = pc[m]
                                 /\ last'[m] = last[m]
    BY <1>1 DEF SafetyInvariant, LogInvariant, TypeOK
  <2>3. Copied(n)' = Copied(n) + 1
    <3>1. global'[n] = Append(global[n], Content(Head(batch[n])))
          /\ global[n] \in Seq(Record) /\ global'[n] \in Seq(Record)
      BY <1>1 DEF SafetyInvariant, LogInvariant, TypeOK
    <3>2. Len(global'[n]) = Len(global[n]) + 1
      BY <3>1
    <3> QED
      BY <3>2 DEF Copied
  <2> QED
    BY <2>1, <2>2, <2>3 DEF Copied
<1>3. ASSUME NEW m \in Node, last'[m] = last[m], pc'[m] = pc[m], last[m] # Nil
      PROVE  /\ IsPlaced(log', last'[m]) /\ Place(log', last'[m]) <= Copied(m)'
             /\ pc'[m] # "mark" => \/ MarkUnderWay(m, last[m])'
                                   \/ MarkedThrough(m, Place(log, last[m]))'
  <2>1. /\ IsPlaced(log, last[m]) /\ Place(log, last[m]) <= Copied(m)
        /\ pc[m] # "mark" => \/ MarkUnderWay(m, last[m])
                             \/ MarkedThrough(m, Place(log, last[m]))
    BY <1>3 DEF OwnMarksArrive
  <2>2. Place(log, last[m]) \in DOMAIN log /\ DOMAIN log \subseteq Nat
    <3>1. Place(log, last[m]) \in DOMAIN log
      BY <2>1, PlaceIsThere
    <3>2. log \in Seq(Record)
      BY DEF SafetyInvariant, LogInvariant, TypeOK
    <3> QED
      BY <3>1, <3>2
  <2>3. MarkUnderWay(m, last[m])' <=> MarkUnderWay(m, last[m])
    BY <1>1, <1>3 DEF MarkUnderWay, MarksInOrder, MarksInOutbox, AddsInOutbox
  <2>4. MarkedThrough(m, Place(log, last[m]))' <=> MarkedThrough(m, Place(log, last[m]))
    BY <1>1, <1>3 DEF MarkedThrough, Forgotten, AddedCount, LogLen
  <2>5. Place(log', last'[m]) <= Copied(m)'
    <3>1. Place(log', last'[m]) = Place(log, last[m])
      BY <1>1, <1>3
    <3> QED
      BY <1>2, <2>1, <2>2, <3>1
  <2> QED
    BY <1>1, <1>3, <2>1, <2>3, <2>4, <2>5
<1>4. ASSUME last'[n] # Nil, pc'[n] = "mark"
      PROVE  IsPlaced(log', last'[n]) /\ Place(log', last'[n]) <= Copied(n)'
  <2>1. Copied(n)' > 0 /\ last'[n] = log'[Copied(n)'].id
    BY <1>4 DEF SafetyInvariant, LogInvariant, CopiesAreAPrefix
  <2>2. Copied(n)' \in DOMAIN log' /\ Copied(n)' \in Nat
    <3>1. /\ Copied(n)' + Len(batch'[n]) <= AddedCount(n)'
          /\ Len(batch'[n]) \in Nat
      BY DEF SafetyInvariant, LogInvariant, CopiesAreAPrefix, TypeOK
    <3>2. AddedCount(n)' \in 0..Len(log') /\ Len(log') \in Nat
      <4>1. AddedCount(n) \in 0..Len(log) /\ Len(log) \in Nat
        BY Counts DEF SafetyInvariant, LogInvariant
      <4>2. AddedCount(n)' = AddedCount(n)
        BY <1>1 DEF AddedCount, LogLen
      <4> QED
        BY <1>1, <4>1, <4>2
    <3>3. DOMAIN log' = 1..Len(log')
      BY DEF SafetyInvariant, LogInvariant, TypeOK
    <3> QED
      BY <1>2, <2>1, <3>1, <3>2, <3>3
  <2>3. Distinct(log')
    BY DEF Distinct, SafetyInvariant, LogInvariant, EventsOnce
  <2> QED
    BY <2>1, <2>2, <2>3, PlaceIsUnique
<1>5. ASSUME NEW m \in Node
      PROVE  \/ last'[m] = last[m] /\ pc'[m] = pc[m]
             \/ m = n /\ pc'[m] = "mark"
  <2>1. pc' = [pc EXCEPT ![n] = "mark"] => pc'[n] = "mark"
    BY DEF SafetyInvariant, LogInvariant, TypeOK
  <2> QED
    BY <1>1, <1>2, <2>1
<1> QED
  BY <1>3, <1>4, <1>5 DEF OwnMarksArrive

(* derecho_polling sends the mark for last_event.                          *)
LEMMA SendMarkArrive ==
  ASSUME SafetyInvariant, OwnMarksArrive, NEW n \in Node, SendMarkProduced(n)
  PROVE  OwnMarksArrive'
<1> DEFINE mark == MarkMessage(n, last[n])
           new == Len(outbox[n]) + 1
<1>1. /\ UNCHANGED <<last, order, delivered, events, global, log, logged>>
      /\ outbox' = [outbox EXCEPT ![n] = Append(@, mark)]
      /\ pc' = [pc EXCEPT ![n] = "query"]
      /\ last[n] \in Ids /\ outbox[n] \in Seq(Message)
  BY DEF SendMarkProduced, SendMark, OrderedSend, kafkaThread, history,
         SafetyInvariant, LogInvariant, TypeOK
<1>2. mark \in Message /\ mark.type # "add_event" /\ mark.id = last[n]
  BY <1>1 DEF MarkMessage, Message
<1> HIDE DEF mark
<1>3. /\ \A m \in Node : m # n => outbox'[m] = outbox[m] /\ pc'[m] = pc[m]
      /\ outbox'[n] = Append(outbox[n], mark)
  BY <1>1 DEF SafetyInvariant, LogInvariant, TypeOK
<1>4. /\ DOMAIN outbox'[n] = 1..new /\ DOMAIN outbox[n] = 1..(new - 1)
      /\ new \in Nat /\ new >= 1
      /\ \A j \in 1..(new - 1) : outbox'[n][j] = outbox[n][j]
      /\ outbox'[n][new] = mark
  BY <1>1, <1>2, <1>3, AppendProperties
<1> HIDE DEF new
<1>5. new \in MarksInOutbox(n)'
  BY <1>2, <1>4 DEF MarksInOutbox, AddsInOutbox
<1>6. MarkUnderWay(n, last[n])'
  BY <1>1, <1>2, <1>4, <1>5 DEF MarkUnderWay
<1>7. ASSUME NEW m \in Node, last'[m] # Nil
      PROVE  /\ IsPlaced(log', last'[m]) /\ Place(log', last'[m]) <= Copied(m)'
             /\ pc'[m] # "mark" => \/ MarkUnderWay(m, last[m])'
                                   \/ MarkedThrough(m, Place(log, last[m]))'
  <2>1. IsPlaced(log', last'[m]) /\ Place(log', last'[m]) <= Copied(m)'
    BY <1>1, <1>7 DEF OwnMarksArrive, Copied
  <2>2. CASE m # n
    <3>1. MarkUnderWay(m, last[m])' <=> MarkUnderWay(m, last[m])
      BY <1>1, <1>3, <2>2 DEF MarkUnderWay, MarksInOrder, MarksInOutbox, AddsInOutbox
    <3>2. MarkedThrough(m, Place(log, last[m]))' <=> MarkedThrough(m, Place(log, last[m]))
      BY <1>1 DEF MarkedThrough, Forgotten, AddedCount, LogLen
    <3> QED
      BY <1>1, <1>3, <1>7, <2>1, <2>2, <3>1, <3>2 DEF OwnMarksArrive
  <2> QED
    BY <1>6, <2>1, <2>2
<1> QED
  BY <1>1, <1>7 DEF OwnMarksArrive

(* kafka_polling sends behind the marks.                                   *)
LEMMA SendAddEventArrive ==
  ASSUME SafetyInvariant, OwnMarksArrive, NEW n \in Node, SendAddEvent(n)
  PROVE  OwnMarksArrive'
<1> DEFINE new == Len(outbox[n]) + 1
<1>1. /\ UNCHANGED <<order, delivered, events, global, log, logged, pc>>
      /\ \A m \in Node : m # n => outbox'[m] = outbox[m]
      /\ DOMAIN outbox'[n] = 1..new /\ DOMAIN outbox[n] = 1..(new - 1)
      /\ new \in Nat
      /\ \A j \in 1..(new - 1) : outbox'[n][j] = outbox[n][j]
  BY SendAddEventAppends DEF SafetyInvariant
<1>2. UNCHANGED last
  BY DEF SendAddEvent, derechoThread
<1> HIDE DEF new
<1>3. ASSUME NEW m \in Node, NEW j \in MarksInOutbox(m)
      PROVE  j \in MarksInOutbox(m)' /\ outbox'[m][j] = outbox[m][j]
  <2>1. CASE m # n
    BY <1>1, <1>3, <2>1 DEF MarksInOutbox, AddsInOutbox
  <2>2. CASE m = n
    <3>1. j \in 1..(new - 1) /\ j \in 1..new /\ outbox[n][j].type # "add_event"
      BY <1>1, <1>3, <2>2 DEF MarksInOutbox, AddsInOutbox
    <3> QED
      BY <1>1, <2>2, <3>1 DEF MarksInOutbox, AddsInOutbox
  <2> QED
    BY <2>1, <2>2
<1> QED
  BY <1>1, <1>2, <1>3, ArriveUnchanged

(* Derecho moves a mark from the window to the order.                      *)
LEMMA OrderMessageArrive ==
  ASSUME UniqueIds, SafetyInvariant, OwnMarksArrive,
         NEW n \in Node, OrderMessage(n)
  PROVE  OwnMarksArrive'
<1>0. PICK head, top : head = outbox[n][1] /\ top = Len(order) + 1
  OBVIOUS
<1>1. /\ UNCHANGED <<pc, last, delivered, events, global>>
      /\ head \in Message
      /\ top \in Nat /\ Len(order') = top
      /\ order'[top] = head
      /\ \A i \in 1..Len(order) : order'[i] = order[i]
  BY <1>0, OrderGrows DEF SafetyInvariant
<1>2. /\ \A m \in Node : Copied(m)' = Copied(m) /\ Forgotten(m)' = Forgotten(m)
      /\ \A id : IsPlaced(log, id) => /\ IsPlaced(log, id)'
                                      /\ Place(log, id)' = Place(log, id)
  <2>1. UNCHANGED global
    BY DEF OrderMessage
  <2> QED
    BY <2>1, OrderMessageLog DEF SafetyInvariant, Copied
<1>3. DOMAIN order = 1..Len(order) /\ Len(order) \in Nat
  BY DEF SafetyInvariant, LogInvariant, TypeOK
<1>4. DOMAIN order' = 1..top
  <2>1. order' \in Seq(Message)
    BY NextType DEF SafetyInvariant, LogInvariant, TypeOK, Next, Multicast
  <2> QED
    BY <1>1, <2>1
<1>5. ASSUME NEW m \in Node, NEW id, MarkUnderWay(m, id)
      PROVE  MarkUnderWay(m, id)'
  <2>1. ASSUME NEW i \in MarksInOrder(m), delivered[m] < i, order[i].id = id
        PROVE  MarkUnderWay(m, id)'
    <3>1. i \in 1..Len(order) /\ i \in 1..top
      BY <1>0, <1>3 DEF MarksInOrder
    <3>2. i \in MarksInOrder(m)' /\ order'[i] = order[i]
      BY <1>1, <1>4, <3>1 DEF MarksInOrder
    <3> QED
      BY <1>1, <2>1, <3>2 DEF MarkUnderWay
  <2>2. ASSUME NEW j \in MarksInOutbox(m), outbox[m][j].id = id
        PROVE  MarkUnderWay(m, id)'
    <3>1. /\ outbox[n] \in Seq(Message) /\ outbox[n] # <<>>
          /\ outbox'[n] = Tail(outbox[n]) /\ (m # n => outbox'[m] = outbox[m])
      BY DEF SafetyInvariant, LogInvariant, TypeOK, OrderMessage
    <3>2. CASE m # n
      BY <2>2, <3>1, <3>2 DEF MarkUnderWay, MarksInOutbox, AddsInOutbox
    <3>3. CASE m = n /\ j = 1
      <4>1. head.type # "add_event" /\ head.derecho_id = n /\ head.id = id
        BY <1>0, <2>2, <3>3
           DEF SafetyInvariant, LogInvariant, MarksArePlaced, MarksInOutbox, AddsInOutbox
      <4>2. head.type = "mark_produced"
        BY <1>1, <4>1 DEF Message
      <4>3. top \in MarksInOrder(n)'
        <5>1. top \in DOMAIN order'
          BY <1>0, <1>3, <1>4
        <5> QED
          BY <1>1, <4>1, <4>2, <5>1 DEF MarksInOrder
      <4>4. delivered'[n] < top
        <5>1. delivered[n] \in 0..Len(order)
          BY Counts DEF SafetyInvariant, LogInvariant
        <5> QED
          BY <1>0, <1>1, <1>3, <5>1
      <4> QED
        BY <1>1, <3>3, <4>1, <4>3, <4>4 DEF MarkUnderWay
    <3>4. CASE m = n /\ j # 1
      <4>1. /\ Len(Tail(outbox[n])) = Len(outbox[n]) - 1
            /\ Len(outbox[n]) \in Nat /\ DOMAIN outbox[n] = 1..Len(outbox[n])
            /\ \A l \in 1..(Len(outbox[n]) - 1) : Tail(outbox[n])[l] = outbox[n][l + 1]
            /\ Tail(outbox[n]) \in Seq(Message)
        BY <3>1, HeadTailProperties
      <4>2. PICK l : l = j - 1
        OBVIOUS
      <4>3. j \in 1..Len(outbox[n]) /\ outbox[n][j].type # "add_event"
        BY <3>4, <4>1 DEF MarksInOutbox, AddsInOutbox
      <4>4. l \in 1..(Len(outbox[n]) - 1) /\ l + 1 = j
        BY <3>4, <4>1, <4>2, <4>3
      <4>5. l \in DOMAIN outbox'[n] /\ outbox'[n][l] = outbox[n][j]
        BY <3>1, <4>1, <4>4
      <4> QED
        BY <2>2, <3>4, <4>3, <4>5 DEF MarkUnderWay, MarksInOutbox, AddsInOutbox
    <3> QED
      BY <3>2, <3>3, <3>4
  <2> QED
    BY <1>5, <2>1, <2>2 DEF MarkUnderWay
<1>6. ASSUME NEW m \in Node, last'[m] # Nil
      PROVE  /\ IsPlaced(log', last'[m]) /\ Place(log', last'[m]) <= Copied(m)'
             /\ pc'[m] # "mark" => \/ MarkUnderWay(m, last[m])'
                                   \/ MarkedThrough(m, Place(log, last[m]))'
  <2>0. PICK id : id = last[m]
    OBVIOUS
  <2>1. /\ IsPlaced(log, id) /\ Place(log, id) <= Copied(m)
        /\ pc[m] # "mark" => \/ MarkUnderWay(m, id)
                             \/ MarkedThrough(m, Place(log, id))
    BY <1>1, <1>6, <2>0 DEF OwnMarksArrive
  <2>2. IsPlaced(log', id) /\ Place(log', id) = Place(log, id)
    BY <1>2, <2>1 DEF IsPlaced, Place
  <2>3. MarkedThrough(m, Place(log, id)) => MarkedThrough(m, Place(log, id))'
    BY <1>1, <1>2, <2>2 DEF MarkedThrough
  <2>4. MarkUnderWay(m, id) => MarkUnderWay(m, id)'
    BY <1>5
  <2>5. last'[m] = id /\ pc'[m] = pc[m] /\ Copied(m)' = Copied(m)
    BY <1>1, <1>2, <2>0
  <2> QED
    BY <2>0, <2>1, <2>2, <2>3, <2>4, <2>5 DEF MarkUnderWay, MarkedThrough
<1> QED
  BY <1>6 DEF OwnMarksArrive

(* Derecho delivers an event behind all that was copied, ...               *)
LEMMA DeliverAddEventArrive ==
  ASSUME SafetyInvariant, OwnMarksArrive, NEW n \in Node, DeliverAddEvent(n)
  PROVE  OwnMarksArrive'
<1>0. PICK i : i = delivered[n] + 1
  OBVIOUS
<1>1. /\ Deliver(n, "add_event")
      /\ UNCHANGED <<outbox, order, pc, last, global, log, logged>>
  BY DEF DeliverAddEvent, Deliver, derechoThread, history
<1>2. /\ i \in DOMAIN order
      /\ order[i] \in Message /\ order[i].type = "add_event"
      /\ delivered'[n] = i
      /\ AddedCount(n) = LogLen(i - 1) /\ AddedCount(n)' = LogLen(i)
      /\ \A m \in Node : m # n => /\ delivered'[m] = delivered[m]
                                  /\ AddedCount(m)' = AddedCount(m)
  BY <1>0, <1>1, DeliverMoves DEF SafetyInvariant
<1>3. /\ order[i].event \in Event
      /\ LogLen(i) = LogLen(i - 1) + 1
  BY <1>2 DEF Message, SafetyInvariant, LogInvariant, LogFollowsOrder
<1>4. /\ events'[n] = Append(events[n], order[i].event)
      /\ \A m \in Node : m # n => events'[m] = events[m]
  BY <1>0 DEF SafetyInvariant, LogInvariant, TypeOK, DeliverAddEvent, AddEvent, NextMessage
<1>5. PICK b, length : b = Forgotten(n) /\ length = Len(events[n])
  OBVIOUS
<1>6. /\ b \in Nat /\ length \in Nat /\ b + length = AddedCount(n)
      /\ AddedCount(n) \in Nat /\ Copied(n) \in Nat /\ Copied(n) <= AddedCount(n)
  <2>1. Len(batch[n]) \in Nat
    BY DEF SafetyInvariant, LogInvariant, TypeOK
  <2> QED
    BY <1>5, <2>1, Counts DEF SafetyInvariant, LogInvariant, CopiesAreAPrefix
<1>7. /\ Len(events'[n]) = length + 1 /\ DOMAIN events'[n] = 1..(length + 1)
      /\ DOMAIN events[n] = 1..length
      /\ \A j \in 1..length : events'[n][j] = events[n][j]
  <2>1. events[n] \in Seq(Event)
    BY DEF SafetyInvariant, LogInvariant, TypeOK
  <2> QED
    BY <1>3, <1>4, <1>5, <2>1, AppendProperties
<1>8. Forgotten(n)' = b
  <2>1. AddedCount(n)' = AddedCount(n) + 1
    BY <1>2, <1>3
  <2> QED
    BY <1>6, <1>7, <2>1 DEF Forgotten
<1>9. ASSUME NEW m \in Node, NEW id, MarkUnderWay(m, id)
      PROVE  MarkUnderWay(m, id)'
  <2>1. MarksInOutbox(m)' = MarksInOutbox(m) /\ MarksInOrder(m)' = MarksInOrder(m)
    BY <1>1 DEF MarksInOutbox, AddsInOutbox, MarksInOrder
  <2>2. ASSUME NEW l \in MarksInOrder(m), delivered[m] < l
        PROVE  delivered'[m] < l
    <3>1. CASE m # n
      BY <1>2, <2>2, <3>1
    <3>2. CASE m = n
      <4>1. l # i
        BY <1>2 DEF MarksInOrder
      <4>2. l \in Nat /\ delivered[n] \in Nat
        BY <2>2, PlacesAreNumbers, Counts DEF SafetyInvariant, LogInvariant
      <4> QED
        BY <1>0, <1>2, <2>2, <3>2, <4>1, <4>2
    <3> QED
      BY <3>1, <3>2
  <2> QED
    BY <1>1, <1>9, <2>1, <2>2 DEF MarkUnderWay
<1>10. ASSUME NEW m \in Node, NEW k \in Int, k <= Copied(m), MarkedThrough(m, k)
       PROVE  MarkedThrough(m, k)'
  <2>1. CASE m # n
    <3>1. Forgotten(m)' = Forgotten(m) /\ events'[m] = events[m]
      BY <1>2, <1>4, <2>1 DEF Forgotten
    <3> QED
      BY <1>10, <3>1 DEF MarkedThrough
  <2>2. CASE m = n
    <3> SUFFICES ASSUME NEW j \in 1..(length + 1), b + j <= k
                 PROVE  n \in events'[n][j].replicas
      BY <1>7, <1>8, <2>2 DEF MarkedThrough
    <3>1. j \in 1..length
      BY <1>6, <1>10, <2>2
    <3> QED
      BY <1>5, <1>7, <1>10, <2>2, <3>1 DEF MarkedThrough
  <2> QED
    BY <2>1, <2>2
<1>11. ASSUME NEW m \in Node, last[m] # Nil
       PROVE  /\ IsPlaced(log', last[m]) /\ Place(log', last[m]) <= Copied(m)'
              /\ pc'[m] # "mark" => \/ MarkUnderWay(m, last[m])'
                                    \/ MarkedThrough(m, Place(log, last[m]))'
  <2>1. /\ IsPlaced(log, last[m]) /\ Place(log, last[m]) <= Copied(m)
        /\ pc[m] # "mark" => \/ MarkUnderWay(m, last[m])
                             \/ MarkedThrough(m, Place(log, last[m]))
    BY <1>11 DEF OwnMarksArrive
  <2>2. Place(log, last[m]) \in Int
    <3>1. Place(log, last[m]) \in DOMAIN log
      BY <2>1, PlaceIsThere
    <3>2. log \in Seq(Record)
      BY DEF SafetyInvariant, LogInvariant, TypeOK
    <3> QED
      BY <3>1, <3>2
  <2>3. PICK id, k : id = last[m] /\ k = Place(log, last[m])
    OBVIOUS
  <2>4. /\ MarkUnderWay(m, id) => MarkUnderWay(m, id)'
        /\ MarkedThrough(m, k) => MarkedThrough(m, k)'
    BY <1>9, <1>10, <2>1, <2>2, <2>3
  <2> QED
    BY <1>1, <2>1, <2>3, <2>4 DEF Copied, MarkUnderWay, MarkedThrough
<1> QED
  BY <1>1, <1>11 DEF OwnMarksArrive

(* ... or a mark, which is the awaited one or leaves that under way.       *)
LEMMA DeliverMarkProducedArrive ==
  ASSUME SafetyInvariant, OwnMarksArrive, NEW n \in Node, DeliverMarkProduced(n)
  PROVE  OwnMarksArrive'
<1>0. PICK i, d, k, id : /\ i = delivered[n] + 1 /\ d = order[i].derecho_id
                         /\ k = OrderPlace(i) /\ id = order[i].id
  OBVIOUS
<1>1. /\ Deliver(n, "mark_produced")
      /\ UNCHANGED <<outbox, order, pc, last, global, log, logged>>
  BY DEF DeliverMarkProduced, Deliver, derechoThread, history
<1>2. /\ i \in DOMAIN order
      /\ order[i] \in Message /\ order[i].type = "mark_produced"
      /\ delivered'[n] = i
      /\ AddedCount(n) = LogLen(i - 1) /\ AddedCount(n)' = LogLen(i)
      /\ \A m \in Node : m # n => /\ delivered'[m] = delivered[m]
                                  /\ AddedCount(m)' = AddedCount(m)
  BY <1>0, <1>1, DeliverMoves DEF SafetyInvariant
<1>3. PICK b, length : b = Forgotten(n) /\ length = Len(events[n])
  OBVIOUS
<1>4. /\ b \in Nat /\ length \in Nat /\ b + length = AddedCount(n)
      /\ AddedCount(n) \in Nat /\ delivered[n] \in Nat
  BY <1>3, Counts DEF SafetyInvariant, LogInvariant
<1>5. /\ d \in Node /\ k \in Nat /\ k - b \in 1..length
      /\ \A j \in 1..length : events[n][j].id = id <=> j = k - b
  <2>1. delivered[n] < Len(order) /\ NextMessage(n).type = "mark_produced"
    BY DEF DeliverMarkProduced, Deliver
  <2>2. d \in Node /\ i \in MarksInOrder(d)
    BY <1>0, <1>2 DEF Message, MarksInOrder
  <2>3. IsAhead(n, d, OrderPlace(i))
    <3>1. delivered[n] < i
      BY <1>0, <1>4
    <3> QED
      BY <2>2, <3>1 DEF SafetyInvariant, MarksAreAhead
  <2>4. b < k
    BY <1>0, <1>3, <2>3 DEF IsAhead
  <2>5. LogInvariant
    BY DEF SafetyInvariant
  <2>6. k \in Nat /\ k - b \in 1..length
    BY <1>0, <1>3, <2>1, <2>4, <2>5, MarkIsInTheList
  <2>7. \A j \in 1..length : events[n][j].id = id <=> j = k - b
    BY <1>0, <1>3, <2>1, <2>4, <2>5, MarkIsInTheList
  <2> QED
    BY <2>2, <2>6, <2>7
<1>6. /\ events'[n] = MarkProduced(events[n], Replicas, d, id)
      /\ \A m \in Node : m # n => events'[m] = events[m]
  BY <1>0 DEF SafetyInvariant, LogInvariant, TypeOK, DeliverMarkProduced, NextMessage
<1>7. events[n] \in Seq(Event) /\ DOMAIN events[n] = 1..length
  BY <1>3 DEF SafetyInvariant, LogInvariant, TypeOK
<1>8. PICK c \in 0..(k - b) : MarkedUpTo(events[n], events'[n], d, k - b, c)
  BY <1>3, <1>5, <1>6, <1>7, MarkProducedAtPlace
<1>9. /\ Len(events'[n]) = length - c /\ events'[n] \in Seq(Event)
      /\ \A j \in 1..(length - c) :
           /\ j + c > k - b => events'[n][j].replicas = events[n][j + c].replicas
           /\ j + c <= k - b =>
                events'[n][j].replicas = events[n][j + c].replicas \cup {d}
  BY <1>3, <1>8 DEF MarkedUpTo
<1>10. /\ c \in Nat /\ DOMAIN events'[n] = 1..(length - c)
       /\ Forgotten(n)' = b + c
  <2>1. AddedCount(n)' = AddedCount(n)
    BY <1>2 DEF SafetyInvariant, LogInvariant, LogFollowsOrder
  <2>2. c \in Nat
    BY <1>5
  <2> QED
    BY <1>4, <1>9, <2>1, <2>2 DEF Forgotten
<1>11. ASSUME NEW m \in Node, NEW x, MarkUnderWay(m, x),
              m # n \/ d # n \/ x # id
       PROVE  MarkUnderWay(m, x)'
  <2>1. MarksInOutbox(m)' = MarksInOutbox(m) /\ MarksInOrder(m)' = MarksInOrder(m)
    BY <1>1 DEF MarksInOutbox, AddsInOutbox, MarksInOrder
  <2>2. ASSUME NEW l \in MarksInOrder(m), delivered[m] < l, order[l].id = x
        PROVE  delivered'[m] < l
    <3>1. CASE m # n
      BY <1>2, <2>2, <3>1
    <3>2. CASE m = n
      <4>1. l # i
        BY <1>0, <1>11, <2>2, <3>2 DEF MarksInOrder
      <4>2. l \in Nat
        BY <2>2, PlacesAreNumbers DEF SafetyInvariant
      <4> QED
        BY <1>0, <1>2, <1>4, <2>2, <3>2, <4>1, <4>2
    <3> QED
      BY <3>1, <3>2
  <2> QED
    BY <1>1, <1>11, <2>1, <2>2 DEF MarkUnderWay
<1>12. ASSUME NEW m \in Node, NEW l, MarkedThrough(m, l)
       PROVE  MarkedThrough(m, l)'
  <2>1. CASE m # n
    <3>1. Forgotten(m)' = Forgotten(m) /\ events'[m] = events[m]
      BY <1>2, <1>6, <2>1 DEF Forgotten
    <3> QED
      BY <1>12, <3>1 DEF MarkedThrough
  <2>2. CASE m = n
    <3> SUFFICES ASSUME NEW j \in 1..(length - c), b + c + j <= l
                 PROVE  n \in events'[n][j].replicas
      BY <1>10, <2>2 DEF MarkedThrough
    <3>1. j + c \in 1..length /\ b + (j + c) = b + c + j
      BY <1>4, <1>10
    <3>2. n \in events[n][j + c].replicas
      BY <1>3, <1>7, <1>12, <2>2, <3>1 DEF MarkedThrough
    <3>3. j + c > k - b \/ j + c <= k - b
      BY <1>4, <1>5, <3>1
    <3> QED
      BY <1>9, <3>2, <3>3
  <2> QED
    BY <2>1, <2>2
<1>13. d = n => MarkedThrough(n, k)'
  <2> SUFFICES ASSUME d = n, NEW j \in 1..(length - c), b + c + j <= k
               PROVE  n \in events'[n][j].replicas
    BY <1>10 DEF MarkedThrough
  <2>1. j + c <= k - b
    BY <1>4, <1>5, <1>10
  <2> QED
    BY <1>9, <2>1
<1>14. ASSUME NEW m \in Node, last[m] # Nil
       PROVE  /\ IsPlaced(log', last[m]) /\ Place(log', last[m]) <= Copied(m)'
              /\ pc'[m] # "mark" => \/ MarkUnderWay(m, last[m])'
                                    \/ MarkedThrough(m, Place(log, last[m]))'
  <2>1. PICK x, l : x = last[m] /\ l = Place(log, last[m])
    OBVIOUS
  <2>2. /\ IsPlaced(log, last[m]) /\ Place(log, last[m]) <= Copied(m)
        /\ pc[m] # "mark" => MarkUnderWay(m, x) \/ MarkedThrough(m, l)
    BY <1>14, <2>1 DEF OwnMarksArrive
  <2>3. MarkUnderWay(m, x) => MarkUnderWay(m, x)' \/ MarkedThrough(m, l)'
    <3>1. CASE m = n /\ d = n /\ x = id
      BY <1>0, <1>13, <2>1, <3>1 DEF OrderPlace
    <3> QED
      BY <1>11, <3>1
  <2>4. MarkedThrough(m, l) => MarkedThrough(m, l)'
    BY <1>12
  <2> QED
    BY <1>1, <2>1, <2>2, <2>3, <2>4 DEF Copied, MarkUnderWay, MarkedThrough
<1> QED
  BY <1>1, <1>14 DEF OwnMarksArrive

----------------------------------------------------------------------------
(* Every step keeps the invariant, one lemma per step above.               *)
LEMMA NextArrive ==
  ASSUME UniqueIds, SafetyInvariant, SafetyInvariant', OwnMarksArrive, [Next]_vars
  PROVE  OwnMarksArrive'
<1>1. ASSUME UNCHANGED <<last, outbox, order, delivered, events, global, log, logged>>,
             \A n \in Node : pc[n] = "mark" => pc'[n] = "mark"
      PROVE  OwnMarksArrive'
  <2>1. \A n \in Node : \A j \in MarksInOutbox(n) :
          j \in MarksInOutbox(n)' /\ outbox'[n][j] = outbox[n][j]
    BY <1>1 DEF MarksInOutbox, AddsInOutbox
  <2> QED
    BY <1>1, <2>1, ArriveUnchanged
<1>2. ASSUME NEW n \in Node, NEW p \in Partition, KafkaPoll(n, p)
      PROVE  OwnMarksArrive'
  BY <1>1, <1>2 DEF KafkaPoll, derechoThread, multicast, history
<1>3. ASSUME NEW n \in Node, QueryEvents(n) PROVE OwnMarksArrive'
  <2>1. UNCHANGED <<last, outbox, order, delivered, events, global, log, logged>>
    BY <1>3 DEF QueryEvents, AcceptReply, multicast, history
  <2>2. \A m \in Node : pc[m] = "mark" => pc'[m] = "mark"
    BY <1>3 DEF QueryEvents, AcceptReply, SafetyInvariant, LogInvariant, TypeOK
  <2> QED
    BY <1>1, <2>1, <2>2
<1>4. CASE UNCHANGED vars
  BY <1>1, <1>4 DEF vars, derechoThread, multicast, history
<1>5. CASE Next
  <2>1. PICK n \in Node : KafkaPolling(n) \/ DerechoPolling(n) \/ Multicast(n)
    BY <1>5 DEF Next
  <2> QED
    BY <1>2, <1>3, <2>1, SendAddEventArrive, ReplicateEventArrive,
       SendMarkArrive, OrderMessageArrive, DeliverAddEventArrive,
       DeliverMarkProducedArrive
       DEF KafkaPolling, DerechoPolling, Multicast
<1> QED
  BY <1>4, <1>5

(* The mark for last_event arrives at home, whatever is in between.        *)
THEOREM TheOwnMarksArrive ==
  ASSUME UniqueIds PROVE Spec => []OwnMarksArrive
<1>1. Spec => []SafetyInvariant
  BY Safe
<1>2. Init => OwnMarksArrive
  BY InitArrive
<1>3. SafetyInvariant /\ SafetyInvariant' /\ OwnMarksArrive /\ [Next]_vars
        => OwnMarksArrive'
  BY NextArrive
<1> QED
  BY <1>1, <1>2, <1>3, PTL DEF Spec

(* With no mark of its own under way, what an instance has marked is what  *)
(* it has copied, and both queries begin behind that.                      *)
LEMMA QueriesAgree ==
  ASSUME SafetyInvariant, OwnMarksArrive, NEW n \in Node,
         pc[n] = "query", last[n] # Nil, PendingMarks(n) = {},
         \A message \in ToSet(outbox[n]) : message.type = "add_event"
  PROVE  GetEventsFrom(events[n], EventChunk[n], last[n])
           = GetEvents(events[n], EventChunk[n], n)
<1> DEFINE unmarked == {j \in DOMAIN events[n] : n \notin events[n][j].replicas}
<1>1. PICK b, length, first : /\ b = Forgotten(n) /\ length = Len(events[n])
                              /\ first = Copied(n) - b + 1
  OBVIOUS
<1>2. /\ b \in Nat /\ length \in Nat /\ b + length = AddedCount(n)
      /\ AddedCount(n) \in 0..Len(log) /\ Copied(n) \in Nat /\ Len(log) \in Nat
      /\ delivered[n] \in 0..Len(order)
  BY <1>1, Counts DEF SafetyInvariant, LogInvariant
<1>3. /\ QueryResult(n) = Chunk(events[n], EventChunk[n], first)
      /\ b <= Copied(n) /\ Copied(n) <= AddedCount(n)
      /\ Copied(n) > 0 /\ last[n] = log[Copied(n)].id
  BY <1>1, QueryStarts
<1>4. DOMAIN events[n] = 1..length /\ events[n] \in Seq(Event)
      /\ DOMAIN log = 1..Len(log) /\ DOMAIN order = 1..Len(order)
  BY <1>1 DEF SafetyInvariant, LogInvariant, TypeOK
<1>5. Place(log, last[n]) = Copied(n)
  <2>1. Distinct(log)
    BY DEF SafetyInvariant, LogInvariant, EventsOnce, Distinct
  <2>2. Copied(n) \in DOMAIN log
    BY <1>2, <1>3, <1>4
  <2> QED
    BY <1>3, <2>1, <2>2, PlaceIsUnique
<1>6. ~MarkUnderWay(n, last[n])
  <2>1. \A i \in MarksInOrder(n) : ~(delivered[n] < i)
    <3> SUFFICES ASSUME NEW i \in MarksInOrder(n), delivered[n] < i PROVE FALSE
      OBVIOUS
    <3>1. i \in (delivered[n] + 1)..Len(order)
      BY <1>2, <1>4 DEF MarksInOrder
    <3>2. i \in PendingMarks(n)
      BY <3>1 DEF PendingMarks, MarksInOrder
    <3> QED
      BY <3>2
  <2>2. MarksInOutbox(n) = {}
    BY DEF MarksInOutbox, AddsInOutbox, ToSet
  <2> QED
    BY <2>1, <2>2 DEF MarkUnderWay
<1>7. MarkedThrough(n, Copied(n))
  BY <1>5, <1>6 DEF OwnMarksArrive
<1>8. \A j \in 1..length : j \in unmarked <=> j >= first
  <2> SUFFICES ASSUME NEW j \in 1..length
               PROVE  n \notin events[n][j].replicas <=> j >= first
    BY <1>4
  <2>1. b + j <= Copied(n) => n \in events[n][j].replicas
    BY <1>1, <1>4, <1>7 DEF MarkedThrough
  <2>2. n \in events[n][j].replicas => b + j < Copied(n) + 1
    BY <1>1, <1>4 DEF SafetyInvariant, LogInvariant, MarksAreAhead, IsAhead
  <2>3. /\ j >= first <=> ~(b + j <= Copied(n))
        /\ j >= first <=> ~(b + j < Copied(n) + 1)
    BY <1>1, <1>2
  <2> QED
    BY <2>1, <2>2, <2>3
<1>9. PICK found : found = Find(events[n], unmarked)
  OBVIOUS
<1>10. /\ found \in 1..(length + 1)
       /\ \A j \in unmarked : found <= j
       /\ found # length + 1 => found \in unmarked
       /\ found = length + 1 => unmarked = {}
  <2>1. unmarked \subseteq 1..Len(events[n])
    BY <1>1, <1>4
  <2>2. found \in 1..(length + 1) /\ \A j \in unmarked : found <= j
    BY <1>1, <1>4, <1>9, <2>1, FindProperties
  <2>3. found # length + 1 => found \in unmarked
    BY <1>1, <1>4, <1>9, <2>1, FindProperties
  <2>4. found = length + 1 => unmarked = {}
    BY <1>1, <1>4, <1>9, <2>1, FindProperties
  <2> QED
    BY <2>2, <2>3, <2>4
<1>11. found = first
  <2> HIDE DEF unmarked
  <2>1. first \in 1..(length + 1)
    BY <1>1, <1>2, <1>3
  <2>2. CASE first = length + 1
    <3>1. found \notin 1..length
      BY <1>2, <1>8, <1>10, <2>2
    <3> QED
      BY <1>2, <1>10, <2>2, <3>1
  <2>3. CASE first # length + 1
    <3>1. first \in 1..length
      BY <1>2, <2>1, <2>3
    <3>2. first \in unmarked
      BY <1>8, <3>1
    <3>3. found <= first /\ found # length + 1 /\ found \in 1..length
      BY <1>2, <1>10, <3>1, <3>2
    <3> QED
      BY <1>8, <1>10, <3>1, <3>3
  <2> QED
    BY <2>2, <2>3
<1>12. GetEvents(events[n], EventChunk[n], n) = Chunk(events[n], EventChunk[n], first)
  BY <1>9, <1>11 DEF GetEvents
<1>13. QueryResult(n) = GetEventsFrom(events[n], EventChunk[n], last[n])
  BY DEF QueryResult, QueryReply
<1> QED
  BY <1>3, <1>12, <1>13

(* Asking from last_event on gives what asking for the unmarked events     *)
(* gives, once the own marks have arrived: the two branches of the query   *)
(* (kdsync.cpp:75-79) lose nothing and repeat nothing.                     *)
THEOREM TheCursorAgrees ==
  ASSUME UniqueIds PROVE Spec => []CursorAgreesWithMarks
<1>1. SafetyInvariant /\ OwnMarksArrive => CursorAgreesWithMarks
  BY QueriesAgree DEF CursorAgreesWithMarks
<1> QED
  BY <1>1, Safe, TheOwnMarksArrive, PTL
=============================================================================
