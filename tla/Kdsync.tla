------------------------------- MODULE Kdsync -------------------------------
(***************************************************************************)
(* A group of kdsync instances without failures.  Every instance runs the  *)
(* two threads of src/kdsync.cpp against the Kafka cluster it is attached  *)
(* to and against its replica of the EventList:                            *)
(*                                                                         *)
(*   kafka_polling    polls the local source topic and multicasts          *)
(*                    add_event;                                           *)
(*   derecho_polling  queries the local replica, copies the events it gets *)
(*                    to the local "-global" topic, multicasts             *)
(*                    mark_produced.                                       *)
(*                                                                         *)
(* Derecho and Kafka are not part of the repository.  Of Derecho the code  *)
(* uses a totally ordered multicast that is FIFO per sender and            *)
(* asynchronous (the result of ordered_send is dropped) and a query of the *)
(* instance's own replica; of Kafka, a log per partition that is read in   *)
(* offset order and a topic that is appended to.                           *)
(***************************************************************************)
EXTENDS EventList, SequencesExt

CONSTANTS
  Node,        \* the instances, named by their Derecho id (my_id)
  Replicas,    \* the number of instances each of them was started with
  EventChunk,  \* per instance, the chunk its EventList was built with
  Topic,       \* per instance, the topic it was told to replicate
  Partition,   \* the partitions of the source topics
  Records,     \* per instance, how many records each partition will hold
  Window,      \* bound: messages of a sender that wait to be ordered
  Nil          \* the null pointer, and an empty message

(* one_subgroup_policy(fixed_even_shards(1, replicas)): the group exists   *)
(* only with exactly that many members.                                    *)
ASSUME ReplicasAssumption ==
  /\ Node # {} /\ IsFiniteSet(Node)
  /\ Replicas = Cardinality(Node)

ASSUME SettingsAssumption ==
  /\ EventChunk \in [Node -> Int]
  /\ Records \in [Node -> Nat]
  /\ DOMAIN Topic = Node
  /\ Window \in Nat \ {0}

VARIABLES
  position,   \* kafka_polling: next offset the consumer returns
  polled,     \* kafka_polling: the event built from the polled record
  pc,         \* derecho_polling: where its loop is
  batch,      \* derecho_polling: events of the query still to replicate
  last,       \* derecho_polling: id of last_event, Nil for NULL
  outbox,     \* Derecho: ordered_sends not ordered yet, per sender
  order,      \* Derecho: the total order of the multicast
  delivered,  \* Derecho: how much of the order each replica has applied
  events,     \* EventList: the replica of each instance
  global,     \* Kafka: what was produced to each "-global" topic
  log,        \* history: the events added, in the order of their add_event
  logged      \* history: logged[i] events are added by order[1] .. order[i]

kafkaThread == <<position, polled>>
derechoThread == <<pc, batch, last>>
multicast == <<outbox, order, delivered>>
history == <<log, logged>>
vars == <<kafkaThread, derechoThread, multicast, events, global, history>>

----------------------------------------------------------------------------
(* The constructor call of kafka_polling.  Records of different clusters   *)
(* have different contents; the payload stands for them by their origin.   *)
NewEvent(n, p, offset) ==
  [id |-> <<Topic[n], p, offset>>, payload |-> n, replicas |-> {}]

(* What replicate_event copies to the "-global" topic.                     *)
Content(event) == [id |-> event.id, payload |-> event.payload]

AddMessage(event) == [type |-> "add_event", event |-> event]
MarkMessage(n, id) == [type |-> "mark_produced", derecho_id |-> n, id |-> id]

(* All that the clusters will ever publish.                                *)
Id(n) == {Topic[n]} \X Partition \X (0..(Records[n] - 1))
Ids == UNION {Id(n) : n \in Node}
Contents == UNION {[id : Id(n), payload : {n}] : n \in Node}
Record == [id : Ids, payload : Node]
Event == [id : Ids, payload : Node, replicas : SUBSET Node]
Message == [type : {"add_event"}, event : Event]
           \cup [type : {"mark_produced"}, derecho_id : Node, id : Ids]

(* The null pointer is no object.                                          *)
ASSUME NilAssumption == Nil \notin Ids /\ Nil \notin Event

(* No two records of the whole system have the same topic, partition and   *)
(* offset.  Offsets start at zero in every cluster, so this is the case    *)
(* when no two clusters replicate the same topic.                          *)
UniqueIds == \A m, n \in Node : m # n => Id(m) \cap Id(n) = {}

----------------------------------------------------------------------------
(* main: the group is complete, the lists come from the factory, the       *)
(* consumer starts at the first record and the two threads are started.    *)
Init ==
  /\ position = [n \in Node |-> [p \in Partition |-> 0]]
  /\ polled = [n \in Node |-> Nil]
  /\ pc = [n \in Node |-> "query"]
  /\ batch = [n \in Node |-> <<>>]
  /\ last = [n \in Node |-> Nil]
  /\ outbox = [n \in Node |-> <<>>]
  /\ order = <<>>
  /\ delivered = [n \in Node |-> 0]
  /\ events = [n \in Node |-> <<>>]
  /\ global = [n \in Node |-> <<>>]
  /\ log = <<>>
  /\ logged = <<>>

(* ordered_send: blocks while the sender's window is full, then returns    *)
(* before the message is ordered.                                          *)
OrderedSend(n, message) ==
  /\ Len(outbox[n]) < Window
  /\ outbox' = [outbox EXCEPT ![n] = Append(@, message)]
  /\ UNCHANGED <<order, delivered>>

----------------------------------------------------------------------------
(* Mutant of KafkaPoll: the thread polls on before it has sent the event.  *)
KafkaPollAgain(n, p) ==
  /\ position[n][p] < Records[n]
  /\ polled' = [polled EXCEPT ![n] = NewEvent(n, p, position[n][p])]
  /\ position' = [position EXCEPT ![n][p] = @ + 1]
  /\ UNCHANGED <<derechoThread, multicast, events, global, history>>

(* kafka_polling: the consumer returns the next record of a partition and  *)
(* the thread builds the event.                                            *)
KafkaPoll(n, p) ==
  /\ polled[n] = Nil
  /\ position[n][p] < Records[n]
  /\ polled' = [polled EXCEPT ![n] = NewEvent(n, p, position[n][p])]
  /\ position' = [position EXCEPT ![n][p] = @ + 1]
  /\ UNCHANGED <<derechoThread, multicast, events, global, history>>

(* kafka_polling: ordered_send<add_event>, then on to the next poll.       *)
SendAddEvent(n) ==
  /\ polled[n] # Nil
  /\ OrderedSend(n, AddMessage(polled[n]))
  /\ polled' = [polled EXCEPT ![n] = Nil]
  /\ UNCHANGED <<position, derechoThread, events, global, history>>

(* Mutant of QueryReply: every round asks for the unmarked events.         *)
QueryUnmarked(n, event_chunk, derecho_id) ==
  GetEvents(events[n], event_chunk, derecho_id)

(* What derecho_polling asks its own replica: get_events on the first      *)
(* round, get_events_from the last event it replicated ever after.         *)
QueryReply(n, event_chunk, derecho_id) ==
  IF last[n] = Nil
  THEN GetEvents(events[n], event_chunk, derecho_id)
  ELSE GetEventsFrom(events[n], event_chunk, last[n])

QueryResult(n) == QueryReply(n, EventChunk[n], n)

(* Mutant of AcceptReply: an empty reply is replicated as well.            *)
AcceptReplyUnchecked(n, reply) ==
  /\ pc[n] = "query"
  /\ batch' = [batch EXCEPT ![n] = reply]
  /\ pc' = [pc EXCEPT ![n] = "replicate"]
  /\ UNCHANGED <<last, kafkaThread, multicast, events, global, history>>

(* derecho_polling: the p2p_send to itself and its reply.  An empty reply, *)
(* or an exception in its place, sends the thread to the next query.       *)
AcceptReply(n, reply) ==
  /\ pc[n] = "query"
  /\ \/ /\ reply = <<>>
        /\ UNCHANGED <<pc, batch>>
     \/ /\ reply # <<>>
        /\ batch' = [batch EXCEPT ![n] = reply]
        /\ pc' = [pc EXCEPT ![n] = "replicate"]
  /\ UNCHANGED <<last, kafkaThread, multicast, events, global, history>>

QueryEvents(n) == AcceptReply(n, QueryResult(n))

(* Mutant of ReplicateEvent: only the first event of the reply is          *)
(* produced, and the last one remembered.                                  *)
ReplicateFirstEvent(n) ==
  /\ pc[n] = "replicate"
  /\ global' = [global EXCEPT ![n] = Append(@, Content(Head(batch[n])))]
  /\ batch' = [batch EXCEPT ![n] = <<>>]
  /\ last' = [last EXCEPT ![n] = batch[n][Len(batch[n])].id]
  /\ pc' = [pc EXCEPT ![n] = "mark"]
  /\ UNCHANGED <<kafkaThread, multicast, events, history>>

(* derecho_polling: on to the next event of the batch; after the last one  *)
(* the thread remembers it as last_event.                                  *)
GoOn(n) ==
  /\ pc[n] = "replicate"
  /\ batch' = [batch EXCEPT ![n] = Tail(@)]
  /\ \/ /\ Len(batch[n]) > 1
        /\ UNCHANGED <<pc, last>>
     \/ /\ Len(batch[n]) = 1
        /\ last' = [last EXCEPT ![n] = Head(batch[n]).id]
        /\ pc' = [pc EXCEPT ![n] = "mark"]
  /\ UNCHANGED <<kafkaThread, multicast, events, history>>

(* derecho_polling: replicate_event produces the event and flushes.        *)
ReplicateEvent(n) ==
  /\ GoOn(n)
  /\ global' = [global EXCEPT ![n] = Append(@, Content(Head(batch[n])))]

(* derecho_polling: ordered_send<mark_produced> for last_event.            *)
SendMark(n, derecho_id) ==
  /\ pc[n] = "mark"
  /\ OrderedSend(n, MarkMessage(derecho_id, last[n]))
  /\ pc' = [pc EXCEPT ![n] = "query"]
  /\ UNCHANGED <<batch, last, kafkaThread, events, global, history>>

SendMarkProduced(n) == SendMark(n, n)

----------------------------------------------------------------------------
(* Derecho fixes the place of the oldest waiting message of a sender.      *)
OrderMessage(n) ==
  /\ outbox[n] # <<>>
  /\ order' = Append(order, Head(outbox[n]))
  /\ log' = IF Head(outbox[n]).type = "add_event"
            THEN Append(log, Content(Head(outbox[n]).event)) ELSE log
  /\ logged' = Append(logged, Len(log'))
  /\ outbox' = [outbox EXCEPT ![n] = Tail(@)]
  /\ UNCHANGED <<delivered, kafkaThread, derechoThread, events, global>>

(* The next message a replica has to apply, and the delivery of it.        *)
NextMessage(n) == order[delivered[n] + 1]

Deliver(n, type) ==
  /\ delivered[n] < Len(order)
  /\ NextMessage(n).type = type
  /\ delivered' = [delivered EXCEPT ![n] = @ + 1]
  /\ UNCHANGED <<outbox, order, kafkaThread, derechoThread, global, history>>

DeliverAddEvent(n) ==
  /\ Deliver(n, "add_event")
  /\ events' = [events EXCEPT ![n] = AddEvent(@, NextMessage(n).event)]

DeliverMarkProduced(n) ==
  /\ Deliver(n, "mark_produced")
  /\ events' = [events EXCEPT ![n] =
                  MarkProduced(@, Replicas, NextMessage(n).derecho_id,
                               NextMessage(n).id)]

----------------------------------------------------------------------------
KafkaPolling(n) == (\E p \in Partition : KafkaPoll(n, p)) \/ SendAddEvent(n)

DerechoPolling(n) == QueryEvents(n) \/ ReplicateEvent(n) \/ SendMarkProduced(n)

Multicast(n) == OrderMessage(n) \/ DeliverAddEvent(n) \/ DeliverMarkProduced(n)

Next == \E n \in Node : KafkaPolling(n) \/ DerechoPolling(n) \/ Multicast(n)

Spec == Init /\ [][Next]_vars

(* The two threads are endless loops on threads of their own, Kafka keeps  *)
(* returning records that exist, and a multicast in a group without        *)
(* failures is ordered and delivered everywhere.                           *)
Fairness ==
  \A n \in Node : /\ WF_vars(KafkaPolling(n))
                  /\ WF_vars(DerechoPolling(n))
                  /\ WF_vars(OrderMessage(n))
                  /\ WF_vars(DeliverAddEvent(n) \/ DeliverMarkProduced(n))

FairSpec == Spec /\ Fairness
----------------------------------------------------------------------------
(* Every variable has its type; a thread that replicates has something to  *)
(* replicate and one that marks knows what to mark.                        *)
TypeOK ==
  /\ position \in [Node -> [Partition -> Nat]]
  /\ polled \in [Node -> Event \cup {Nil}]
  /\ pc \in [Node -> {"query", "replicate", "mark"}]
  /\ batch \in [Node -> Seq(Event)]
  /\ last \in [Node -> Ids \cup {Nil}]
  /\ outbox \in [Node -> Seq(Message)]
  /\ order \in Seq(Message)
  /\ delivered \in [Node -> Nat]
  /\ events \in [Node -> Seq(Event)]
  /\ global \in [Node -> Seq(Record)]
  /\ log \in Seq(Record)
  /\ logged \in Seq(Nat)
  /\ \A n \in Node : /\ pc[n] = "replicate" <=> batch[n] # <<>>
                     /\ pc[n] = "mark" => last[n] # Nil
                     /\ delivered[n] <= Len(order)

(* How many add_events an instance has applied and how many of them it has *)
(* forgotten, what they brought it, and what of it the instance still      *)
(* holds.                                                                  *)
LogLen(i) == IF i = 0 THEN 0 ELSE logged[i]
AddedCount(n) == LogLen(delivered[n])
Forgotten(n) == AddedCount(n) - Len(events[n])
Added(n) == {log[i] : i \in 1..AddedCount(n)}
Held(n) == {Content(event) : event \in ToSet(events[n])}

(* Every "-global" topic holds the events in the one order in which the    *)
(* multicast added them, each exactly once and none left out: the "ordered *)
(* synchronization" of README.md:2, without failures.                      *)
SameOrderExactlyOnce == \A n \in Node : IsPrefix(global[n], log)

(* An event that an instance has received and no longer holds is in the    *)
(* "-global" topic of every cluster: mark_produced erases what was         *)
(* "commited to all replicas" (serializable_objects.hpp:84-85) and nothing *)
(* else, on every replica, whatever the others have delivered so far.      *)
ForgottenOnlyWhenReplicated ==
  \A m, n \in Node : Added(m) \ Held(m) \subseteq ToSet(global[n])

(* The replicas field of an event "contains the instances where the event  *)
(* is successfully replicated" (serializable_objects.hpp:39-40): nobody is *)
(* listed for an event its cluster does not have.                          *)
MarkedOnlyWhenReplicated ==
  \A m \in Node : \A event \in ToSet(events[m]) :
     \A n \in event.replicas : Content(event) \in ToSet(global[n])

(* mark_produced always finds its event: "if the event is not found it     *)
(* should mean that was deleted before (though also this situation         *)
(* shouldn't be possible)" (serializable_objects.hpp:98-100).              *)
MarkTargetPresent ==
  \A n \in Node :
     (delivered[n] < Len(order) /\ NextMessage(n).type = "mark_produced")
       => NextMessage(n).id \in {event.id : event \in ToSet(events[n])}

(* get_events_from: "if not found, it should mean that all messages are    *)
(* new" (serializable_objects.hpp:165): when the list no longer holds      *)
(* last_event, none of what it holds was replicated by this instance.      *)
NotFoundMeansAllNew ==
  \A n \in Node :
     (/\ pc[n] = "query" /\ last[n] # Nil
      /\ last[n] \notin {event.id : event \in ToSet(events[n])})
       => Held(n) \cap ToSet(global[n]) = {}

(* The two queries of derecho_polling agree: once the replica of an        *)
(* instance has applied every mark the instance sent, asking from          *)
(* last_event on gives what asking for the unmarked events gives.          *)
PendingMarks(n) ==
  {i \in (delivered[n] + 1)..Len(order) :
     order[i].type = "mark_produced" /\ order[i].derecho_id = n}

CursorAgreesWithMarks ==
  \A n \in Node :
     (/\ pc[n] = "query" /\ last[n] # Nil /\ PendingMarks(n) = {}
      /\ \A message \in ToSet(outbox[n]) : message.type = "add_event")
       => GetEventsFrom(events[n], EventChunk[n], last[n])
            = GetEvents(events[n], EventChunk[n], n)

----------------------------------------------------------------------------
(* Every record the consumers will return reaches the "-global" topic of   *)
(* every cluster.                                                          *)
EventuallyEverywhere ==
  <>(\A n \in Node : Contents \subseteq ToSet(global[n]))

(* "When the final instance marks as produced an event. It will be removed *)
(* from the list" (serializable_objects.hpp:83-84): once the clusters are  *)
(* quiet the lists drain, and stay empty.                                  *)
ListsDrain == <>[](\A n \in Node : position[n] = [p \in Partition |-> Records[n]]
                                  /\ events[n] = <<>>)

----------------------------------------------------------------------------
(* The state of TotalOrder: a stream is a partition of a source topic.     *)
Entry(content) == <<<<content.payload, content.id[2]>>, content.id[3]>>
Entries(contents) == [i \in DOMAIN contents |-> Entry(contents[i])]

Agreement ==
  INSTANCE TotalOrder WITH
    Cluster <- Node,
    Stream <- Node \X Partition,
    Length <- [s \in Node \X Partition |-> Records[s[1]]],
    log <- Entries(log),
    copy <- [n \in Node |-> Entries(global[n])]

(* The log and the "-global" topics are what TotalOrder promises: one log  *)
(* in which the records of a source partition keep their order, and copies *)
(* of it that grow by one entry at a time ("ordered synchronization",      *)
(* README.md:2).                                                           *)
KeepsThePromise == Agreement!Promise

(* And with the threads running and the multicast delivering, no record    *)
(* and no cluster is left behind: every record gets its place and every    *)
(* cluster its copy, each "at least once" (README.md:31-32).               *)
KeepsTheFairPromise == Agreement!FairPromise
=============================================================================
