--------------------------- MODULE KdsyncFailures ---------------------------
(***************************************************************************)
(* A group of kdsync instances that fail and come back.  Instances run the *)
(* two threads of Kdsync; what this module adds is                         *)
(*                                                                         *)
(*   - the ends of a process: a crash, an exception of flush or of         *)
(*     ordered_send that no thread catches;                                *)
(*   - its restart by the service manager, through main: a consumer that   *)
(*     starts at the committed offset, threads that start afresh, and a    *)
(*     list that comes from another instance or from the factory;          *)
(*   - the commits of the consumer, which the client library does in the   *)
(*     background;                                                         *)
(*   - clusters that reject a record, whose delivery report nobody reads.  *)
(*                                                                         *)
(* Derecho (external): messages that have their place in the order reach   *)
(* all survivors before anyone joins.  The group works only when all       *)
(* instances are there (README.md, "Number of instances"); when too many   *)
(* are gone those left end too, and the group may be formed anew.          *)
(***************************************************************************)
EXTENDS Kdsync

CONSTANTS
  Fallible,           \* the instances that may fail
  MaxFailures,        \* bound: how often each of them does
  PartitioningSafety, \* not disable_partitioning_safety
  SpareId,            \* Derecho ids that a restart may be configured with
  Rejected,           \* per instance, the ids its cluster does not store
  Oversized,          \* the ids of records above max_payload_size
  OffsetsAtStart,     \* what the consumer groups may have committed before
  Unlimited,          \* INT_MAX
  None                \* no offset was committed

ASSUME FailuresAssumption ==
  /\ Fallible \subseteq Node
  /\ MaxFailures \in Nat
  /\ PartitioningSafety \in BOOLEAN
  /\ IsFiniteSet(SpareId) /\ SpareId \cap Node = {}
  /\ Rejected \in [Node -> SUBSET Ids]
  /\ Oversized \subseteq Ids
  /\ Unlimited \in Nat \ {0}
  /\ None \notin Nat
  /\ OffsetsAtStart \subseteq {None, 0}

VARIABLES
  up,         \* the instances that are running, and in the group
  failures,   \* how often each instance has failed
  committed,  \* Kafka: the offset each consumer will restart at
  my_id,      \* main: the Derecho id of each instance
  chunk       \* EventList: event_chunk of each replica

membership == <<up, failures, my_id, chunk>>
failureVars == <<membership, committed>>
allVars == <<vars, failureVars>>

DerechoId == Node \cup SpareId
MarkedEvent == [id : Ids, payload : Node, replicas : SUBSET DerechoId]
AnyMessage ==
  [type : {"add_event"}, event : MarkedEvent]
  \cup [type : {"mark_produced"}, derecho_id : DerechoId, id : Ids]

----------------------------------------------------------------------------
(* The group has been formed.  The consumer group has committed an offset  *)
(* before, that of the first record, or none.                              *)
FailuresInit ==
  /\ Init
  /\ up = Node
  /\ failures = [n \in Node |-> 0]
  /\ \E offset \in OffsetsAtStart :
       committed = [n \in Node |-> [p \in Partition |-> offset]]
  /\ my_id = [n \in Node |-> n]
  /\ chunk = EventChunk

----------------------------------------------------------------------------
(* Whether those left still are a group.  The group needs all instances,   *)
(* so no smaller one takes its place: the majority is one of Replicas.     *)
Survives(left) ==
  IF PartitioningSafety THEN 2 * Cardinality(left) > Replicas ELSE left # {}

(* The function f with the processes of gone as new ones are.              *)
Afresh(f, gone, value) == [n \in Node |-> IF n \in gone THEN value ELSE f[n]]

(* The process of n ends, and with it its threads, its replica and what it *)
(* had not got into the order; without a majority so do all others.        *)
EndProcess(n) ==
  LET gone == IF Survives(up \ {n}) THEN {n} ELSE up
  IN  /\ up' = up \ gone
      /\ polled' = Afresh(polled, gone, Nil)
      /\ pc' = Afresh(pc, gone, "query")
      /\ batch' = Afresh(batch, gone, <<>>)
      /\ last' = Afresh(last, gone, Nil)
      /\ outbox' = Afresh(outbox, gone, <<>>)
      /\ events' = Afresh(events, gone, <<>>)
      /\ UNCHANGED <<position, order, delivered, history,
                     committed, my_id, chunk>>

Fail(n) ==
  /\ n \in up \cap Fallible
  /\ failures[n] < MaxFailures
  /\ failures' = [failures EXCEPT ![n] = @ + 1]

(* The process is killed.                                                  *)
Crash(n) ==
  /\ Fail(n)
  /\ EndProcess(n)
  /\ UNCHANGED global

(* Mutant of FlushFails: the exception is caught and the event passed over. *)
FlushFailsUnnoticed(n) ==
  /\ Fail(n)
  /\ GoOn(n)
  /\ UNCHANGED <<global, up, my_id, chunk, committed>>

(* replicate_event: the flush runs out of time and throws, with the record *)
(* stored or not; the exception leaves the thread and ends the process.    *)
FlushFails(n) ==
  /\ Fail(n)
  /\ pc[n] = "replicate"
  /\ EndProcess(n)
  /\ \/ UNCHANGED global
     \/ /\ Head(batch[n]).id \notin Rejected[n]
        /\ global' = [global EXCEPT ![n] = Append(@, Content(Head(batch[n])))]

(* kafka_polling: ordered_send throws on a record that is too large, which *)
(* again ends the process.                                                 *)
OversizedSend(n) ==
  /\ n \in up
  /\ polled[n] # Nil /\ polled[n].id \in Oversized
  /\ EndProcess(n)
  /\ UNCHANGED <<global, failures>>

----------------------------------------------------------------------------
(* The consumer of a new process starts at the committed offset, or at the *)
(* end of what its partition holds by now when there is none (the default  *)
(* of auto.offset.reset, which main leaves alone).                         *)
StartOffsets(n, p) ==
  IF committed[n][p] = None
  THEN position[n][p]..Records[n]
  ELSE {committed[n][p]}

RestartConsumers(joining) ==
  \E start \in [joining -> [Partition -> UNION {0..Records[n] : n \in Node}]] :
    /\ \A n \in joining, p \in Partition : start[n][p] \in StartOffsets(n, p)
    /\ position' = [n \in Node |-> IF n \in joining THEN start[n] ELSE position[n]]

(* main of the processes that were missing, up to the start of the         *)
(* threads; the operator may have given them other Derecho ids.            *)
StartProcesses(joining) ==
  /\ joining # {}
  /\ up' = Node
  /\ RestartConsumers(joining)
  /\ \E id \in [joining -> DerechoId] :
       /\ my_id' = [n \in Node |-> IF n \in joining THEN id[n] ELSE my_id[n]]
       /\ IsInjective(my_id')
       /\ \A n \in joining : id[n] \in {my_id[n]} \cup SpareId
  /\ delivered' = Afresh(delivered, joining, Len(order))
  /\ UNCHANGED <<polled, derechoThread, outbox, order, global, history,
                 failures, committed>>

(* No instance is left: all start, with lists from the factory.  The group *)
(* may also fail to restart (derecho_0.cfg:37-40 of the demo), which is no *)
(* step.                                                                   *)
FormGroup ==
  /\ up = {}
  /\ StartProcesses(Node)
  /\ chunk' = EventChunk
  /\ UNCHANGED events

(* Mutant of Deserialized: the chunk is kept as it was sent.               *)
DeserializedAsSent(event_chunk) == event_chunk

(* The constructor that deserialization uses.                              *)
Deserialized(event_chunk) == IF event_chunk = 0 THEN Unlimited ELSE event_chunk

(* Mutants of Join: the replica of a joiner stays as the factory made it;  *)
(* replicas is not serialized; the list is sent before all messages are    *)
(* applied.                                                                *)
JoinWithoutList ==
  LET joining == Node \ up
  IN  /\ up # {}
      /\ \A n \in up : delivered[n] = Len(order)
      /\ StartProcesses(joining)
      /\ UNCHANGED <<events, chunk>>

JoinWithoutMarks ==
  LET joining == Node \ up
      Unmarked(list) == [i \in DOMAIN list |-> [list[i] EXCEPT !.replicas = {}]]
  IN  /\ up # {}
      /\ \A n \in up : delivered[n] = Len(order)
      /\ StartProcesses(joining)
      /\ \E donor \in up :
           /\ events' = Afresh(events, joining, Unmarked(events[donor]))
           /\ chunk' = Afresh(chunk, joining, Deserialized(chunk[donor]))

JoinTooEarly ==
  LET joining == Node \ up
  IN  /\ up # {}
      /\ StartProcesses(joining)
      /\ \E donor \in up :
           /\ events' = Afresh(events, joining, events[donor])
           /\ chunk' = Afresh(chunk, joining, Deserialized(chunk[donor]))

(* The missing instances join the others, which have applied all messages, *)
(* and get the list of one of them.                                        *)
Join ==
  LET joining == Node \ up
  IN  /\ up # {}
      /\ \A n \in up : delivered[n] = Len(order)
      /\ StartProcesses(joining)
      /\ \E donor \in up :
           /\ events' = Afresh(events, joining, events[donor])
           /\ chunk' = Afresh(chunk, joining, Deserialized(chunk[donor]))

----------------------------------------------------------------------------
(* The client library commits what poll has returned.                      *)
Commit(n, p) ==
  /\ n \in up
  /\ committed[n][p] # position[n][p]
  /\ committed' = [committed EXCEPT ![n][p] = position[n][p]]
  /\ UNCHANGED <<vars, membership>>

(* The produce of a record that the cluster rejects: flush waits for the   *)
(* delivery report, and nobody looks at the error in it.                   *)
ReplicateRejected(n) ==
  /\ GoOn(n)
  /\ Head(batch[n]).id \in Rejected[n]
  /\ UNCHANGED global

ReplicateStored(n) ==
  /\ ReplicateEvent(n)
  /\ Head(batch[n]).id \notin Rejected[n]

Send(n) ==
  /\ SendAddEvent(n)
  /\ polled[n].id \notin Oversized

(* The two threads of an instance that is up.                              *)
KafkaThread(n) ==
  /\ n \in up
  /\ (\E p \in Partition : KafkaPoll(n, p)) \/ Send(n)
  /\ UNCHANGED failureVars

DerechoThread(n) ==
  /\ n \in up
  /\ \/ AcceptReply(n, QueryReply(n, chunk[n], my_id[n]))
     \/ ReplicateStored(n) \/ ReplicateRejected(n)
     \/ SendMark(n, my_id[n])
  /\ UNCHANGED failureVars

(* Derecho orders messages while the group is complete, and delivers them  *)
(* to whoever is there.                                                    *)
Order(n) ==
  /\ up = Node
  /\ OrderMessage(n)
  /\ UNCHANGED failureVars

Delivery(n) ==
  /\ n \in up
  /\ DeliverAddEvent(n) \/ DeliverMarkProduced(n)
  /\ UNCHANGED failureVars

Ends(n) == Crash(n) \/ FlushFails(n) \/ OversizedSend(n)

FailuresNext ==
  \/ \E n \in Node :
        \/ KafkaThread(n) \/ DerechoThread(n)
        \/ Order(n) \/ Delivery(n) \/ Ends(n)
  \/ \E n \in Node, p \in Partition : Commit(n, p)
  \/ FormGroup \/ Join

FailuresSpec == FailuresInit /\ [][FailuresNext]_allVars

(* The service manager restarts what ended, for ever, and it joins those   *)
(* that are up; a process that is up runs its threads, and Derecho         *)
(* delivers, as in Kdsync.  Nothing is assumed about commits, nor that a   *)
(* group which is gone can be formed again.                                *)
FailuresFairness ==
  /\ WF_allVars(Join)
  /\ \A n \in Node :
       /\ WF_allVars(KafkaThread(n) \/ OversizedSend(n))
       /\ WF_allVars(DerechoThread(n))
       /\ WF_allVars(Order(n)) /\ WF_allVars(Delivery(n))

FairFailuresSpec == FailuresSpec /\ FailuresFairness
----------------------------------------------------------------------------
(* Types, and that an instance that is not up has no process left: no      *)
(* threads at work, no messages waiting, no list.                          *)
FailuresTypeOK ==
  /\ position \in [Node -> [Partition -> Nat]]
  /\ polled \in [Node -> MarkedEvent \cup {Nil}]
  /\ pc \in [Node -> {"query", "replicate", "mark"}]
  /\ batch \in [Node -> Seq(MarkedEvent)]
  /\ last \in [Node -> Ids \cup {Nil}]
  /\ outbox \in [Node -> Seq(AnyMessage)]
  /\ order \in Seq(AnyMessage)
  /\ delivered \in [Node -> Nat]
  /\ events \in [Node -> Seq(MarkedEvent)]
  /\ global \in [Node -> Seq(Record)]
  /\ log \in Seq(Record)
  /\ logged \in Seq(Nat)
  /\ up \subseteq Node
  /\ failures \in [Node -> Nat]
  /\ committed \in [Node -> [Partition -> Nat \cup {None}]]
  /\ my_id \in [Node -> DerechoId] /\ IsInjective(my_id)
  /\ chunk \in [Node -> Int]
  /\ \A n \in Node : /\ pc[n] = "replicate" <=> batch[n] # <<>>
                     /\ pc[n] = "mark" => last[n] # Nil
                     /\ delivered[n] <= Len(order)
  /\ \A n \in Node \ up : /\ polled[n] = Nil /\ pc[n] = "query"
                          /\ outbox[n] = <<>> /\ events[n] = <<>>

(* What a replica has received and no longer holds is in every cluster:    *)
(* mark_produced erases what was "commited to all replicas"                *)
(* (serializable_objects.hpp:84-85), those that are down included.         *)
ForgottenOnlyWhenCopied ==
  \A m \in up, n \in Node : Added(m) \ Held(m) \subseteq ToSet(global[n])

(* An instance is marked, under the id it has now, only for what its       *)
(* cluster has: replicas "contains the instances where the event is        *)
(* successfully replicated" (serializable_objects.hpp:39-40), before and   *)
(* after the instance was restarted.                                       *)
MarkedOnlyWhenCopied ==
  \A m \in up : \A event \in ToSet(events[m]) :
     \A n \in Node :
        my_id[n] \in event.replicas => Content(event) \in ToSet(global[n])

(* A mark finds its event also when its sender, or the list it is applied  *)
(* to, has come back: "this situation shouldn't be possible"               *)
(* (serializable_objects.hpp:98-100).                                      *)
MarkFindsEvent ==
  \A n \in up :
     (delivered[n] < Len(order) /\ NextMessage(n).type = "mark_produced")
       => NextMessage(n).id \in {event.id : event \in ToSet(events[n])}

(* An empty reply, which sends the copy thread straight to its next query, *)
(* means that the list has nothing new for the instance.  It could also    *)
(* mean a chunk of 0, and the chunk of an instance comes with its list     *)
(* from another one (serializable_objects.hpp:147, 173 and 183-184): who   *)
(* was configured with a chunk is never stopped by an instance that was    *)
(* not, nor by a list that ends at last_event or has lost it.              *)
NothingNew(n) ==
  IF last[n] = Nil
  THEN \A event \in ToSet(events[n]) : my_id[n] \in event.replicas
  ELSE events[n] = <<>> \/ events[n][Len(events[n])].id = last[n]

EmptyMeansNothingNew ==
  \A n \in up :
     EventChunk[n] > 0 /\ QueryReply(n, chunk[n], my_id[n]) = <<>>
       => NothingNew(n)

(* The lists of two instances that have applied the same messages are the  *)
(* same, marks included, also when one of them was transferred.            *)
ReplicasAgree ==
  \A m, n \in up : delivered[m] = delivered[n] => events[m] = events[n]

(* Whatever fails, and whatever the ids: the list of an instance is the    *)
(* last part of what was added, in the order in which it was.              *)
(* mark_produced erases from the beginning of the list on                  *)
(* (serializable_objects.hpp:127), and who comes back is given a list that *)
(* fits the messages it will get.                                          *)
ListsEndTheLog ==
  \A n \in up :
     /\ Forgotten(n) >= 0
     /\ \A j \in DOMAIN events[n] : Content(events[n][j]) = log[Forgotten(n) + j]

(* An event leaves the list of a running instance only with the last of    *)
(* Replicas marks of different instances ("commited to all replicas",      *)
(* serializable_objects.hpp:84-85), though the loop looks at nothing but   *)
(* the last of the events it erases.                                       *)
ErasedWhenMarkedByAll ==
  [][\A n \in up \cap up' : \A i \in 1..(Forgotten(n)' - Forgotten(n)) :
       Cardinality(events[n][i].replicas \cup {NextMessage(n).derecho_id})
         = Replicas]_allVars

(* Nothing is copied twice without need: each time the copy in a "-global" *)
(* topic goes back, or starts again, an instance had failed (README.md:31: *)
(* "at least once").                                                       *)
PlaceInLog(content) == CHOOSE k \in DOMAIN log : log[k] = content

Restarts(n) ==
  {i \in 1..(Len(global[n]) - 1) :
     PlaceInLog(global[n][i + 1]) # PlaceInLog(global[n][i]) + 1}

RepeatsOnlyAfterFailure ==
  \A n \in Node : Cardinality(Restarts(n)) <= failures[n]

(* What is copied again was not marked yet: an instance never produces an  *)
(* event that some list has marked for it or has erased already, so that   *)
(* marks, which README.md:31 rests its guarantee on, also limit what is    *)
(* repeated.                                                               *)
Done(n, content) ==
  \E m \in up :
     \/ content \in Added(m) \ Held(m)
     \/ \E event \in ToSet(events[m]) :
          Content(event) = content /\ my_id[n] \in event.replicas

CopiesOnlyUnmarked ==
  [][\A n \in Node : global'[n] # global[n]
       => ~Done(n, global'[n][Len(global'[n])])]_allVars

(* The copies keep the order of the log and leave out nothing, while they  *)
(* may repeat what they have: "every message will be sent **at least       *)
(* once**" (README.md:31-32) in one order (README.md:2).                   *)
Weakly ==
  INSTANCE AtLeastOnce WITH
    Cluster <- Node,
    Stream <- Node \X Partition,
    Length <- [s \in Node \X Partition |-> Records[s[1]]],
    log <- Entries(log),
    copy <- [n \in Node |-> Entries(global[n])]

KeepsTheWeakPromise == Weakly!WeakPromise

(* And if what ends is restarted, every record gets everywhere.            *)
KeepsTheFairWeakPromise == Weakly!FairWeakPromise
=============================================================================
