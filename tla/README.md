# A TLA+ model of kdsync

kdsync copies the records of a topic between Kafka clusters. One instance runs
beside each cluster. What every instance reads from its cluster is added to one
list that all instances share, an object of the Derecho library which is
replicated by a totally ordered multicast, and every instance copies the list
to a second topic of its own cluster, with the suffix `-global`.

The program proper is `src/kdsync.cpp` (two threads and `main`) and
`src/serializable_objects.hpp` (the shared list). The rest of the repository is
a vendored logging library, a demo and installation scripts.

## 1. Inventory

| part | source | state | operations | how it meets the others |
|---|---|---|---|---|
| `EventList` | `serializable_objects.hpp:69-189` | `n_replicas`, `event_chunk`, the vector `events` | `add_event`, `mark_produced` (ordered), `get_events`, `get_events_from` (P2P) | one replica per instance; ordered calls are applied everywhere in one order, queries only at home |
| `ReplicatedEvent`, `ReplicatedHeader` | `serializable_objects.hpp:15-66` | topic, partition, offset, content, the set `replicas` of instances that have it | construction, equality | travels in `add_event` and in replies |
| `kafka_polling` | `kdsync.cpp:117-157` | the consumer's position, the polled message | poll, build an event, `ordered_send<add_event>` | thread of its own |
| `derecho_polling`, `replicate_event` | `kdsync.cpp:37-115` | `last_event`, the reply being replicated | query the own replica, produce and flush each event, `ordered_send<mark_produced>` | thread of its own |
| `main` | `kdsync.cpp:160-274` | settings: `replicas`, `EVENT_CHUNK`, brokers, topic | builds the group, the list, consumer and producer, starts the threads | |
| Derecho group | external | membership, windows, total order | `ordered_send`, delivery, `p2p_send` to oneself | the only way the instances communicate |
| Kafka clusters | external | source topic, `-global` topic, committed offsets | poll, produce, flush | one cluster per instance |
| serialization | macros of Derecho, `serializable_objects.hpp:183-186` | | state transfer to a joining instance | |
| spdlog | `include/spdlog` | | log lines | vendored, no part of the logic |
| demo, scripts, Dockerfile | `demo`, `scripts` | settings | | two instances on the same topic, services that restart for ever |

What makes it hard:

* The list is searched by topic, partition and offset, three times, in three
  different ways (`get_events_from`, `mark_produced`, and through the marks in
  `get_events`), while other instances' marks remove what is searched for.
* `ordered_send` is asynchronous. An instance goes on to its next query before
  its own mark has been applied to its own replica.
* Two threads of an instance share one sender window, and either can block.
* `mark_produced` marks a prefix, looks for a number of marks that is *equal*
  to `n_replicas`, remembers only the last such event and erases a range.
* Nothing is durable but the clusters: the list is in memory, the consumer
  commits in the background, a failed flush ends the process. What comes back
  starts with an empty `last_event`, a list from another instance and an offset
  that need not fit either.

What makes each part correct:

* `EventList`: marks cover prefixes, nothing that is complete stays, nothing
  that is incomplete is erased, a query returns exactly what is missing.
* the copy thread: each cluster's `-global` topic is a prefix of the one order
  of the `add_event`s, without gap or repetition; a mark is sent only for what
  was produced; the two ways of asking agree.
* the group: an event is forgotten only when every cluster has it; every record
  reaches every cluster; the lists drain; the records of a partition keep their
  order.
* the group with failures: nothing that was added is left out or forgotten, what
  is repeated is what was not marked yet, replicas stay alike, and who comes back
  is not stopped by the list, or the chunk, it is given.

`PROJECT.json` lists the hazards at their lines, with the properties that cover
them, and those that no property covers yet.

## 2. Modules

| module | models | main definitions |
|---|---|---|
| `EventList` | the operations of the list, as operators on a sequence of events | `AddEvent`, `MarkProduced` (from `Visited`, `Marked`, `Completed`, `LastCompleted`), `GetEvents`, `GetEventsFrom` |
| `EventListCalls` | one replica under every sequence of calls | `Add`, `Mark` |
| `MarkLoop` | the loop of `mark_produced`, one iteration a step, on its iterators | `Call`, `Visit`, `Return`; a call computes `MarkProduced` |
| `TotalOrder` | what kdsync promises, abstractly: one agreed log that merges the source streams in their order, and copies that grow by one entry at a time | `Agree`, `Copy` |
| `AtLeastOnce` | what is left of that when instances fail: a copy may repeat entries, but leaves none out | `Advance`, `Repeat` |
| `Kdsync` | a group without failures: both threads of every instance, the multicast, the lists, the topics | see below; implements `TotalOrder` |
| `KdsyncFailures` | extends `Kdsync` with the ends of processes, restarts, state transfer, committed offsets, rejected and oversized records | see below; implements `AtLeastOnce` |
| `MCKdsync`, `MCKdsyncFailures`, `MCEventListCalls` | instances for TLC | |
| `KdsyncSafety` | why the group is safe: the inductive invariant of `Kdsync`, and two more on partitions and on an instance's own marks | `SafetyInvariant` and its parts (`LogInvariant` is those that failures leave alone), `StreamsInOrder`, `OwnMarksArrive` |
| `EventListLemmas` | what the operators of `EventList` return, proved | |
| `EventListCallsProofs`, `MarkLoopProofs` | the theorems on one list and on its loop | |
| `KdsyncTypeProofs`, `KdsyncSafetyProofs` | types and safety of a group without failures | |
| `KdsyncPromiseProofs` | partitions keep their order; `Kdsync` implements `TotalOrder`; an instance's marks arrive at home and the two queries agree | |
| `KdsyncFailuresProofs` | what holds in every setting: types, agreement of replicas, what lists are and what leaves them; without failures, `KdsyncFailures` is `Kdsync` | |
| `KdsyncFailuresSafety` | why a group in which instances fail and come back is safe: the inductive invariant of `KdsyncFailures`, and the settings it needs | `SafeSettings`, `FailuresInvariant` and its parts |
| `KdsyncFailuresSafetyProofs` | safety of a group with failures; it implements `AtLeastOnce` | |

`EventList` has no state. Positions count from 1 and `Len(events) + 1` stands
for `end()`. An event is its id (topic, partition, offset), its content, and
the set of instances that marked it. `Visited` says what the loop of
`mark_produced` visits in one line, "the positions none of whose predecessors
has the wanted id", which is the prefix up to the first match, or the whole list
when nothing matches; `MarkLoop` is there to show that the real loop with its
three variables computes just that, for the arguments of each call.

The correspondence of `Kdsync` and the code:

| action | code |
|---|---|
| `KafkaPoll(n, p)` | `consumer->poll` returns a record of partition `p`, the thread builds the event (117-146). Error and EOF notifications and empty polls change nothing. |
| `SendAddEvent(n)` | `ordered_send<add_event>` (149); waits while the window is full |
| `QueryEvents(n)` | `p2p_send` to itself and its reply (75-97). `QueryReply`: `get_events` while `last_event` is null, `get_events_from` ever after; `AcceptReply`: an empty reply, or an exception in its place, leads to the next query |
| `ReplicateEvent(n)` | one round of the loop over the reply: `replicate_event` with its flush (102-104). `GoOn`: the next event, and after the last one `last_event` (106-107) |
| `SendMarkProduced(n)` | `SendMark`: `ordered_send<mark_produced>` (110-112) |
| `OrderMessage(n)` | Derecho (external): the oldest waiting message of a sender gets its place in the total order |
| `DeliverAddEvent(n)`, `DeliverMarkProduced(n)` | Derecho (external) applies the next message of the order to a replica; what it does to the list is `AddEvent` and `MarkProduced` |

`last` keeps the id of `last_event`, the only part of it that is used. `log`
and `logged` are history variables: the events in the order of their
`add_event`s, and how many of them are among the first messages of the order.
`payload` stands for the content of a record by its origin; equal ids of
different clusters therefore have different contents. Three wordings of the
code are kept as they are: a chunk of 0 gives empty replies, a negative one an
exception that counts as an empty reply, and a search without a match visits
everything.

`KdsyncFailures` has the same threads, multicast and lists, with the chunk of
each replica and the Derecho id of each instance as variables, and adds:

| action | code |
|---|---|
| `Crash(n)` | the process is killed: threads, window and replica are gone, the clusters keep what they have. `Survives`: with partitioning safety the others go on only if they are a majority |
| `FlushFails(n)` | `flush` (64) throws, with the record stored or not; no thread catches it, the process ends between two events of a batch |
| `OversizedSend(n)` | `ordered_send` (149) throws on a record above Derecho's payload limit |
| `ReplicateRejected(n)` | the cluster refuses the record; `flush` returns as if all were well, for nobody looks at the delivery report |
| `Commit(n, p)` | the client library commits the consumer's position, whether or not the event has been ordered |
| `FormGroup` | all instances start, and the group forms: `main` (201-274) with lists from the factory |
| `Join` | the missing instances start while others run: `main`, with the list, its marks and its chunk from one of them, through the constructor of deserialization (183-184) |
| `KafkaThread`, `DerechoThread`, `Order`, `Delivery` | the actions of `Kdsync` for instances that are up; ordering needs all of them, delivery does not |

`StartOffsets` is where the consumer of a new process begins: at the committed
offset, or at the end when there is none, since `auto.offset.reset` is not set
(230-235). `StartProcesses` also lets the operator configure another Derecho id
(`SpareId`).

Derecho and Kafka are not in the repository. Of Derecho the code relies on a
total order that is FIFO for each sender, on delivery to every member, and on
a query of the own replica that sees whole operations; the model has no more
than that, and leaves open how senders are interleaved and how far replicas lag
behind each other. Of Kafka it relies on partitions that are read in order and
on a topic that keeps the order in which flushed records were produced. With
failures it relies in addition on this: what has its place in the order reaches
all survivors before anyone joins, and a joiner's list is that of a member
which has applied everything so far. The group orders nothing while an instance
is missing ("Kdsync will not work until all instances are running", README.md):
the subgroup is defined for exactly `replicas` members (191-194).

## 3. Runs

| run | instance | question |
|---|---|---|
| `kdsync_two` | 2 instances, topics of their own, 2 records and 1 record, chunks 1 and 2, window 2 | All safety properties of `Kdsync` and the safety part of `TotalOrder` |
| `kdsync_live` | 2 instances, 1 record each, window 2, fair, every state told apart | The inductive invariant; every record gets everywhere, lists drain, all of `TotalOrder` |
| `event_list_calls` | 4 callers, `n_replicas` 3, 3 ids, up to 5 events, chunk 2 | One list under arbitrary calls |
| `mark_loop` | 3 callers, `n_replicas` 2, 2 ids, up to 4 events | A call of the loop leaves `MarkProduced` of its own arguments |
| `failures_two` | 2 instances, one of which fails twice, 2 records, chunks 1 and 2, window 2 | What is never lost, never marked and repeated at most, through two failures |
| `failures_live` | the same with one failure, window 1, fair, every state told apart | The inductive invariant; at least once, everywhere, and the lists drain |
| `failures_reform` | 3 instances that fail once each, one with chunk 0, a spare id, an oversized and a rejected record, partitioning safety | Replicas agree; an empty reply means that nothing is new |
| `demo_forgotten` | 2 instances on the same topic, chunk 10 | What the demo's setting breaks (violation) |
| `group_lost` | 2 instances, partitioning safety, one crash | What the loss of the group forgets (violation) |
| `commit_ahead` | 2 instances, 1 record, one crash, fair | What an early commit loses (violation) |
| `redelivery` | 2 instances, 1 record each, one crash, no commits, fair | What a record that is added twice does (violation) |
| `rejected` | 2 instances, 1 record that a cluster rejects | What an unread delivery report does (violation) |

The properties of `Kdsync`:

* `SameOrderExactlyOnce`: every `-global` topic is a prefix of `log`.
* `ForgottenOnlyWhenReplicated`: what a replica received and no longer holds is
  in the topic of every cluster, also when the other replicas lag behind.
* `MarkedOnlyWhenReplicated`: an instance is in `replicas` only of events that
  its cluster has.
* `MarkTargetPresent`: the comment in `mark_produced` on the event that is not
  found ("shouldn't be possible").
* `NotFoundMeansAllNew`: the comment in `get_events_from` ("all messages are
  new").
* `CursorAgreesWithMarks`: when an instance's marks have all arrived, asking
  from `last_event` on and asking for unmarked events give the same answer.
* `OwnMarksArrive`: the mark for `last_event` is under way, or applied at home
  with all that is before it, unless it is about to be sent.
* `StreamsInOrder`: before a record of a partition is polled, sent or ordered,
  all that come before it in the partition were.
* `KeepsThePromise`, `KeepsTheFairPromise`: refinement of `TotalOrder`. The log
  is read as entries (source partition, place), so it also says that the records
  of a partition keep their order and none is added twice.
* `EventuallyEverywhere`, `ListsDrain`: liveness.

The properties of `KdsyncFailures`:

* `ForgottenOnlyWhenCopied`, `MarkedOnlyWhenCopied`, `MarkFindsEvent`: as
  above, for the replicas that are up and for all clusters, those of instances
  that are down included.
* `ReplicasAgree`: replicas that have applied the same messages are equal, marks
  included, whether they applied them or were transferred.
* `ListsEndTheLog`: the list of an instance that is up is the last part of what
  was added up to the messages it has applied.
* `ErasedWhenMarkedByAll`: an event leaves the list of a running instance only
  with the last of `n_replicas` marks of different instances.
* `RepeatsOnlyAfterFailure`: a `-global` topic goes back in the log, or skips,
  no more often than its instance failed.
* `CopiesOnlyUnmarked`: what is produced is not marked for its producer on any
  replica, and no replica has erased it; so marks limit what is repeated.
* `KeepsTheWeakPromise`, `KeepsTheFairWeakPromise`: refinement of `AtLeastOnce`.
* `EmptyMeansNothingNew`: an instance that was configured with a chunk gets an
  empty reply only when its list has nothing new for it. Deserialization turns a
  chunk of 0 into an unlimited one; if it did not, an instance whose donor has 0
  would poll for ever. An instance that is itself configured with 0 does so until
  it gets a list from another one (section 4).

### Bounds, and why they are enough

Three events on two instances with chunks 1 and 2 contain what can go wrong
with a cursor and a list that shrinks: replies of one and of two events, a
cursor that is in the list, behind it and empty, marks that cover one or more
events, an own mark that is still under way while the next query runs, and an
event that arrives between two marks. A window of 2 lets one instance have two
messages under way; larger windows add messages that are ordered later anyway.
One partition is enough for the list, which never compares partitions on their
own; partitions matter to `KafkaPoll` only, and `StreamsInOrder` is proved for
any number of them. `PendingView` identifies states that differ in messages
every replica has applied; the invariants look at the rest only. It is not used
where liveness is checked, nor for `SafetyInvariant` and `FailuresInvariant`,
which look at the whole order. `Window` is a bound of the model and a fact of
the code: Derecho's window is 16 in the script's configuration and 1 in the
demo's.

The runs with failures bound how often an instance fails (`MaxFailures`) and
which may (`Fallible`). Two failures of one instance are what it takes to fail
again while catching up, with marks of its first life in the list. In
`failures_two` and `failures_live` the instance that fails only copies
(`Fallible = {n2}`, and only `n1` publishes), for a publisher that fails
already breaks the promise, which is what `commit_ahead` and `redelivery` show;
they run without partitioning safety, for with it two instances do not survive
a crash, which is what `group_lost` shows. `failures_reform` has all of it
together, two of three instances surviving or not, and asks only for what holds
nevertheless; one of its instances has chunk 0, so that every way a chunk can
change hands occurs: 0 to a joiner, a joiner's unlimited chunk to another one, a
positive one to the instance that had 0. It leaves out commits (`NoCommit`),
since neither of its properties depends on an offset. `OffsetsAtStart` lets a consumer group begin
with or without a committed offset. An oversized record ends its process as
often as it is read, without counting as a failure.

TLC never reports a deadlock of `Kdsync`, since the copy thread polls for ever;
that no instance gets stuck is what the liveness properties say.

The list runs, `mark_loop` among them, allow more callers than `n_replicas`, because `n_replicas` is an
argument of the program and not taken from the group, and ids that repeat,
since nothing in the list forbids them.

`demo_forgotten` restricts the behaviours TLC looks at (publishing before
copying), which only makes the counterexample easier to find. `redelivery`
looks at behaviours without commits only, which the client library may always
have: it commits at intervals.

### Fairness

`FairSpec` has weak fairness of each thread, of ordering the messages of each
sender and of each replica's deliveries. The two threads are endless loops
without any wait but the library calls, scheduled by the operating system, and
Kafka returns records that exist. A group in which nobody fails orders and
delivers every multicast. Each thread is one disjunction, so nothing is assumed
about which partition a poll serves; a partition is finite in the model.

`FairFailuresSpec` assumes the same of instances that are up, and that
processes which ended are started again and join those that are up: the service
of `scripts/configure_kdsync_service.sh` is restarted on failure (201-202), the
containers of the demo always. Nothing is assumed about commits, and no failure
is ever forced to happen. Nor is it assumed that a group of which nobody is left
forms again: with `enable_backup_restart_leaders = false` it "will fail to
restart" if the restart leader crashes (37-44 of the demo's `derecho_0.cfg`).
`FormGroup` says what holds when it does form; no liveness property depends on
it, since in the runs that are fair one instance never ends.

## 4. What the runs show

With a topic per cluster, and without failures, everything above holds. In
particular both remarks of the comments about events that are not found are
right: marks always find their event, and a cursor that is not found means that
everything is new.

With the same topic in both clusters, the setting of the demo, they are not.
Offsets are counted per cluster, so two records can have the same topic,
partition and offset, and the list cannot tell them apart. `demo_forgotten`:
after copying the first of the two, an instance asks for what follows that id
and never receives the second one; a later mark covers the skipped event as
well, and the list erases an event that one cluster never got.

With failures of an instance that copies, and a list that survives in another
one, what was added is still never lost, marked wrongly or left out: the weak
promise holds and the lists drain. What is repeated is what had been produced
and not marked, once per failure. Three things make this true, and each has a
mutant that breaks it: the joiner gets the list, it gets the marks, and a flush
that fails ends the process instead of going on to the mark.

README.md promises every message at least once, and this is what the code does
not keep:

* `group_lost`: with two instances and partitioning safety, as the demo and the
  script configure them, the first crash ends both, and the group is formed
  again with an empty list. What one cluster had not got is gone.
* `commit_ahead`: the offset of a record is committed before its `add_event` is
  ordered, the instance crashes and restarts behind it. The same happens,
  without any commit, to an instance that had none and restarts at the end of
  its topic (`commit_ahead` with `OffsetsAtStart = {None}` and `NoCommit`).
* `redelivery`: an instance crashes before the commit and adds the same record a
  second time, under the same id. Another instance whose `last_event` is the
  first of the two, which has left the list, finds the second, and goes on behind
  it; what is between the two it never copies.
* `rejected`: the cluster rejects a record, the instance marks it.

Instances that are not kept as runs, with what they show. Of `MCKdsync`, with
the constants of `demo_forgotten` unless stated:

* `Records <- OneEach`, `FairSpec`, action constraint `NoMoreThanPublished`,
  without the view: `EventuallyEverywhere` is violated by the skipped event
  alone.
* `MarkTargetPresent` as the invariant: violated, an instance that got both
  events in one reply marks the same id twice.
* `kdsync_live` with `EventChunk <- ChunkZero`: `EventuallyEverywhere` is
  violated. A chunk of 0, which `EVENT_CHUNK=0` and every value `atoi` cannot
  read give, is kept by the constructor that the factory uses and no query
  returns anything, while the constructor of deserialization takes the same
  value for "unlimited".
* Three instances, `OwnTopics`, `Records <- TwoByFirst`, symmetry
  `LastTwoAlike`: the safety properties hold; an event waits for the last of
  three.

Of `MCKdsyncFailures`:

* `failures_two` with a `SpareId`: `ForgottenOnlyWhenCopied` is violated. An
  instance that comes back under another Derecho id marks an event twice, and
  its two ids complete it without the other instance.
* `commit_ahead` with `Oversized <- FirstRecord` and `MaxFailures = 0`:
  `EventuallyEverywhere` is violated. As long as nothing is committed every
  restart reads the same record again and ends again; once its offset is
  committed the record is lost.

## 5. Proofs

TLAPS checks, for every value of the constants:

* `TypeCorrect` (`KdsyncTypeProofs`): `Spec => []TypeOK`. `TypeOK` is inductive.
  That the copy thread has something to replicate needs the guard for empty
  replies, and that it has something to mark needs that null is no event id
  (`NilAssumption`).
* `ListInvariant` (`EventListCallsProofs`): `TypeOK`, `MarksNested` and
  `NoneCompleted` are invariants of one list under arbitrary calls (`ListType`,
  `MarksAreNested` and `CompletedLeave` state them singly). They are inductive
  together: that nothing complete is left after an erasure needs that
  nothing was complete before it and that a call adds at most one mark.
* `ErasesCompletedOnly`: `OnlyCompletedErased`. The loop only remembers the last
  completed event. That all before it are complete follows from nesting: they
  have at least as many marks, and at most `n_replicas`.
* `QueriesAreExact`: `GetEventsExact`. With nested marks the unmarked events are
  a suffix of the list, so the first unmarked one is where to start.
* `IteratorsStayInTheList` and `LoopIsMarkProduced` (`MarkLoopProofs`): the
  iterators of the loop stay in the list, and a call leaves `MarkProduced` of its
  own `derecho_id`, its own id and the list it was called on
  (`LoopMarksTheList`), also when the id repeats or is missing. The loop invariant says that everything before `ptr` is
  marked, that only the last visited event can match, and that `last_completed`
  is one past the last completed event so far.

* The safety of a group (`KdsyncSafetyProofs`), for every number of instances,
  any chunks (zero and negative ones included) and any number of records and
  partitions, when no two records of the system have the same id (`UniqueIds`):
  `Safe`, `Spec => []SafetyInvariant`, and from it

  | theorem | property |
  |---|---|
  | `SameOrderEverywhere` | `SameOrderExactlyOnce` |
  | `NothingForgottenTooSoon` | `ForgottenOnlyWhenReplicated` |
  | `NothingMarkedTooSoon` | `MarkedOnlyWhenReplicated` |
  | `MarksFindTheirEvent` | `MarkTargetPresent` |
  | `AllNewWhenNotFound` | `NotFoundMeansAllNew` |
  | `PartitionsKeepTheirOrder` (`KdsyncPromiseProofs`) | `StreamsInOrder` |
  | `GroupKeepsThePromise` (`KdsyncPromiseProofs`) | `KeepsThePromise` |
  | `TheOwnMarksArrive` (`KdsyncPromiseProofs`) | `OwnMarksArrive` |
  | `TheCursorAgrees` (`KdsyncPromiseProofs`) | `CursorAgreesWithMarks` |

* A group with failures (`KdsyncFailuresProofs`), for every number of instances
  and failures, any Derecho ids, rejected and oversized records, and whether or
  not ids are distinct: `FailuresTypeCorrect` (`FailuresTypeOK`),
  `ReplicasStayAlike` (`ReplicasAgree`), `ListsAreNeverBroken`
  (`ListsEndTheLog`) and `NothingIsErasedUnmarked` (`ErasedWhenMarkedByAll`);
  and when no chunk is negative, `EmptyRepliesAreRight` (`EmptyMeansNothingNew`).

* The two models of a group are one (`KdsyncFailuresProofs`):
  `WithoutFailuresItIsKdsync`, `FailuresSpec => Spec` where no instance may
  fail and no record is refused (`NothingFails`), commits or not.

* The safety of a group with failures (`KdsyncFailuresSafetyProofs`), for every
  number of instances, failures, records and partitions, any chunks and windows,
  any commits, with or without partitioning safety, in the settings named
  `SafeSettings`: `FailuresSafe`, `FailuresSpec => []FailuresInvariant`, and from
  it

  | theorem | property |
  |---|---|
  | `NothingForgottenTooSoonInFailures` | `ForgottenOnlyWhenCopied` |
  | `NothingMarkedTooSoonInFailures` | `MarkedOnlyWhenCopied` |
  | `MarksFindTheirEventInFailures` | `MarkFindsEvent` |
  | `RepeatsAreExplained` | `RepeatsOnlyAfterFailure` |
  | `OnlyUnmarkedIsCopied` | `CopiesOnlyUnmarked` |
  | `PartitionsKeepTheirOrderInFailures` | `StreamsInOrder` |
  | `GroupKeepsTheWeakPromise` | `KeepsTheWeakPromise` |

The proof of `Safe`. None of the five properties is inductive: what a list may
forget depends on marks under way, and those on what their senders have copied.
`SafetyInvariant` (`KdsyncSafety`) ties everything to places in `log`:

* `EventsOnce`: an event polled or waiting to be ordered is not in the log yet,
  and the log holds no id twice. Here, and only here, `UniqueIds` is used.
* `LogFollowsOrder`: each `add_event` of the order adds one entry to the log,
  a mark none.
* `ListsAreSegments`: with `A` events received and `b` forgotten, a list is
  entries `b + 1` to `A` of the log. So `add_event` appends the right entry, and
  `mark_produced` may only erase from the front.
* `CopiesAreAPrefix`: a `-global` topic is the first `C` entries, the reply in
  work goes on behind them, `last_event` is entry `C`.
* `MarksAreCopied`, `MarksMoveForward`: a mark names an entry its sender has
  copied, and that is in the log before the mark; the marks of one sender name
  increasing entries, in the order, in its window, and when it is about to send
  the next.
* `MarksAreAhead`: whatever a replica has forgotten, or has marked for `n`, lies
  before the entry of every mark of `n` it has not applied yet, and before the
  entries `n` has not copied. So the mark finds its event (the entry is behind
  what is forgotten), the prefix it covers ends where `n` has copied to, and
  what becomes complete is copied everywhere.

There is one lemma per action. The interesting ones are `QueryGoesOn`, that both
queries return what follows entry `C` (found or not found), and
`MarkProducedAtPlace` with `MarkIsInTheList`, what a mark does to the segment.
The demo's setting violates `UniqueIds`, and the run `demo_forgotten` shows that
the theorems need it.

`StreamsInOrder` is inductive relative to `SafetyInvariant`. The interesting
step is `OrderMessage`: the oldest `add_event` of a window gets its place, and
those it must follow can only be in the log already. The refinement follows:
`PlaceInPartition` shows that an entry whose predecessors in its partition are
all before it in the log, each once, is the next one of its stream for
`TotalOrder`, which counts entries; every other step is a copy or a stutter.

`OwnMarksArrive` is inductive relative to `SafetyInvariant` too. Two steps need
an argument: ordering a mark moves it from the window to the order, and
delivering it at home leaves the list marked up to its event, because it finds
its event (`MarksAreAhead`) and marks all before it. Then the cursor: when no
mark of `n` is under way, the list is marked for `n` through the place of
`last_event` and, by `MarksAreAhead`, not beyond what `n` copied. Both queries
thus start at the same position, also when `last_event` has left the list.

`ReplicasAgree` is not inductive: it says nothing of lists at different places
of the order, one of which may catch up. The proof strengthens it to
`OneHistory`: there is a sequence of lists such that every replica that is up
holds the list at the place it has delivered to, and, from the place of the
replica furthest behind on, each list is the one before it with the message
between them applied. A delivery moves a replica along the sequence; a `Join`
puts the joiner where its donor is, which is the end of the order, since a
joiner waits until the others have applied everything; a group that is formed
anew starts a sequence of its own.

`ListsEndTheLog` and `ErasedWhenMarkedByAll` hold in every setting, those of the
violation runs included: what is forgotten too soon there was marked by enough
ids. The inductive invariant is `ListsAreSound`: beside `LogFollowsOrder`, the
list of each instance, taken with the number of events it was given, is such a
last part, the marks of each id are on a prefix of it, and no event in it has
`n_replicas` marks; and what waits to be added has no mark (else a list could
get an event that is marked while those before it are not). A mark erases up to
the last event it completes; since marks are on prefixes, the events before that
one have all of its marks, and since none had `n_replicas` before, each of them
gets its last one now (`ErasedAreCompleted`). A joiner gets the list and the
place of its donor together. Ids of events play no part in this.

`EmptyMeansNothingNew` rests on `ChunksStay`: whoever was configured with a
positive chunk has one, for what it gets from a donor went through
`Deserialized`. An empty reply with a positive chunk starts behind the end of
the list (`EmptyChunk`), which says what the search found.

The proof of `FailuresSafe`. `SafeSettings` says what a deployment must be like
for a list to survive and for a mark to mean what it says:

* ids are distinct, as above, and a restarted instance keeps its Derecho id;
* the instances that may fail (`Fallible`) publish nothing. They copy, mark,
  are killed at any point and come back any number of times;
* the others alone are a group (`Survives`): at least one without partitioning
  safety, a majority with it. So the list is never lost;
* no record is refused by a cluster or by `ordered_send`.

The settings of `failures_two` and `failures_live` are such settings. Each of
the violation runs leaves one of these points out and refutes something:
`demo_forgotten` the distinct ids, `commit_ahead` and `redelivery` the
publishers that do not fail, `group_lost` the survivors, `rejected` the clusters
that store what they are given.

`SafetyInvariant` does not survive a crash: a restarted copy thread has
forgotten where it was, and a topic is no prefix of the log any more. What
remains is `LogInvariant` (`EventsOnce`, `LogFollowsOrder`, `ListsAreSegments`,
`MarksArePlaced`, `MarksMoveForward`), which says nothing of the copy threads.
`FailuresInvariant` puts beside it

* `MembersAreKept`: who may be missing, and that who is missing has left nothing
  under way that was read from a cluster.
* `CopiesHaveNoGap`: with `R` different events in it, a topic holds the first
  `R` entries of the log, some of them more than once.
* `MarksAreReached`: all marks of an instance, ordered or in its window, are for
  entries up to `R`.
* `ListsShowMarks`: a list shows for an instance exactly the marks that are
  among the messages it has applied: entry `k` is marked for `n`, or forgotten,
  only if a mark of `n` for `k` or a later entry is among them, and every entry
  before such a mark is marked. It holds of a transferred list because it speaks
  of a place in the order and not of a replica; `Join` gives the joiner its
  donor's place.
* `ThreadsGoForward`: the reply in work goes on behind some entry `c` with
  `c <= R`, and all marks of its instance are for entries up to `c`. So what is
  produced is the next entry or a repetition, and the mark sent for it moves
  forward again. The interesting step is the first query of a restarted thread
  (`UnmarkedStart`): its window is empty, since its process has ended, and its
  list has applied all the marks its earlier lives got into the order, since a
  joiner starts at the end of it. The first unmarked event is therefore behind
  all of them, and not behind `R + 1`.
* `RepeatsAreCounted`: the times a topic goes back, plus one if its thread was
  restarted and has not produced since, are no more than the failures.

That lists are alike does not have to be known for this: each list is tied to
the order by itself.

`CopiesOnlyUnmarked` follows for each step: what is produced is entry `c + 1`,
and whatever a list shows as marked for its producer, or has forgotten, is
below one of its marks and so at most entry `c`. The refinement of
`AtLeastOnce` takes the steps of the log from the proof for `TotalOrder`, for
`StreamsInOrder` is inductive here as well (an instance that ends has no record
under way); `c + 1 <= R + 1` says that a copy is an `Advance` or a `Repeat`, and
`EntriesReached` that `R` is what `AtLeastOnce` counts, since two different
events of the log are different entries.

The proofs rest on the lemmas of `EventListLemmas` about `Visited`, `Marked`,
`LastCompleted`, `MarkProduced`, `Find` and `Chunk`. The assumptions are the
named ones in the modules: `n_replicas` is positive and, in `Kdsync`, the size of
the group; instances are finite in number, chunks are integers, and null is
neither an id nor an event.

Only model-checked: liveness (`EventuallyEverywhere`, `ListsDrain`,
`KeepsTheFairPromise`, `KeepsTheFairWeakPromise`), which under
fairness is beyond TLAPS. Every other property of a passing run is the
conclusion of a theorem.

## 6. Not modelled

* Sizes of replies: ten events can exceed Derecho's limit for a reply. Only the
  limit on the payload of `ordered_send` is modelled, as the set `Oversized`.
* The thread on which Derecho serves a query, see the hazards. A query is one
  step of the model.
* That the list grows while an instance is away. It does in the model as well;
  there is no bound in the code that a property could state.
* The difference between empty and absent keys and payloads, headers and
  timestamps: the content of a record is abstract. The byte format of
  serialization, which Derecho's macros generate.
* The partitions of a `-global` topic: the model has it as one sequence, the
  order in which the instance produced, which is what the code determines. Nor
  is it one topic when instances read topics of their own: an event goes to
  `event.topic + "-global"` (`kdsync.cpp:38-39`), so `global[n]` is the union of
  these topics in cluster `n`, in the order of production. Each of them is the
  part of `global[n]` with its source topic; nothing else orders the events of
  different topics of a cluster.
* Configuration files, scripts, the demo: no state. What matters of them are the
  settings the runs are made with.
* Logging. `include/spdlog` (with `fmt` in it) is a vendored library and makes
  up some 15,200 of the 15,700 source lines. kdsync calls a handful of its
  functions, on its default, synchronous logger, and no decision depends on
  them. kdsync's own code is about 460 lines in two files, and `map` covers
  nearly all of it that is executed. A model of formatting and sinks would say
  nothing about kdsync.

## 7. Plan

1. Done: the list, its calls and its loop; the group and its promise; safety,
   the promise and the cursor proved for every size.
2. Done: failures, restarts, state transfer, offsets; types and the agreement of
   replicas proved.
3. Done: a group with failures keeps the weak promise, for every size, in the
   settings named in section 5.
4. Left: what can be promised when a publisher fails. `EventsOnce` is what breaks
   (`redelivery`); the marks and lists rest on it.
