# Learning.EventStore in TLA+

Learning.EventStore is a .NET library for event sourcing. An application changes *aggregates*
through *sessions*; a commit appends the aggregate's new events to an *event store* (Redis or a
relational database) and puts a message for each of them on a Redis *message queue*, from which
*subscribers* of other applications take them. These modules model the code under `src/src` and the
schema under `src/database`, check it with TLC, and prove part of it with TLAPS.

All paths below are relative to `src/src/` unless they start with `src/`.

## 1. The system

| Component | State | Operations | What is hard about it | What makes it correct |
|---|---|---|---|---|
| **Redis event store** `Learning.EventStore/DataStores/RedisEventStore.cs` | in Redis, per aggregate: a list of commit ids; a hash from commit id to event, partitioned | `GetAsync`, `SaveAsync` | five separate Redis calls per event, with other sessions between them; compensation after a failed publish; retries of a conditional transaction; a crash between two calls | the list leads to events of versions 1, 2, 3, ...; what is saved is there and announced; a failed save leaves nothing |
| **SQL event store** `Learning.EventStore/DataStores/SqlEventStore.cs`, `src/database/` | tables `aggregate` and `event`, unique on (aggregate, version) | `GetAsync`, `SaveAsync`, one transaction per event | the message goes out inside the transaction; lock waits; reads from a replica that lags | the same |
| **Repository, Session, AggregateRoot** `Learning.EventStore/Domain/` | per session: the tracked aggregates with the version each was loaded at; per aggregate object: `Version` and uncommitted changes | `AddAsync`, `GetAsync`, `CommitAsync`; `ApplyChange`, `FlushUncommitedChanges`, `LoadFromHistory` | the version check is made before the save, not with it; the object's `Version` moves before the save | optimistic concurrency: of the sessions that start from one version one commits |
| **Message queue, publishing** `Learning.MessageQueue/RedisMessageQueue.cs` | in Redis: the set of subscribing applications of an event type, a list of published events for each | `PublishAsync` | the set is read, then a transaction is conditioned on its size; waiting for room, without a limit | every subscriber gets every message, once and in one order |
| **Message queue, subscriber** `Learning.MessageQueue/RedisEventSubscriber.cs` | in Redis: the published list and the processing list of an application; a distributed lock | `SubscribeAsync`, `ExecuteCallback` | several instances take from one list; notifications are not kept; crash while handling | a message is handled, or is somewhere it will be found again |
| **Dead letters and retry** `Learning.MessageQueue/Repository/`, `Messages/Retryable*Subscription.cs` | in Redis: the dead letter list, the retry data by message id | `AddToDeadLetterQueue`, `RetryAsync`, `MoveStaleProcessingEventsToDeadLetters` | lists addressed by index while others change them; two instances retry; slow handlers look stale | no message is lost; one that fails is retried until its time to live is over |
| **Aggregate cache** `Learning.EventStore/Cache/` | aggregates by id, with expiry; a semaphore per id | `SaveAsync`, `GetAsync`, eviction callback | eviction removes a semaphore in use; sessions share the cached object, also one whose save failed | what is cached is what the stored events make; one caller is inside at a time |
| **Snapshots** `Learning.EventStore/Snapshotting/` | a snapshot per aggregate | `SaveAsync`, `GetAsync` | saved beside the events, not after them, by tasks that share the aggregate | restoring equals replaying |
| **Dynamic invoker** `Learning.EventStore/Infrastructure/DynamicInvoker.cs` | a cache of compiled methods, replaced as a whole | `Invoke` | read outside the lock | an entry depends on its key only |
| **Redis client, SQL connections, settings** `Learning.EventStore.Common/` | none | retries of single calls | a call that ran may look as if it had not | |
| **Cqrs hub, sample, string extensions** | none | | | |

How they interact: `Session.CommitAsync` calls `Repository.SaveAsync` for each tracked aggregate,
which reads the stream through `IEventStore.GetAsync`, flushes the changes and calls
`IEventStore.SaveAsync`; both stores call `IMessageQueue.PublishAsync` in the middle of their save.
`CacheRepository` and `SnapshotRepository` wrap `Repository`. Publisher and subscriber share only the
lists and sets in Redis. `PROJECT.json` lists, under `hazards`, the places in this code where
something can go wrong that a test would hardly reach, and the properties that watch each of them.

## 2. What is modelled

| Module | What it is |
|---|---|
| `EventStream` | the abstract specification: one aggregate's events as a log with versions 1, 2, 3, ..., and the ids acknowledged to callers |
| `RedisEventStore` | sessions that load one aggregate, change it and commit, over the Redis store, call by call |
| `SqlEventStore` | the same over the SQL store, with its transactions, its unique constraint and its replica |
| `ReliableQueue` | the instances of one application that take the messages of one event type off the queue, their dead letters and retries |
| `Broadcast` | the abstract specification of publishing: a message goes, in one step, to all applications that have subscribed |
| `MessageQueue` | publishers that run concurrently while applications subscribe and take messages |
| `SnapshotRepository` | sessions that make snapshots beside their saves, and restore from them |
| `CacheRepository` | sessions of one process that share a cached aggregate, over either cache |
| `MCRedisEventStore`, `MCSqlEventStore`, `MCReliableQueue`, `MCMessageQueue`, `MCSnapshotRepository`, `MCCacheRepository` | the sets of faults the configurations choose from, and symmetry |
| `RedisEventStore_proofs`, `RedisEventStore_order` | theorems about the Redis store: what holds under any interference; the order of the stream, and that it implements `EventStream` |
| `SqlEventStore_proofs`, `SqlEventStore_refinement` | theorems about the SQL store: its invariants, and that it implements `EventStream` |
| `ReliableQueue_proofs` | theorems about the queue: nothing is lost, forgotten, handled twice or, under the lock, out of order |
| `MessageQueue_proofs` | theorems about publishing: its invariants, and that it implements `Broadcast` |
| `SnapshotRepository_proofs` | theorems about snapshots: what they hold, that no event is applied twice, that no hole is left |
| `CacheRepository_proofs` | theorems about the cache: that its lock excludes, what is acknowledged, that no hole is left, what the caches hold |

### RedisEventStore

One action is one awaited Redis call together with the code that runs up to the next one, so
every interleaving of two sessions at their awaits is there.

| Action | Code |
|---|---|
| `AddNew`, `StartLoad`, `Abandon` | `Session.AddAsync`, `Session.GetAsync`, a session that is dropped |
| `ListRange`, `HashGet` | the two parts of `RedisEventStore.GetAsync`; the hash reads of one load run in any order, and `LoadFromHistory` accepts or throws at the end |
| `CommitAsync` | `Session.CommitAsync`, the version check of `Repository.SaveAsync`, `FlushUncommitedChanges` |
| `HashSet` | line 81: the event's data |
| `ListLength`, `ExecutePush`, `ExecuteRefused` | lines 83-95 and 115-121: the conditional transaction and its retries |
| `Publish` | line 98, one call of the message queue |
| `ListRemove`, `HashDelete` | lines 103, 111 and 119: the compensations |
| `Return`, `Crash` | the await in `CommitAsync` resumes; the process dies |

`list` and `hash` are what Redis holds, `session` what each writer holds in memory. An event is
reduced to its version, for no code of the store looks at anything else; a commit id is a number that
is handed out once, like the Guid of line 76. A commit check that does read events (the range is not
empty) ends in an exception whatever these reads do, so `CommitAsync` makes it one step. A commit
without changes saves nothing and is left out.

Any call may be answered, throw without having run (`LostRequests`), or run and throw all the same
(`LostReplies`). That is what `RedisClient` leaves of a timeout or a broken connection once its
retries are used up; a retried call of the store other than the transaction, which is not retried,
does the same as one.

The code keeps some promises in some circumstances only. The history variable `happened` records the
circumstances - two sessions were open together, a commit had two changes, the reply of the
transaction was lost, ... - and each property names those it depends on. One run with every fault then
checks, for each property, that nothing *else* breaks it:

| Property | Holds unless |
|---|---|
| `ListedOnce`: a retry never lists an event twice | - |
| `ListedHasData`: a listed commit id has data, so the aggregate can be read | the transaction's reply was lost, or the compensation in the list did not run |
| `AckedStored`: what was reported as saved is and stays listed, with data, announced | a commit had more than one change |
| `AnnouncedStored`: no message for an event that was taken back | the publish ran and threw |
| `StreamInOrder`, `SavedIsKept`: list index = version; saved events keep their place | two sessions were open together |
| `NothingLeftBehind`: with no save under way hash, list and queue agree | one of the faults that leave the code in doubt, or a crash |
| `SavesEnd`: a started save ends | - (under fairness) |
| `ImplementsEventStream`: the announced part of the list is an `EventStream` | any of the above |

### SqlEventStore

`Load` is one query; `Insert` is `BeginTransaction` with the stored procedure; then `Publish`,
`Commit` or `Rollback`. `rows` are the committed rows in the order of their commits; a row that is
inserted and not committed is that of a session whose `pc` is in `InTransaction`. An insert waits for
another transaction that holds the same version (the unique index of `event.sql`), fails when the
version is taken, and its wait may time out, which is a lost request. With `ReadReplica` the query of
a load or of the version check may see any prefix of the committed rows. A crash makes the server
roll back. After a successful commit the caller may keep the aggregate object and commit it again in
another session. The two schemas, for PostgreSQL and SQL Server, agree in all of this.

Here the promises need no circumstances but one: `StreamInOrder`, `AckedStored`, `StoredIsAnnounced`
(a stored event has been announced, whoever died or threw), `SavesEnd` and the refinement
`ImplementsEventStream` hold under all faults; `AnnouncedStored` (a message is at most one commit
ahead of its event) fails only when the publish ran and threw, the commit did not run, or the writer
died.

### ReliableQueue

The state in Redis is that of the code: the published, the processing and the dead letter list of the
application, the retry data, the set of subscribers (for one application, whether it is in it) and the
distributed lock. A message is a number; nothing in this code looks into it but at its `TimeStamp`,
which is the class of its age (`fresh`, `stale` after the five minutes of line 129, `expired` after
`TimeToLiveHours`), at its `Id`, under which the retry data are kept, and at whether it deserializes.

| Action | Code |
|---|---|
| `Publish` | the transaction of `RedisMessageQueue`: push and notify; the publisher's own steps are those of `MessageQueue` |
| `SetAdd`, `Subscribe`, `CountAwaiting` | `SubscribeAsync`: register, subscribe to the channel, count what waits; `due` is how many callbacks the instance has yet to run |
| `Pop`, `Invoke`, `Bury`, `Remove` | `ExecuteCallback`: `ListRightPopLeftPush`, the application's callback, `AddToDeadLetterQueue`, the `finally` block |
| `GiveUp`, `ExpireLock` | the lock is not had in time; the lock of a dead instance expires |
| `OldestProcessing`, `MoveStale` | `MoveStaleProcessingEventsToDeadLetters` |
| `CountLetters`, `GetLetter`, `ShouldRetry`, `Expire`, `RetryCallBack`, `DeleteLetter`, `UpdateRetryData` | `RetryAsync` |
| `Age`, `Elapse`, `Crash` | time; the process ends, also because an exception left the `async void` callback of line 227 |

The sync and async variants of the subscriber and of the retryable subscriptions take the same steps;
the differences (`throw` at line 181 into the client, which drops it; `Task.Run` around the retry) end
in the same states.

The distributed lock is taken as a perfect one: while a callback of its holder runs it does not expire,
for RedLock renews it; whether it always does is a matter of that library and of clocks. So
`InOrderUnderLock` says what the code makes of such a lock.

A transaction of `MessageQueueRepository` can also be *skipped*: `RedisClient` tries one that threw again
with the same object, which by then has nothing left to execute, so the answer is that all is well
although nothing ran. What is done next then goes on as if it had.

| Property | Holds unless |
|---|---|
| `NothingLost`: a published message is in one of the lists until it is handled or expires | the push on the dead letter list did not run |
| `HandledOnce`: no message is handled twice | its removal was lost; it was stale while in process; an instance died; two instances retried together |
| `NoneForgotten`: an instance has a callback to run for each message that waits | a notification or a pop of it was lost, or it gave up on the lock |
| `InOrderUnderLock`: with the lock, callbacks work on the messages in the order of their publication, one at a time over all instances | - (retries take no lock and come out of order) |
| `Settles`: every message ends handled or expired | a message is unreadable, calls fail, or the lock is used |

An unreadable message shows why `Settles` needs its condition: it stays in the processing list, each
pass of `RetryAsync` throws at it before the first retry, and the dead letters are retried no more.
With the lock a message whose callback gave up waits for the next one or the next start.

### MessageQueue

One action is one call to Redis. `list` and `subscribers` are what Redis holds for one event type,
`call` the calls of `PublishAsync` that run. A message is a number in the order of the calls.

| Action | Code |
|---|---|
| `Call`, with `Try` | `PublishAsync`: the head of its loop, which also comes after each refused transaction, and the exception behind the loop |
| `ReadSubscribers` | `SetMembersAsync`; `seen` is the array the transaction is built from |
| `AwaitRoom` | one `AsyncConditionWaiter` that finds room, or whose poll throws; polls that find the list full change nothing |
| `Execute` | `ExecuteAsync`: the condition `SetLengthEqual`, the pushes; refused, lost, or run without an answer |
| `Subscribe`, `Take` | what the other side does to the same keys; see `ReliableQueue` |

`Broadcast` is what `IMessageQueue` promises: `Send(m)` puts a message on the queue of every member,
once. The code compares only the size of the set with what it read before; `ImplementsBroadcast`
holds because nothing takes an application out of the set.

| Property | What it says |
|---|---|
| `ImplementsBroadcast` | whatever subscribes between the reading and the transaction, a message reaches all or nobody, at most once, and all in one order |
| `FailedIsUnpublished` | after `MessagePublishFailedException` the message is nowhere; after another exception nobody can tell |
| `FailsOnlyByRegistrations` | the exception needs as many new subscribers as there are tries |
| `WithinCapacity` | publishers that found room before others pushed overshoot the capacity, by no more than one message each |
| `EndsUnlessFull` | a call ends, unless a list it waits for is full time and again: the wait has no limit |

### SnapshotRepository

`SaveAsync` starts two tasks on one object and waits for both. The state of an aggregate is the
sequence of the events it applied, so that a wrong snapshot shows. The event store is reduced to what
`SqlEventStore` shows it to be: one event per version, each stored in a step of its own, refused if
its version is taken.

| Action | Code |
|---|---|
| `Restore`, `Replay` | `GetAsync` of `SnapshotRepository`: the snapshot, then the events after it; without one the version is 0 and the replay that of `Repository` |
| `Change`, `Commit` | `ApplyChange`; `CommitAsync` up to the first await of both tasks. `ShouldMakeSnapShot` and `TryMakeSnapshot` run in it when they need not ask the store |
| `AskExists`, `ReadVersion`, `ReadLength`, `StoreSnapshot` | the task that makes a snapshot, on a thread of its own once it has asked: it reads the version and the number of changes one after the other (line 82) |
| `Check`, `Insert` | the task that saves: `Repository.SaveAsync` |
| `Return` | `Task.WhenAll` |

| Property | Holds unless |
|---|---|
| `SnapshotIsReplay`: a snapshot is what the stored events, and those being stored, make | a save failed beside its snapshot; the flush came between the two reads of line 82 |
| `AppliedOnce`: no aggregate, however loaded, has applied an event twice | the same flush |
| `StreamHasNoHole`: when nothing is being saved every version is there | a save failed beside its snapshot |
| `DueIsStored`: a commit past a version divisible by the interval has stored a snapshot | the changes were flushed while the loop waited for `ExistsAsync` |

### CacheRepository

Objects are modelled as such: `object` is the heap, and `cached` the reference that `MemoryCache`
holds, so two sessions may hold, change and commit one object. `copy` is what `RedisCache` serialized:
the state, with the changes applied, and `Version` without them. (It is assumed that an aggregate used
with `RedisCache` serializes its state; the list of changes is private and is not serialized.) `lock`
is the entry of the dictionary `Locks`; a session keeps the semaphore it got there.

`RedisCache` asks Redis whether a key exists, reads it, puts off its expiry, sets it and deletes it. Each
of these calls fails like one of the event store: it throws without having run, or after. The entry in
memory has been set or removed by then, so memory and Redis may differ afterwards, and the exception
goes to the catch of `GetAsync` or `SaveAsync`, whose own deletion may throw in turn.

| Action | Code |
|---|---|
| `StartGet`, `StartSave`, `Acquire` | `Locks.GetOrAdd` and `WaitAsync` |
| `GetIsTracked`, `GetObject`, `GetCopy`, `GetNothing`, `CatchUp`, `Discard`, `Load` | `GetAsync`: each call to the cache and to the store, with the exceptions of a null or expired entry and of a hole in the stream |
| `SaveIsTracked`, `Check`, `Insert` | `SaveAsync`, with `Repository.SaveAsync` in it |
| `Put` | `Set` of the cache, by either of them |
| `Catch`, with `Release` | the catch, which removes the entry, and the finally block |
| `Change`, `AddAgain` | the application: `ApplyChange`, and an object added again after its commit failed |
| `Expire`, `RunCallback` | an entry leaves `MemoryCache` by itself; the callback that removes the semaphore, which `MemoryCache` starts on some thread after an entry expired, was removed or was replaced |
| `Elsewhere` | another process stores an event |

| Property | Holds unless |
|---|---|
| `LockExcludes`: one caller at a time is inside `GetAsync` or `SaveAsync` | the eviction callback removed a semaphore in use |
| `CachedIsReplay`: what the next caller gets is what the stored events make, then the uncommitted changes | events were loaded beside uncommitted changes; an object was serialized with them; an object was saved again after a failed save; its copy could not be deleted from Redis |
| `StreamHasNoHole`: at any time every version up to the last is there | an object was saved again after a failed save; its copy could not be deleted from Redis; the semaphore was removed |
| `AckedIsStored`: a commit that returned has stored its session's changes | another session's commit had flushed them, or an object was saved again after a failed save |

Each circumstance in these tables is needed: without it TLC finds the property violated. For a copy that
could not be deleted, `StreamHasNoHole` takes three faults for that (with `MaxIds = 2`): the save, the
check when it is saved again, and the deletion fail.

## 3. Runs

| Run | Instance | What it shows |
|---|---|---|
| `redis_faults` | 2 sessions, 3 commit ids, batches of up to 2, 2 tries, every call may fail both ways, crashes; symmetric sessions | all the safety properties above, the action property and the refinement |
| `redis_saves_end` | 2 sessions, 2 ids, every fault, fairness | `SavesEnd` |
| `redis_conflict` | 2 sessions, no fault | violation of `NoConflictingCommits` |
| `redis_batch` | 1 session, no fault | violation of `SavedIsStored` |
| `sql_faults` | 2 sessions, 4 events, batches of up to 2, replica, every fault, crashes, fairness | everything said of the SQL store |
| `queue_faults` | 2 instances under the lock, 2 messages, one instance retries; one fault: a lost notification, request or reply, an unreadable message or a crash; callbacks throw and get slow at will | `NothingLost`, `HandledOnce`, `NoneForgotten`, `InOrderUnderLock` |
| `queue_settles` | 1 instance without the lock, 2 messages, a crash, fairness | `Settles`, and `HandledOnce` where callbacks overlap each other and a pass |
| `queue_twice` | 2 instances, 1 message, no fault | violation of `OnlyOnce` |
| `publish_faults` | 3 applications, 2 publishers, 3 messages, 2 tries, a capacity of 1 or none, one lost request or reply, fairness | everything said of publishing |
| `snapshots` | 2 symmetric sessions, 5 events, batches of up to 2, a snapshot every second event, one lost request or reply | everything said of snapshots |
| `snapshot_memento` | 2 sessions, 4 events, no fault | violation of `MementoOfAVersion` |
| `cache_faults` | 2 symmetric sessions, 3 events, either cache, one expiry, one eviction callback at a time, one lost request or reply of the event store or of Redis | everything said of the cache |

Bounds. Two sessions are enough to meet at every pair of awaits, and the code never treats a third one
differently. Three ids let one session save, a second one compensate below it and a third save build
on the result; a batch of two against a single change is the case in which the loop's early return
matters; two tries let a transaction be refused, tried again and refused for good. Four events in the
SQL store let two batches of two collide in the middle. `MaxIds`, `MaxBatch` are the only bounds that
are not the code's; `TransactionRetryCount` is a setting.

In `ReliableQueue`, two messages are enough for an index into the dead letters to go wrong and for one
message to overtake another; `StaleCount = 1` instead of 10 keeps the processing list longer than what
a pass looks at. `MaxFaults = 1` counts lost calls and crashes together; callbacks that throw or are
slow are not faults and are not bounded. Lost replies of reads are lost requests, and a read that ends
a pass of retries is the pass ending early, so the runs leave both out. `queue_faults` has no time to
live, for the other run has it. Two instances that retry together are only in the violation run.

In `MessageQueue`, three applications are enough to refuse both tries of a publisher and leave one that
subscribes after the message; two publishers overshoot a capacity of one. In `SnapshotRepository` an
interval of two with batches of two has snapshots due at the first and at the last change of a batch;
five events let a session restore, commit past a due version and be restored from. In
`CacheRepository` two sessions are the two that share an object; three events let one be stored
elsewhere, or one commit fail and be repeated. `MaxCallbacks` bounds the callbacks that wait; a
further one would do what the first does. `MaxFaults = 1` in all these runs, because the properties name
the circumstances that a fault leads to. In `CacheRepository` the fault may be the deletion of the copy,
for a save fails without any when another process has stored an event (`Elsewhere`). What holds under one
fault there is proved for any number.

Fairness. `FairSpec` asks only that a save that is under way goes on (`WF` of `Save(w)`): the runtime
resumes a continuation once its call has been answered or has thrown, and every call ends one way or
the other because the clients have timeouts. Nothing is asked of the application: it may never load or
commit. In `SqlEventStore` an insert that waits for another transaction may time out, and nothing is
asked of that: fairness is of `Granted(w)`, an insert that is not blocked. The holder of the lock goes on
by `WF`; an insert that is let in, blocked again by another one that was let in before it, and so on, is
executed in the end (`SF`), for the server serves those that wait.

Deadlock is checked in the runs of the stores and of `ReliableQueue`: in no state are all sessions
stuck, and an idle one can always load again.
`MessageQueue`, `SnapshotRepository` and `CacheRepository` may really stop, when the messages or the
events of the instance are used up, so their runs do not check it.

`FairSpec` of `MessageQueue` asks only that a publisher that was called goes on (`WF` of
`Continue(p)`), as above. A publisher whose list is full has no step to take. Nothing is asked of the
applications: none has to subscribe or to take messages.

In `ReliableQueue`, `FairSpec` asks that time passes, that the steps of callbacks and of passes are
taken, and two things of the environment: that an instance that is down is started again, and that the
application calls `RetryAsync` over and over, as it is meant to. Nothing is asked of the callback,
which may throw each time; the message then expires.

## 4. Where the code departs from what is said of it

* `redis_conflict`. README.md lists "Optimistic concurrency checking". Two sessions that loaded the
  same version can both pass the check in `Repository.SaveAsync`, for the transaction is conditioned
  on a list length that `SaveAsync` reads afterwards (lines 87-89), and both are told that they saved.
  From then on the aggregate cannot be loaded.
* `redis_batch`. README.md says that a commit stores "all changes". `SaveAsync` returns after the
  first event of the batch (line 99).
* `queue_twice`. A comment in `RedisMessageQueue.cs` (line 86) says that an event is processed once
  however many instances there are. `MoveStaleProcessingEventsToDeadLetters` measures the age of a
  message from its publication, so one that waited for five minutes is stale as soon as it is popped,
  and a pass of retries that meets it there handles it beside its callback.
* `snapshot_memento`. `Snapshot.cs` (line 6) says that a snapshot is a memento of an aggregate "in a
  version". It is stored beside the save of the events, so it stays when the version check refuses the
  commit, and holds changes that were never stored. A session that restored from it meanwhile goes on
  from that version; its event is stored and leaves a hole, and `Repository` cannot load the aggregate
  any more.

Three more are shown by the conditions of properties that hold. `ListedHasData` needs that the reply of
the Redis store's transaction is not lost: the handler at line 110 of `RedisEventStore.cs` deletes data
that the list refers to. `NothingLost` needs that the push on the dead letter list runs: if it throws,
the `finally` block of `ExecuteCallback` removes the message all the same. And `CachedIsReplay` needs
that Redis deletes the copy of an object whose save has failed: `RedisCache.Remove` (line 94 of
`RedisCache.cs`) may throw in the catch of `SaveAsync`, which leaves in Redis a copy with events that were
never stored, for every process that loads the aggregate from there.

## 5. Proofs

The theorems hold for any set of sessions, any number of commit ids, changes per commit and tries,
any choice of calls that may fail, and with or without crashes. They rest on the assumptions the
modules state for their constants, and on nothing else.

**SQL store.** `IInv` of `SqlEventStore_proofs` adds to the invariants of the runs what makes them
inductive. A session is open at a version the stream has reached (`OpenInv`), however stale its reads;
what it saves is numbered up from there, and what it has saved is stored (`SavingInv`). So a row it
inserts has at most the next version; the unique index refuses the versions below; hence a session
with an open transaction holds exactly the next version (`HoldsNext`), and as two such rows would
collide, only one session has an open transaction (`OneTransaction`). Each commit therefore appends
the next version. The argument does not use `Repository`'s check, which with a replica says little:
the unique constraint alone orders the stream. That what is stored is announced, and announced only
once stored, follows from what a session between its commit and its last message has still to publish
(`AnnouncedStored` is inductive beside `IInv`, by `StepAnnounced`). Theorems: `TypeCorrect`,
`VersionsInOrder`, `SavedIsSaved`, `StoredWasAnnounced`, `AnnouncedIsStored`.

`SqlEventStore_refinement` proves `Spec => ImplementsEventStream`. What is missing from `IInv` is that
no event is stored twice: `IdInv` says that the ids of different sessions are different and that what
a session still has to save is not stored. With both, every step is a step of `EventStream` or leaves
the table and the acknowledged ids as they are.

**Redis store, any interference.** A step of a save touches one commit id in the list, the hash and
on the queue, and no two saves have an id in common (`DisjointInv`). So it is enough to know, of each
save, what is true of its id at each point (`PointInv`), and of the ids no save is at, what the
properties say (`DataInv`, `AckedInv`, `AnnouncedInv`, `SettledInv`). Lemma `SaveStep` carries the
argument once for all eight steps; each action then has only its own id to look at. Theorems:
`TypeCorrect` (with it that no save starts its transaction without a try left), `NeverListedTwice`,
`ListIsReadable`, `SavedIsSaved`, `AnnouncedIsStored`, `UndoneCompletely`.

**Redis store, the order.** As long as no two sessions are open together, `SoloInv` holds: the session
that is open loaded no more events than there are (`ReadInv`), so `Repository`'s check leaves it at
the end of the list, and what it pushed is still the last entry when it compensates (`WriteInv`).
Theorems `VersionsFollowTheList` and `SavedKeepsItsPlace`, the latter about each step. Here the check
is needed, and it is enough only because the sessions do not overlap; `redis_conflict` is what happens
otherwise.

Both invariants together say what has been announced: an id in the list that is not announced is that
of the session under way, at the end of the list (`ListedIsOut`). So the announced ids are the first
`n` of the list, which is `LogInv`, and pushing an id or removing it changes nothing of them, while
publishing one makes them the whole list. That is `Refinement`, under the circumstances
`ImplementsEventStream` names.

**Queue.** The lists of Redis are sequences that are filtered; what is kept has a rank, one-to-one and
onto, which gives the facts about pushing, popping and removing (`KeepFacts` and the lemmas from it).
`NoneForgotten` is inductive as it stands. For `NothingLost`, who is about to remove a message from
the processing list has it among the dead letters or at its end (`LossInv`), and a letter about to be
deleted was handled (`DeleteInv`). For the order under the lock, the list is sorted by age
(`QueueInv`), one callback runs at a time and what waits is younger than what it handles (`LockInv`).
For `HandledOnce`, a message is in one place and its outcome is open until its callback ends
(`PlaceInv`); at most one pass runs, and the letter in its hand is there until the pass deletes it
(`RetryInv`). Theorems: `TypeCorrect`, `NoMessageForgotten`, `NoMessageLost`, `MessagesInOrder`,
`NoneHandledTwice`, for any instances, messages and faults; each under the condition its property
names.

**Publishing.** The set of subscribers only grows. `CallInv` of `MessageQueue_proofs` says what
follows for a publisher: what it has read is a part of the set, and with each refused try it knows of
one subscriber more than before (`before + i`). Hence equal size means equal sets, and the transaction
is a `Send` of `Broadcast` (`Refinement`); and giving up needs as many newcomers as tries
(`GivesUpOnlyForNewcomers`). A message has one call (`ApartInv`) and its fate is open while that call
is tried (`FateInv`), from which `FailureIsCertain`. `WithinCapacity` is inductive as it stands: it
counts the publishers that were let in with the length of the list, and each of them pushes once
(`CapacityHolds`). The theorems hold for any number of applications, publishers, messages and tries,
any capacity, and any calls that fail.

**Snapshots.** `IInv` of `SnapshotRepository_proofs` says how a session's fields go together (`Shape`)
and that no version is ahead of the events that were made (`Bounds`); from it follows `DueIsStored`,
with what the search has found so far (`DueInv`). For `AppliedOnce`, an event is at the same place in
the stream, the snapshot and every session that has it (`HomeInv`), and the changes of a session are
the last events it applied (`LengthInv`). For `StreamHasNoHole` and `SnapshotIsReplay`, what lies below
a version in use is `Promised`: stored, or still to be stored by a session that may have it in a
snapshot. A promise is kept until it is stored, unless that session's save fails, which is the mark
`unsaved` (`PromiseKept`); whoever restores a snapshot builds on promises only (`CoverInv`, and
`SameInv` with the events themselves). Theorems: `TypeCorrect`, `NoEventAppliedTwice`, `NoHoleIsLeft`,
`SnapshotIsOfTheEvents`, `DueSnapshotIsStored`, for any sessions, interval, events and faults.

**Cache.** A semaphore has one holder whatever happens (`HolderInv` of `CacheRepository_proofs`, by
`Acquire`); what may go wrong is that two sessions do not have the same one. Until the eviction
callback removes a semaphore that is in use, all who wait or are inside have the dictionary's
(`SameInv`). A session that finds none makes one that nobody has: there is one more semaphore than
sessions, so by the pigeonhole principle one is free (`FreeLock`), which is where the proof needs that
the sessions are finitely many. Theorem: `MutualExclusion`.

The other theorems use no lock where the property names no eviction: they hold even if several
sessions are inside. `TypeCorrect` is not about types alone, for a version must be bounded. Each event
waits among the changes of one object, once, until a commit flushes it (`ApartInv`); no version of an
object, a session or a copy, and no row, is beyond the number of events that have stopped waiting
(`VersionInv`), and each step that raises a version takes as many events out of waiting. For
`AcknowledgedIsStored`, what a session changed is waiting in its object, or is among what it flushed
and, up to `saved`, in rows that stay (`OwnInv`, `AckInv`), or a save of its object has failed: then only
a commit that saves the object again (the mark `reused`) could report it as saved. It is the object that
another session flushes that breaks this otherwise, the mark `taken`.

For `NoHoleIsLeft`, every object no save of which has failed has all rows up to its version, unless
someone is inserting them right after those that are there (`HoleInv`). `GetAsync` puts no object into
the cache that has failed (`WholeInv`); `SaveAsync` may, for one that was added again, and goes on to
the check. So an object that failed is in a cache only until a check finds it or the catch removes it,
and the marks `reused` and `kept` record that the former let it pass or the latter did not succeed.

For `CachedIsTheEvents`, the state of an object that has not failed is, up to its version, the stored
rows and those its saver is about to insert in exactly those places, and then the changes that wait;
what Redis has is the stored rows (`ReplayInv`). As each call of Redis may fail, what is left of a failed
object can be in memory, in Redis, in both or in neither. `BrokenLeaves` covers them all: if it is in
either, somebody is inside who is about to check the version or is in the catch. There the entry in
memory goes in any case, and the copy if its deletion runs.
`NamesAssumption` keeps the sessions apart from the values `"none"` and `"null"` of `cached`.

## 6. What is only model-checked, and what is not modelled

`SavesEnd`, `Settles` and `EndsUnlessFull` are liveness properties and stay with TLC, for TLAPS proves
nothing of `ENABLED`. All other properties of the passing runs are proved. The properties of the
violation runs are refuted by TLC.

Of the Redis store's object the model has no further use after its commit; the SQL model has (an
object kept after a successful commit). `GetAsync` of a session that has the aggregate already tracked
answers from memory and is left out.

Not modelled:

* gzip, JSON and the partition of hash keys: pure conversions; the CQRS hub and the sample: stateless;
  the back-off and jitter of `RedisClient` and the delays between tries: only time.
* `DynamicInvoker`. Its cache is replaced as a whole, under a lock, by one with another entry; what an
  entry is depends on its key only, and one that is missing is made again. No interleaving could be
  told from another by what `Invoke` returns.
* A session of several aggregates. Their saves are tasks that share no state but Redis keys that
  differ; that some succeed and some fail is all there is to it, and the code keeps no record of which.
* Two aggregates of different types under one id: whether an application has such ids is not in the
  code.
* Several event types of a subscriber: their keys differ.
* Several applications that take the same messages. Their lists have keys of their own, but not the
  retry data: the key at line 142 of `MessageQueueRepository.cs` has no application name, so a retry by
  one application puts off those of the others, and a deletion forgets what they have counted. Within
  one application, two messages that share their retry data are modelled (`OneAggregate`).
* A distributed lock that expires while its holder still runs.
* Cancellation: no caller of `AsyncConditionWaiter` passes a token.

## 7. What could follow

A session of several aggregates, with what it tracks after some of their saves have failed; the other
parts that section 6 leaves out are without state.
