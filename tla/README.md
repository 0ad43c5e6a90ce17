# worker-service in TLA+

These modules specify the worker service: an HTTP service that accepts
transactions, stores them in Mongo, hands them to one worker thread through a
job queue, and keeps enough in Redis to rebuild the queue when it is started
again.  TLC checks the modules on small instances.  TLAPS proves, for every size, all
the safety properties that the runs check, the two refinements among them; liveness
is left to TLC.

Paths are relative to the repository's root.

## The system

Three kinds of thread run in the process: the main thread, which is
`service_init` and then `cerver_start`; the threads of cerver's pool, each of
which runs one request handler at a time; and cerver's worker thread, which
calls `worker_handler_method` for each job.  Redis and Mongo outlive the process.

| component | state | operations |
|---|---|---|
| transaction creation (`src/controllers/transactions.c`, `src/routes/transactions.c`) | the `Transaction` of the request | `service_trans_create`: object, parse, insert, list, push, answer; each error path |
| worker thread (`src/worker.c`) | the job in work | `worker_handler_method`: LREM, key of the transaction in work, work, counters, result; `delete_data` |
| object pool (`service_trans_get`, `service_trans_return`) | `trans_pool` | pop (or allocate), zero and push |
| queue recovery (`src/backup.c`) | the LRANGE reply | `backup_fetch_current_trans_in_worker_queue`, `worker_current_push_from_backup` |
| transaction counters (`src/data.c`) | five counters and `current_n_trans_in_worker_queue` in `service_data`, keys in Redis | update, restore, `data/init`, `data/reset` |
| time statistics (`src/data.c`) | n, min, max, sum, average of waiting, process and complete time; keys in Redis | update under a mutex, restore without it, `data/init`, `data/reset` |
| worker control (`src/worker.c`, `src/state.c`, `src/routes/worker.c`, `src/routes/state.c`) | cerver's worker, `service_state`, three keys in Redis | start, stop, `state/init`, `state/reset`, `worker_current_init` |
| start-up (`src/service.c`, `src/main.c`) | `FIRST_TIME`, the key of `credis_set_test`, `started`, what has been acquired | `service_init`, its errors, what `main` makes of them, `start` |
| signals, teardown (`src/main.c`) | `worker_service`, what has been released | `end`, `service_end`, by two signals on any thread |
| documents (`src/controllers/transactions.c`, `src/models/transaction.c`) | Mongo, the fields of the pooled objects | POST, PUT (read, modify, write), DELETE, the worker's result, lookup at a restart |
| routes, JSON reports, configuration, version | | no state of their own |

How they meet: a handler and the worker share the job queue, the Redis list
`current_trans_in_worker_queue`, the counters and the pool.  The main thread
shares all of these with the worker at start-up, because `worker_current_init`
starts the worker *before* the list and the statistics are loaded.  Start, stop,
init and reset requests share `service_state` and `service_data` with each other
and with the worker.  PUT, DELETE and the worker share a document without a lock.
A signal runs `end` on whatever thread it meets, beside or on top of all of these.

What is hard here:

* one transaction is in up to five places (object, job queue, Redis list, key of
  the transaction in work, Mongo) which change in separate steps, and the process
  may end between any two of them;
* objects are passed between threads by convention: no lock, no reference count;
* calls that fail: pool, insert, lookup at the restart, push, update of the result;
* data that is changed under a mutex by one path and without it by another;
* state that is changed in one step and reported, in memory and Redis, in another;
* documents and objects of which each path sets only some fields;
* a start that may fail anywhere and a teardown that may begin anywhere, twice.

What makes each component correct:

* **creation, worker, pool, recovery** - an object has one owner; none is lost;
  an answered transaction is never forgotten while it waits; none is worked on
  twice; counters agree with each other through errors and restarts; the queue is
  rebuilt exactly;
* **worker control** - after a restart the worker, the memory and Redis agree; a
  request that reached Redis decides what the worker does next;
* **counters** - they never count what has not happened, lose nothing except where
  the code takes no mutex, and a report of them adds up;
* **statistics** - they never claim more than was measured, survive restarts, and
  no reader of the mutex sees a half-made update;
* **documents** - nothing of one transaction reaches another, nothing removed comes
  back, what the worker wrote stays, and the result is that of the transaction;
* **start-up, teardown** - the worker has what it uses, the service serves when it is
  ready, everything is released once, and the process ends when it is told to.

## Modules

| module | what it is |
|---|---|
| `TransPipeline` | creation, worker, pool, counters and recovery, with crashes and failing calls |
| `WorkQueue` | what the pipeline promises: accept, take, finish, lose |
| `WorkerControl` | start, stop, `state/init`, `state/reset`, `service_init` |
| `ServiceControl` | the composition of these two: a worker that is stopped while transactions come |
| `Counters` | the five counters and the count of the queue, load by load and store by store |
| `TimeStats` | one time statistic: update, reset, init, restore |
| `Documents` | the fields of transactions in objects and in Mongo |
| `DocumentStore` | what `Documents` promises: create, update, complete, remove |
| `Lifecycle` | what is acquired and released, by main and by signals |
| `MCTransPipeline`, `MCServiceControl`, `MCWorkerControl`, `MCCounters`, `MCTimeStats`, `MCDocuments`, `MCLifecycle` | the instances that TLC checks (symmetry sets, bodies of requests) |
| `SeqLemmas` | what Append, Tail and RemoveFirst do to the elements of a sequence |
| `TransPipelineProofs`, `WorkerControlProofs`, `ServiceControlProofs`, `CountersProofs`, `TimeStatsProofs`, `DocumentsProofs`, `LifecycleProofs` | the proofs about these modules |

Definitions whose comment begins with "Mistake:" are plausible errors in an
action, kept beside it.  No specification uses them: they are what the
properties are tested against.

### TransPipeline

A handler's `pc` runs through `service_trans_create`:

    idle -Create-> get -Get-> parse -Parse-> insert -Insert-> receive -Receive-> add
         -AddToQueue-> push -Push-> good -Good-> respond -Respond-> idle
    parse -ParseFails-> bad,  insert -InsertFails-> bad -Bad-> return -Return-> idle
    get -GetFails-> idle

The worker's `wpc` runs through `worker_handler_method`:

    wait -Pull-> set -SetCurrent-> key -SetKey-> work -Work-> processed
         -Processed-> result -Result-> return -GiveBack-> wait

and `main` through `service_init`:

    down -Start-> lookup (-Lookup or LookupFails-> count -CountFromBackup-> push
         -PushFromBackup-> lookup)* -Serve-> up

One step is one critical section, one Mongo operation, one operation on the job
queue or one Redis write that another thread could see apart from its neighbours.
A counter and its Redis key change in one step because both are written under
`trans_count_mutex`; `current_n_trans_in_worker_queue` and the Redis list change
in one step because both are written under `worker_trans_mutex`; the key of the
transaction in work follows in a step of its own (`SetKey`).

An object is a slot that holds the id of its transaction or `NoTrans`.  Mongo is
what is known of each id: absent, stored, done, deleted.  `Crash` is any end of
the process (a signal included: `end` changes neither Redis nor Mongo).
`NullJob` is the end that `worker_handler_method` brings about when its job is
NULL.  `Faults` names the calls that may fail; `"memory"` is `transaction_new`,
which otherwise fails only when there are no more `Slots`.  What `worker_push_job` does with
a NULL argument cannot be read off this repository, so both outcomes (refused,
queued) are possible.

`req`, `acked`, `finished`, `interrupted`, `uncounted`, `lostJob` and `crashes`
are history variables.  `lostJob` marks the time between a push that failed, or a
lookup that failed while the list was loaded, and the next restart; the properties that
such a failure breaks are stated up to it.

### WorkQueue

`TransPipeline` implements it with the Redis list as `pending`, the transaction
between `SetCurrent` and `Result` as `current`, and the transactions that died
with the process as `lost`.  That it has an action `Lose` is the point: the
service does not promise that a transaction in work survives.

### WorkerControl

`Resume`/`Stop` change the worker, `Resumed`/`Stopped` (under `worker_mutex`) the
state and Redis: two steps, because the code takes the mutex only for the second.
`state/init` reads the three arguments of its MSET one after the other, in any
order, without the mutex.  `RedisInit`, `StateInit`, `Fetch`, `WorkerInit` and
`WorkerStarted` are `service_init`; `NilState` is the `atoi(NULL)` of
`backup_fetch_worker_state` when the keys do not exist.  `unread` and `snap` are the
arguments a handler has still to read and those it has read.  `raced` (since the start
of the process two requests have overlapped) and `inited` (there was a `state/init`)
are history: the properties say what holds without them.

### ServiceControl

It extends `TransPipeline` and instantiates `WorkerControl`; an action is a step of
one that leaves the variables of the other alone, except that

* the worker pulls a job only while `WorkerControl`'s worker is available (`Take`), and
  finishes what it has when it is stopped (`Finish`);
* `service_init` is the one's start and then the other's (`ServiceInit`): the state is
  restored and the worker started before the list is loaded;
* the process ends for both (`Dies`, `DiesOfNull`, `DiesEarly`).

The control requests are all four of `WorkerControl`.  A `state/init` does not change the
worker, but after a `state/reset` it makes Redis forget that the worker was stopped, and
the next start runs it: `StoppedListGrows` is stated for as long as there was none
(`inited`).  That a resumed worker takes the jobs that have waited is what the service
expects of cerver.

### Counters

Under `trans_count_mutex` an increment is a load (`Lock`), a store (`Store`) and a
Redis write with the unlock (`Set`), so that what does not take the mutex falls in
between: the worker's increment of `n_processed_trans` (`ProcessedLoad` to
`ProcessedSet`), and `data/init`, which reads the five fields in any order.  Transactions
have no names here; the Redis list and the job queue are their lengths.  A request that
finds no object ends with `n_trans` (`Set`), and a push that fails leaves the queue as it
was (`Push`, `Load`).  `current_n`
is reduced modulo `Modulus`, the 2^w of a `size_t`, at each step.  `happened`, `base`
and `queueBase` are history: what has been counted so far, what each counter does not
count since a reset or a restart, and what was listed at the last reset.

### Documents

An object is the record of `transaction.h` without the measured times, a document that
of `transaction_to_bson`; `FromDoc`, `Patch`, `UpdateFields` and `ToDoc` set the fields
that the C functions set and leave the others, so that what a reused object still
holds is visible.  Mongo keeps dates in milliseconds.  The hash is the pair of what it is
computed from.  A PUT is a read into an object and a later write.  Every write to Mongo may
fail; nobody looks at what the writes of the worker time (`Stamp`, `worker.c:123`) and of
the result (`StoreResult`, `worker.c:221`) return, and the job goes on.  The history
variables `stamped` and `done` have the transactions for which Mongo has made them.

`DocumentStore` is the promise: each request and the worker's result take effect in
one step.  Of two PUTs of a transaction that overlap the service promises nothing
(`Clash`, `Unspecified`), except that other transactions and the worker's fields are
not touched.

### Lifecycle

`pc["main"]` runs through `service_init`, `start` and `service_end`, one step for each
thing acquired or released; `pc[s]` runs through `end` for signal `s`.  A signal
interrupts a thread of control, which then never goes on (`suspended`: `end` does not
return), or comes to a thread of the worker or of cerver, which does not go on either
(`stopped`).  Each call that is checked may fail (`Failures`).  `released` counts releases
because pointers are not cleared.

`service_end` waits: `worker_end` lets the worker finish its job and waits for its thread
(`WorkerEnd` is enabled only between two jobs, and never when the signal has come to the
worker's own thread).  The job takes `worker_trans_mutex` and the mutexes of the three
statistics in turn (`WorkerLocks`); handlers take them for a push, a report and a reset,
and main takes the first for each transaction that it loads.  An interrupted thread keeps
what it holds (`holder`), and then the job and the teardown may wait for it for ever:
`EndsWhenTold` says that the process ends unless it waits so (`WaitsInVain`), and that
there is no other wait.

Of cerver it is taken that `worker_end` waits for the thread and takes no new job, as the
name and the use in `service_end` say, and that `exit` returns to nobody.  Nothing is
taken of a `cerver_teardown` beside an interrupted thread of its pool.  Left out are the
locks inside cerver (that of the object pool is one), cmongo, credis and the C library,
which `end` takes although a signal handler should not, and `trans_count_mutex` and
`worker_mutex`, which neither `end` nor the worker thread takes.

### TimeStats

The three statistics differ in names alone, except that a waiting time is a
difference of two readings of the clock: `Waiting` chooses.  Loads and stores of
fields are steps, so that the main thread's restore (no mutex) can fall between
them.  `%f` rounds to `Unit`; the average is the pair of numbers it is the
quotient of.  The waiting time of a restored transaction is measured from zero,
because `trans_doc_parse` does not read `worker_time`; the module does the same.
`stopped` says for each restart whether Redis has the worker stopped, so that nothing
is worked on while the statistics are loaded, and `raced` that one restart had not.

## Runs

| run | bounds | what it shows |
|---|---|---|
| `pipeline_faults` | 2 handlers, 3 transactions, 3 objects of which 1 is pooled, 3 requests, 2 crashes, every fault, any deletes | `TypeOK`, `OneOwner`, `NoLeak`, `QueueIsDurable`, `NoOrphan`, `QueueCountExact`, `AckedNotLost`, `RequestAccounting`, `ProcessedWithinReceived`, `NoRework`, `KeyNamesUnfinished`, and that the pipeline implements `WorkQueue` |
| `pipeline_control` | 1 handler, 2 transactions of which 1 may be deleted, 1 object for both, 2 requests, 1 operator with 3 control requests of all four kinds, 1 crash while it serves or loads the list and any number before, pushes, lookups and allocations that fail | `StoppedListGrows`, and `AckedProcessed` under fairness |
| `control_races` | 2 handlers, 5 requests of all four kinds, 2 crashes, 3 seconds | `TypeOK`, `RestartHeals`, `PersistedRequestHolds`, `CachedTimesMatchState` |
| `counters` | 2 handlers, 2 POSTs, 1 reset, init or report, 2 crashes, a `size_t` of 2 bits | `TypeOK`, `NeverMoreThanHappened`, `CountersExact`, `QueueCountModular`, `ReportAddsUp` |
| `stats_races` | waiting times of 2 transactions, 1 reset or init, 2 crashes, the clock from 7 to 9, the worker stopped or not at each restart | `TypeOK`, `WithinMeasured`, `Coherent`, `SurvivesRestart` |
| `documents` | 2 handlers, 2 transactions, 3 objects, 3 bodies, 2 PUTs, DELETEs, 1 crash | `TypeOK`, `NoForeignData`, `RemovedStaysRemoved`, `ResultOfTransaction`, `WorkSurvivesUpdates`, and that it implements `DocumentStore` |
| `lifecycle` | both signals, every call may fail, 1 handler beside main and the worker | `TypeOK`, `WorkerHasWhatItUses`, `ServesReady`, `ReleasedOnce`, and `EndsWhenTold` under fairness |
| `pipeline_ack`, `pipeline_count`, `control_state`, `control_first`, `stats_total` | as small as the behaviour allows | one statement of a comment or the README each, and the behaviour of the code that breaks it (see below) |

Why the bounds are enough to be of use.  Two handlers are what a race between
requests takes; a third transaction makes the order of the list and that of the
queue differ while a third waits.  One pooled object of three makes both branches
of `pool_pop` and its failure happen.  Two crashes let a restart be interrupted
and its successor start from what it left.  Five control requests with two
crashes let a start, a stop, an init and a reset overlap across a restart.  In
`counters` two POSTs, a reset and a crash are what it takes for the count of the queue
to wrap, for a reset to fall into the unlocked increment, and for a restart to load
what these left; `Modulus` 4 makes the wrapped value differ from any length.  In
`TimeStats` `Unit` is 2, so that rounding happens, and two restarts let an error
accumulate; one reset or init can fall between any two steps of an update or a restore.
In `documents` the three bodies give every field, a title alone, and everything
but the title; there are fewer objects than requests and jobs want, so they are reused.
In `lifecycle` a signal of each kind comes at most once, for `end` exits; one handler is
enough to hold a mutex that the worker needs while a signal interrupts it, and main and the
worker are the other two that may.

In `pipeline_control` one handler posts both transactions, for races of handlers are the
matter of `pipeline_faults`, and those of control requests of `control_races`.  One object
for two transactions makes allocations fail in a request and while the list is loaded.
One crash of a service that is up or loads the list is enough for a transaction that one
process has failed to queue to be taken up by the next.  Three requests are what a stop, a
reset and an init take: without `inited` in `StoppedListGrows`, or without `lostJob` in
`AckedProcessed`, TLC finds the property violated within these bounds.  A second operator
would make `raced` as necessary; `StoppedListGrows` is proved for any number of operators.

Deadlock is not checked: requests, crashes and the clock are bounded, and a
service that nobody asks anything of, or that is down, rightly does nothing.

Fairness.  `pipeline_control`: weak fairness of each handler's steps after the
request has come, of the worker thread (which may take the job of a NULL transaction, and
then the process dies), and of the main thread from the moment the process is there.
These are threads that the operating system schedules and that wait for no condition
except a job or a mutex that is released in the same call.  Nothing makes a client post or
start the worker, a crash happen, or a dead service start again: `AckedProcessed` is about
behaviours in which the process does not stay down, the worker does not stay stopped, and
the process that serves has not itself failed to queue a transaction (`lostJob`: a push
that fails, whose result `worker_current_push` and `service_trans_create` ignore, or a
lookup that fails while the list is loaded).  Such a transaction waits for the next start.

`lifecycle`: weak fairness of main, of the two runs of `end`, of `cerver_teardown` when no
thread of the pool is interrupted, and of every unlock, for these go on whenever they can;
strong fairness of `WorkerLock` and `FetchData`, which wait for a mutex that others take
and release again and again.  That is more than POSIX says of a mutex: it is the
assumption that a thread that waits is not overtaken for ever.  No client, no job and no
signal need come.  `WorkerEnd` is a step like others of `end`, but it is not always
enabled, and fairness does not make it so: this is where `EndsWhenTold` has its exception.

## What the code does not do

The runs that end in a violation each show one sentence of the repository that
the code does not keep:

* `pipeline_ack`: `src/backup.c:315` "get the trans that was being processed" -
  the call is commented out, and the id has left the list before the work.  An
  answered transaction in work when the process ends is never taken up again.
* `pipeline_count`: `src/data.c:440` - at a restart every listed id adds one to
  `current_n_trans_in_worker_queue`, also when its transaction has been deleted
  and there is nothing to push.
* `control_state`: `README.md:38` - a start and a stop that overlap leave a
  state that is not the worker's.
* `control_first`: `src/service.c:327` - the key that says "was up before" is
  written before the defaults; a crash in between makes later starts fail.
* `stats_total`: `include/data.h:27` - the statistics are loaded over what the
  running worker has added.  The run takes the waiting times (`n_waits`); the code of the
  other two is the same.

Seen in the modules, without a run of their own, because no sentence of the
repository is against them:

* the waiting time of a restored transaction counts from the epoch of the clock
  (`TimeStats!PushListed`);
* `data/init` writes the values of the moment where `README.md:76` says default
  values (`TimeStats!InitWrites`, `Counters!InitWrites`);
* a request that finds no object is in `n_trans` and in neither of the other two
  counters (`TransPipeline!GetFails`);
* after a `data/reset` while jobs wait, `current_n_trans_in_worker_queue` wraps below
  zero until the next restart (`Counters!QueueCountModular` says exactly when);
* a reset between the load and the store of the worker's increment is undone for
  `n_processed_trans` (`Counters!torn`);
* of two PUTs of one transaction that overlap, one may be lost in part or whole
  (`Documents!clashed`); a PUT without an amount sets it to zero (`Patch`); one
  whose body is not JSON changes nothing and is answered like one that did;
* when the environment, Mongo or Redis fail, `service_init` returns 0 and main serves
  (`Lifecycle!Needs`, the exception in `ServesReady`);
* a signal during the teardown, or after `cerver_start` has failed and its cerver
  was deleted, releases things a second time (the exceptions in `ReleasedOnce`);
* a signal on a thread that holds `worker_trans_mutex`, while the worker is in a job,
  leaves a process that does not end: `worker_end` waits for the worker, and the worker
  for the mutex (`Lifecycle!WaitsInVain`);
* a transaction whose push fails, or whose lookup fails at the start, waits for the next
  start of the service (`TransPipeline!lostJob`);
* a `state/reset`, a `state/init` and a restart make a stopped worker run
  (`WorkerControl!InitWrites`, the exception in `StoppedListGrows`);
* a `worker_time` or a result that Mongo did not write is not written again, and the
  transaction counts as processed (`Documents!Stamp`, `Documents!StoreResult`).

## What is proved

Each module of proofs has an inductive invariant, the lemmas that it holds at the
beginning and is kept by every action (one lemma for an action or for a group that
changes the same variables), and the theorems that follow.  Where one invariant would
be too large there are several, each proved with the help of those before it.  All
constants are arbitrary up to the named assumptions of each module: sets of handlers and
objects are finite, bounds are numbers, model values that stand for nothing are not
members of the sets that they are beside.

### TransPipeline

| theorem | what it proves |
|---|---|
| `OwnersInvariant`, `TypeCorrect`, `OneOwnerCorrect` | `IInv`, `TypeOK`, `OneOwner` |
| `NoLeakCorrect`, `RequestAccountingCorrect`, `QueueCountExactCorrect` | `NoLeak`, `RequestAccounting`, `QueueCountExact` |
| `FateInvariant`, `QueueIsDurableCorrect`, `NoReworkCorrect` | `FateInv`, `QueueIsDurable`, `NoRework` |
| `Refinement`, `AckedNotLostCorrect`, `KeyNamesUnfinishedCorrect` | `ImplementsWorkQueue`, `AckedNotLost`, `KeyNamesUnfinished` |
| `NoOrphanCorrect`, `ProcessedWithinReceivedCorrect` | `NoOrphan`, `ProcessedWithinReceived` |

Neither `TypeOK` nor `OneOwner` is inductive.  That `Append(list, mem[slot[h]])`
is a sequence of transactions needs that the object still holds what `Parse`
wrote, which needs that nobody else owned it in between.  That `GiveBack` pools
an object that nobody has needs that the queue held it once.  `IInv` therefore
says for each actor what it may assume of its object:

* `HandlerInv`: own, allocated, unpooled, distinct objects with the id of the
  request; only a serving process has busy handlers;
* `QueueInv`, `WorkerInv`, `MainInv`: the same for the queue, the worker thread
  and the loading main thread, each disjoint from those before it;
* `ListInv`: an id is listed at most once and only after it was stored, and
  requests have different ids.  Without it nothing is known of what LREM leaves.

On these rest, each with an invariant of its own: `LeakInv` (an object that is out of the
pool is in use), the sums of the counters (`CountInv`), `FateInv` (a queued
transaction is listed and is no other's; what is left to load has no job yet; what is
finished or interrupted is nowhere), `AckInv`, `OrphanInv`, and `PendInv`, which finds a
transaction of its own for each that was received and not processed.  The refinement maps
each step to a step of `WorkQueue` or to none, from `FateInv`.  `SeqLemmas` has what is
needed of sequences, from the library's facts about Append, Tail and SubSeq.

### WorkerControl

For any handlers, requests and bounds, from the assumptions that the bounds are
numbers, the clock's at least 1, that `Requests` are of the four kinds and `Nil` is
not a state:

* `ControlTypeCorrect`: `Spec => []TypeOK`;
* `RestartHealsAlways`: `Spec => []RestartHeals`;
* `PersistedRequestAlwaysHolds`: `Spec => []PersistedRequestHolds`;
* `CachedTimesAlwaysMatch`: `Spec => []CachedTimesMatchState`;
* `ControlInvariant`: `Spec => []IInv`, on which they rest.

`RestartHeals` speaks of the end of `service_init` only; `StartInv` says what each step
before it has made sure of (that the state in memory is zero, then that it is what
Redis has, then that the worker does what it says).  `LastInv` says that Redis has the
last request, also while the process is down; `SerialInv` that in a process whose
requests have not overlapped the worker does it, or what the one request that is
under way has made of it.  `TimesInv` adds that no time is in the future, without
which a new time need not be the latest.

### ServiceControl

* `PipelineImplemented`: `SSpec => Spec`, so that all that is proved of `TransPipeline`
  holds here; `PromisesKept` lists the most important of it;
* `ControlKept`: the invariant of `WorkerControl`, instantiated, is kept by every step of
  the whole, although the process may end here by a job without a transaction;
* `RestartHealsHere`: `RestartHeals` and `PersistedRequestHolds` in the whole;
* `StoppedListGrowsAlways`: `SSpec => StoppedListGrows`.  A stopped worker takes nothing
  by `ControlKept` (`SerialInv`), and no other step shortens the list.

### Counters

For any finite set of handlers, any width of a `size_t` and any bounds, `Admin` being
of the three kinds:

* `CountersTypeCorrect`: `Spec => []TypeOK`;
* `CountersNeverInvent`: `Spec => []NeverMoreThanHappened`;
* `CountersAlwaysExact`: `Spec => []CountersExact`;
* `QueueCountAlwaysModular`: `Spec => []QueueCountModular`;
* `CountersInvariant`: `Spec => []IInv`, on which they rest.

That a store adds one to the counter needs that the loaded value is still the
counter's: `LockInv` says that who is between load and unlock holds the mutex,
`RegInv` that then the value is right, and of the worker's, which no mutex protects,
that it is at most what has happened and right unless a reset has come in between.  That
the list is never asked for more than it has (`TypeOK`) needs `ListedInv`: it is at
least as long as jobs, what is left to load and the handlers between list and queue
(a cardinality) together.  `QueueCountModular` follows with three facts about
remainders, for which the solver needs the quotient spelled out.

`ReportsAlwaysAddUp`: `Spec => []ReportAddsUp` has an invariant on top of these.  As long
as nothing was reset or written by an init, Redis has what memory has but for the
increment that is to be written (`SyncInv`), and the counters in Redis leave room for all
the handlers that have counted one and not yet the other (`RoomInv`).

### TimeStats

`TimeStatsInvariant`, `TypeCorrect`, `WithinMeasuredCorrect`, `CoherentCorrect` and
`SurvivesRestartCorrect`: `IInv`, `TypeOK`, `WithinMeasured`, `Coherent`,
`SurvivesRestart`, for any durations, any precision of the printing and any number of
restarts.  `WorkInv` and `ClaimInv` say of every place that a value may be in on its way
(memory, register, MGET reply, copy of an init, Redis) that it claims no more than
was measured, with half a unit for each time that it was printed; `WholeInv` that the
fields belong together when nobody is in the middle; `SurviveInv` that nothing is
missing when nothing has meddled.

### Documents

`ContentInvariant`, `TypeCorrect`, `NoForeignDataCorrect`, `RemovedStaysRemovedCorrect`,
`ResultOfTransactionCorrect`, `WorkSurvivesUpdatesCorrect` and `Refinement`: `IInv`,
`TypeOK`, the four invariants and `ImplementsDocumentStore`.  `OwnInv` says who has which
object; `PostInv`, `WriteInv` and `JobInv` whose data a handler or the worker sees in
it; `DocInv` what a document has.  None of them says that a write has succeeded: a
document has the worker time of a transaction that is `stamped` and the result of one
that is `done`, and whether it is either is up to Mongo.  The refinement needs that a
PUT which nobody has overlapped still has the fields that are in the document
(`WriteInv`).

### Lifecycle

`LifecycleInvariant`, `TypeCorrect`, `WorkerHasWhatItUsesCorrect`, `ServesReadyCorrect`
and `ReleasedOnceCorrect`: `IInv`, `TypeOK` and the three invariants.  `SignalInv` says
which threads of control a signal can have interrupted, `AcquiredInv` and `ReleaseInv`
what main has acquired, and the one teardown released, at each of its points, `WorkerInv`
and `PoolInv` what is there as long as the worker is.  The steps of the threads
that share `service_data` change none of this (`ThreadsKeepControl`).

### Only model-checked

Liveness (`AckedProcessed`, `EndsWhenTold`): the prover has no rule for fairness.  The
violations are counterexamples that TLC finds, and need no proof.

## What is not modelled

* Registration of routes, wording of responses, configuration, version and logging:
  no state that changes.  Of the JSON reports only that of the counters is
  modelled (`Counters!Report`): the others copy what one mutex protects.
* cerver, cmongo and credis are not part of the repository.  Their calls are
  modelled from how the service uses them; Redis commands do not fail (their
  results are ignored throughout, and every start needs them).
* `CONNECT_TO_REDIS` false: then nothing is restored and there is nothing to check.
* The collision of two ids of `bson_oid_init`.
* Overlap of two processes of the service on one Redis.
* `service_data_end`, `service_state_end` and `service_trans_end`, which have no
  caller, and what happens inside `worker_end` with jobs that wait: the process
  exits after it, and the list in Redis is not touched.

## Plan

1. `Counters` and `TimeStats` composed with the worker's control, as `ServiceControl` does
   for the pipeline, so that `stopped` of `TimeStats` is what Redis says and not any
   choice, and the theorems carried over as `PipelineImplemented` carries them.
2. A lower bound beside `WithinMeasured`, which says how much a torn copy of `data/init` may
   be short of what was measured.
