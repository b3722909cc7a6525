# Formal models of candi

candi is a Go framework for services: it starts a set of servers and workers
(HTTP, gRPC, GraphQL, a cron worker, consumers of Kafka, RabbitMQ, Redis and
Postgres events, and a task queue worker with a dashboard) and routes what they
receive to handlers. This directory holds TLA+ models of the parts with
concurrency, shared state and recovery, the TLC runs that check them on small
instances, and TLAPS proofs for every size.

    tlc -workers 2 -config TQWRecovery.cfg MCTaskQueueWorker     one run
    tlapm TaskQueueWorkerProofs.tla                              one proof module

PROJECT.json lists the components, the runs, the source lines behind every
definition, the known hazards and the theorems.

## 1. Inventory

| part | state | operations | interacts with | hard because |
|---|---|---|---|---|
| task queue worker engine (`codebase/app/task_queue_worker`) | per task: semaphore, ticker, cancel function; per goroutine: the job it carries | `Serve`, `triggerTask`, `execJob`, `registerNextJob`, `registerJobToWorker`, `prepare`, `Shutdown` | store, queue, locker, dashboard | every tick starts a goroutine; status, summary, queue and lock change in separate steps; several runtimes share three of them; crash recovery |
| its API and dashboard | none of its own | `AddJob`, `RetryJob`, `StopJob`, `DeleteJob`, `StopAllJob`, `RetryAllJob`, `CleanJob`, `HoldJobTask`, `RunQueuedJob`, `RecalculateSummary`, `RestoreFromSecondary` | the same store, queue, locker and tickers | run concurrently with `execJob` on state read before |
| its persistent store (SQL, Mongo, noop) and summary | job table, summary row, a secondary store | find, count, save, update, clean, delete, increment | engine, retention task | counters kept by increments, not in the transaction of the update; the implementations differ in filters, upserts and NULLs |
| its job queue (in memory, Redis) | one list of ids per task | `PushJob`, `PopJob`, `NextJob`, `Clear` | ring queue or Redis | duplicates, check-then-act |
| its dashboard subscribers | client channels | register, remove, broadcast, clear, kill | websocket transport | limit checked before insertion, unbuffered sends |
| GraphQL websocket transport | operations by id, outgoing channel | `readLoop`, `writeLoop` | GraphQL service | connection closed under a sender |
| ring queue (`candishared/queue.go`) | buffer, head, tail, count | `Push`, `Pop`, `Peek`, `resize` | in-memory job queue | wrap-around with resize, masks |
| distributed locker (`candiutils/locker.go`) | a counter per key in Redis | `IsLocked`, `HasBeenLocked`, `Unlock`, `Reset`, `Lock` | all workers | the owner is not recorded, timeouts, missed events |
| cron worker | ticker per job, semaphores | `Serve`, `processJob`, `Shutdown` | locker | overlapping instances, shutdown |
| Redis, Postgres, RabbitMQ, Kafka workers and brokers | semaphores, wait group, context | `Serve`, `processMessage`, `Shutdown`, `PublishMessage` | external brokers, locker | shutdown against arriving messages, acknowledgement, rebalance |
| application lifecycle (`codebase/app/app.go`) | quit signal, done channel | `Run`, `Shutdown` | every worker and server | deadline, second signal |
| REST server middlewares, HTTP cache | pools of buffers, Redis cache | `Tracer`, `HTTPCache`, `Get`, `Set`, `Delete` | handlers | buffers shared by concurrent requests, panics |
| code generator (`cmd/candi`) | the files of a project, candi.json | init, add module, add handler, add use case, apply use case | developers' files | text edits that depend on what earlier commands left |
| worker pool, cron parser | small | | | |
| tracing, logging, configuration, validation, mocks | output, start-up wiring, text | | | nothing to interleave |

What makes the core correct: a job that was accepted is run until it succeeds,
fails or is stopped; it is run by one goroutine at a time; it is not run again
after success; attempts stay within `MaxRetry`; the summary agrees with the job
table when nothing is under way; a crash at any point loses nothing; flags and
locks raised by one step are lowered by another. Around it: a message or an
event reaches one handler, and none is skipped; a process that is told to stop
ends, and says so truthfully; a view of the dashboard gets every broadcast and
lets go when its connection is closed; a request sees its own bytes; it does not
matter which store is behind the engine; and a generated project compiles.

## 2. Modules

    TaskQueueWorker <-- MCTaskQueueWorker                  TaskQueueWorkerProofs
    CronWorker <-- MCCronWorker                            CronWorkerProofs
    RedisWorker <-- MCRedisWorker                          RedisWorkerProofs
    RabbitMQWorker <-- MCRabbitMQWorker                    RabbitMQWorkerProofs
    ServiceProcess <-- PostgresWorker, KafkaWorker
                   <-- Application <-- MCApplication       ApplicationProofs
    Subscriptions <-- MCSubscriptions                      SubscriptionsProofs
    FifoQueue <-- RingQueue     -\
    RedisLocker                  |                         LibraryProofs
    RestServer                   +-- MCLibraries           (these four)
    Templates <-- Generator      |
    JobStores                   -/                         JobStoresProofs
    RestServer <-- MCRestServer

`MCLibraries` puts five modules that share no state side by side: in a behaviour
one of them, chosen at the start (`focus`), takes all the steps, so that the run
checks each of them by itself.

The workers see the lock of `RedisLocker` as a flag per key: they call only
`IsLocked`, `HasBeenLocked`, `Unlock` and `Reset`, which look at whether the
counter is above zero.

**RingQueue** models `candishared.Queue`: the buffer with its length, the two
indices and the count. `Push` and `Pop` are split by whether they resize. The
bitwise modulus is the constant operator `BitAnd`; TLC gets Go's `&`, the
proofs only the assumption that it is a modulus on the lengths the buffer can
have, which is what the comment on `minQueueLen` asks for. **FifoQueue** is the
abstract queue that `RingQueue` implements under the mapping `Contents`. (The
comments on `Pop` and `Peek` say that they panic on an empty queue; they return
an error, and so does the model.)

**TaskQueueWorker** models one task of the task queue worker:

| variable | code |
|---|---|
| `status`, `retries` | the job table, columns `status` and `retries` |
| `total`, `hold`, `loading` | the summary row: the six counters, `is_hold`, `is_loading` |
| `queue` | the queue of the task, shared by the runtimes (Redis) or private (one runtime) |
| `locked` | the lock key of the task exists, that is its counter is above zero |
| `sem`, `armed`, `tick`, `cancel` | `semaphore[workerIndex-1]`, `Task.activeInterval`, its channel, `Task.cancel` |
| `done` | the context of a run is cancelled |
| `pc`, `loc` | where each goroutine is and its local variables |

A goroutine takes one step per call that touches state another goroutine can
reach, in the order of the code: `triggerTask` is `TriggerStop`, `TriggerHold`,
`TriggerAcquire`, then `RunBegin`, `RunLock`, `execJob` (`ExecPop` to
`ExecFinish`) and the deferred calls `RunUnlock`, `RunRelease`, `RunCancel`,
which is followed by `registerNextJob` (`NextPeek` to `RegisterJobToWorker`).
The API calls start with the action of their name and go on step by step.
`prepare` is the `Prepare...` actions. `IncrementSummary` is one step of every
goroutine that changed a status. `Crash` ends every goroutine of a runtime and
starts it again: the store, the queue and the lock stay. Mutated variants of
actions ("Mutant:") show that the properties can fail.

The constant `SQL` says which store it is. In `MongoPersistent` `UpdateJob` and
`DeleteJob` are one command each. In `SQLPersistent` they are two statements without
a transaction, and two steps: `UpdateJob` is `CountMatched` and then the update
(`matchedCount` comes from the first, what is changed from the second), `DeleteJob`
is `DeleteSelect` and then `DeleteRow` (the counter it lowers is that of the status
it selected). The `DeleteJob` at the end of a run that succeeded
(`trigger_task.go:240`) ignores the job it selects, so that only its DELETE matters,
and is one step.

Abstractions. The calls of the store do not fail; the six counts of `prepare` are
one step. `Ticker.Stop` leaves a tick that is already in the channel there, as it
did before Go 1.23; with the `go 1.25.3` of `go.mod` no tick is left, so the model
allows more than the code (here and in `CronWorker`).
`StreamAllJob` reads one page (ten jobs, or a hundred in `prepare`). Time is
gone: a started ticker may fire at any moment, so the intervals and schedules
do not matter as long as they are positive. Arguments, results, histories,
traces and broadcasts are left out. The counter of a cron job without limit is
not followed past 1. Goroutine slots (`Worker`, `Client`) bound how many
goroutines of a kind live at the same time; a slot is used again when its
goroutine ends.

**CronWorker** models the cron worker in every runtime of a service:

| variable | code |
|---|---|
| `keys` | the lock keys of the jobs in Redis, shared by the runtimes |
| `serve`, `shutdown` | where the goroutines that start and serve, and that shut down, the worker are |
| `todo` | what is left of the loop of `Reset` or `stopAllJob` |
| `armed`, `tick`, `renew` | `Job.ticker`, its channel, and `Job.schedule` or `Job.nextDuration` |
| `cancelled` | `ctxCancelFunc` was called |
| `pc`, `job` | the goroutine of each run; the semaphores and the wait group follow from them |

`Start`, `ResetKey` and `StartJobs` are `NewWorker`; `ServeRun`, `ServeSkip` and
`ServeShutdown` the cases of the select of `Serve` (a tick includes
`registerNextInterval`); `RunBegin` to `RunRelease` a run with its deferred
calls; `Shutdown` to `ShutdownReturn` the steps of `Shutdown`. `Reset` reads the
keys and deletes them one by one, so it may delete a key made in between. The
history variable `intruded` records that it deleted the key of a run that was
going on, which the code allows.

**RedisLocker** models the Redis lock on one key: `Lock` with the goroutine that
listens for the `del` event, `IsLocked`, `IsLockedTTL`, `Unlock`, `Reset` and the
expiry of the key. A step is one Redis command or a meeting on the wait channel.
`events` counts the deletions a subscription has not delivered. Two history
variables say when the code promises nothing: `stolen` (the key was deleted
while another call had the lock: `Reset`, expiry, or the `Unlock` of a `Lock`
that timed out) and `late` (the key was gone before the subscription, or expired,
which is another event than `del`). Redis commands do not fail.

**RedisWorker** models delayed messages over Redis, publisher and subscriber, for
one topic:

| variable | code |
|---|---|
| `pub`, `key` | where a call of `PublishMessage` is, and its key |
| `timer`, `expiring` | the keys that name an event exist, and have an expiry |
| `hash` | the hash `dynamic_scheduling`: the body under each key |
| `del`, `delKey`, `delTodo` | `deleteMessage` |
| `locks` | the lock keys `redis-worker-lock` of the events |
| `serve`, `inbox`, `current` | `Serve`, its subscription and the event it has |
| `shutdown`, `todo` | `Shutdown`, and the keys that `Reset` has left |
| `pc`, `event`, `body` | the goroutine of each event; semaphore and wait group follow from them |

`PublishMessage` is SET, EXPIRE, HSET; a run is `IsLocked`, HGET, HDEL, the handler
and the deferred `Unlock`. History variables: `early` (the key expired before the
body was stored, which finds no body), `handled`, `doomed` and `dropped` (published
before a deletion that is going on, or over) and `intruded` (as in `CronWorker`).
Two messages with one key share the body; the properties about a message are
stated for keys of its own where they need it. A handler that starts after the
wait of `Shutdown` has ended is a behaviour of the model, as it is of the code,
and so is the event that a lost connection drops. A runtime does not die in this
model yet: a crash inside a run would leave its lock to the next `Reset`.

**RabbitMQWorker** models the consumer, and the broker as far as the code relies on
it:

| variable | code |
|---|---|
| `published`, `ready`, `declared` | the messages routed to a queue, those that wait there, and that the durable queues exist |
| `unacked`, `inbox`, `open` | deliveries without an answer, those not yet received by the select, and the channel |
| `serve`, `current`, `sem` | `Serve`, the message it has, and the semaphore of each queue |
| `token`, `isShutdown`, `shutdown`, `cancelled` | the shutdown channel, the flag, `Shutdown` and its context |
| `pc`, `msg` | the goroutine of each message |

The steps of `Serve` are its tests and blocking calls, so that `Shutdown` may fall
between the test of `isShutdown` and `wg.Add`. The flag is read and written without
synchronisation; between the channel operations around it the read sees the value
before or after the write, which is what the steps allow. `Ack` on a closed
channel does nothing. `CloseChannel` puts back what was not acknowledged (`Shutdown`,
a crash, a lost connection); after a lost connection nothing opens the channel
again and `Serve` goes round on the closed deliveries. `handled` is a history
variable.

**Application** composes a service from the modules it extends. `ServiceProcess`
has the processes and how each ended; `PostgresWorker` and `KafkaWorker` are two
workers in every process; `Application` is `Run`, `App.Shutdown` and `shutdown`
with its deadline, and an HTTP or gRPC server as the lifecycle sees it.

| variable | code |
|---|---|
| `exit` | how the process ended: success, forced by a second signal, timeout, panic, fatal, crash, killed |
| `apps`, `app` | the applications in the order of `NewAppFromEnvironmentConfig`; `Run` and `shutdown` |
| `server`, `caller` | listener and open requests; the goroutine that calls `App.Shutdown` |
| `pgRow`, `pgEvents`, `pgInbox` | the row, the notifications, and what waits in the `Notify` channel |
| `pgLocks`, `pg`, `pgRun` | the lock keys, `Serve` and `Shutdown`, the goroutines of `execEvent` (`lost`: history, its key was deleted under it) |
| `kLog`, `kCommitted`, `kOwner` | the partition, the offset of the group, who owns it (brokers, external) |
| `kafka` | `Serve`, the ready channel, the session, the claim and its marks |

The applications are stopped one after the other in the order of registration.
A handler of a postgres event may lose its key in two ways: `Reset` deletes it (a
process that starts or stops), or a run of the same event that had itself lost its
key ends, and its deferred `Unlock` deletes the key of the run that came after it. So
one `Reset` is enough for a chain of handlers that overlap; the second link needs a
third goroutine of the event, which the two processes of the run do not have and the
proof of `OneHandlerPerEvent` does. `lost` records both ways.
An event of a table that has a trigger and no handler blocks `Serve` of the
postgres listener on a nil channel and then `Shutdown` too; only the timeout ends
such a process. `Shutdown` of the Kafka worker before its `Serve` ran calls a nil
function: that is the `crash`. (The comment at `app.go:106` says that a shutdown
which exceeds its timeout panics; the code leaves with `os.Exit(0)`, and so does
the model, as `timeout`.)

**Subscriptions** models the live views of the dashboard from the websocket to the
registry of subscribers: `readLoop` with its `opDone` map, the reader that forwards
the output channel of an operation, the listener goroutine of the resolver, the
three maps of the registry, the broadcasts over them, and the administrator's
`ClearAllClientSubscriber` and `KillClientSubscriber`. A channel has no buffer: a
write meets the reader, or panics on a closed channel and is recovered. The
registry is keyed by the connection, so two views of one kind on a connection
share an entry; `LoneViewServed` is stated for a view that shares it with none,
and says nothing about what views with one key do to each other (hazard list). The
maps are read and written in one step each. Broadcasts iterate over them without the
mutex, and Go may end the process when such an iteration meets a write; that fatal
error is not modelled.

**RestServer** models concurrent requests through `Tracer` and `HTTPCache`. A
buffer holds the tag of who wrote into its array last; `Put` gives the array back
without clearing it, and `Get` may return any buffer that nobody has. The cache is
a map of keys with or without a TTL (SET and EXPIRE are two commands, each of which
may fail). A handler reads its body and answers in either order, or panics. A hit
is answered with the cached headers and the status 200, whatever success status
the handler had given. A write reaches the client whole or `cut`: the connection
breaks, or the status allows no body. `WrapHTTPResponseWriter.Write` keeps all of the
body in its buffers either way and adds only what was sent to `contentLength`, so
`Tracer` may log a body the client never got, and `HTTPCache` may store it.
`LoggedIsAnswered` says what is left: the log has the answer to this very request,
and what the client has is that answer, or the part of it before the cut. A handler
writes once in the model; several writes, or none, are not modelled.

**JobStores** applies every store operation of the engine to the SQL store, the
Mongo store, and the Mongo store with the in-memory summary, with the same
arguments, one operation at a time. What the three do differently is in the
operators of the store calls: the empty filter (an error in SQL, all jobs in
Mongo), `SaveJob` of a job with an id (UPDATE against upsert), the row that
`UpdateSummary` inserts with NULLs, the in-memory `UpdateSummary` that writes any
boolean (`is_hold` too) into `IsLoading` and knows no counter for HOLD, and a
summary that has no name until `FindAllSummary` was called. The differences that
show are exceptions of the properties, each named in its comment:
`RestoreFromSecondary` on SQL updates a row that is not there, so the job is lost,
and it also removes from the secondary the jobs whose `SaveJob` failed; equal keys
of an increment map make counters drift; HOLD jobs of a secondary store are never
restored (its filter is QUEUEING). The map of an `UpdateSummary` is given in two
parts, its counters and its other columns; an operation says for one store what
becomes of it (`Added`, `Deleted`, `Shifted`, `Flipped`, `Retained`, `RestoredStore`,
`PreparedJobs` and `PreparedRow`), and the action applies it to all three.

**Templates** and **Generator** model `cmd/candi`. A template is the set of facts
that decide whether Go compiles its output: what a line imports, uses and defines,
and under which choices the line is there or commented out. A command writes files
from templates and edits others by text replacement, which is skipped when its
marker is there already and lost when its anchor is not. `BuildsExactly` is an
equivalence: the project compiles except in five listed cases, and in those it
does not: a stack whose templates do not compile (no database, Arango, SQL with
Mongo, SQLite migration), a Redis subscriber without Redis, a module added under a
name with dashes, a module without workers in a service with a plugin, and a use
case whose function exists already or is a prefix of one that does.

## 3. Runs

| run | instance | checks | result |
|---|---|---|---|
| `recovery` | 1 runtime, 1 trigger, 1 client, 2 jobs, 1 dashboard call, 1 crash | `SummaryExact`, `NoJobStranded`, `LockReleased` | pass, 501 434 states (Mongo) |
| `progress` | 1 runtime, 1 trigger, 2 clients, a job and a cron job, jobs deleted after success, 1 crash, fair | `EveryJobFinishes`, `CronKeepsRunning`, `NothingPending`, `SummaryExact` | pass, 294 470 states (SQL) |
| `dashboard` | 1 runtime, 2 triggers, 1 client, 1 job without retries, any one call | `SuccessIsFinal` | pass, 1 082 178 states (SQL) |
| `cron` | 2 runtimes with one run slot each, 1 job with a start time, 1 crash, fair | `OneHandlerPerJob`, `NoOrphanKey`, `ShutdownDrains`, `JobKeepsRunning`, `ShutdownReturns` | pass, 82 963 states |
| `redis` | 2 runtimes with one slot each, 1 message, 1 deletion, 1 lost connection, fair | `HandledOnce`, `NoOrphanLock`, `EventHandled` | pass, 649 380 states |
| `rabbitmq` | 2 runtimes, 2 messages of one queue, prefetch 2, 2 stops, fair | `NoMessageLost`, `MessageHandled` | pass, 287 586 states |
| `application` | 1 or 2 processes, seven deployments, 2 signals, 2 events, 2 messages, 2 troubles, fair | `OneHandlerPerEvent`, `DetailNotOlder`, `OneStraggler`, `NoMessageSkipped`, `SuccessIsClean`, `CrashOnlyBeforeServe`, `SignalEnds` | pass, 346 465 states |
| `subscriptions` | 2 operations on one or two connections, 1 administrator call, limit 1, fair | `SubscriberLimit`, `NoClosedChannel`, `LoneViewServed`, `ClosedIsReleased` | pass, 403 507 states |
| `libraries` | see below | `ImplementsFifo`; `OneHolder`, `NoLostWakeup`, `LockReturns`; `BuildsExactly`, `AskedIsServed`; `LoggedIsAnswered`, `CachedIsProduced`; `StoresAgree`, `CountersExact`, `AcceptedIsStored` | pass, 781 291 states |
| `spurious_cancel` | 1 runtime, 2 triggers, 1 client, 2 jobs | `NoJobStranded` | violated |
| `two_runtimes` | 2 runtimes with one trigger each, 1 job | `OneRunPerTask` | violated |
| `request_body` | 2 requests with short bodies | `BodyIntact` | violated |

Bounds. In `libraries` seven elements take a ring of two slots through both doublings and
back through both halvings, with every offset of head. Two jobs are what the
interleavings need: one in the hands of a goroutine and one in the queue; the
first may be retried once, the second never, so both ends of the retry limit
occur. One crash can fall between any two steps, `prepare` included. In `cron`
the job of the instance is renewed once, so both branches of
`registerNextInterval` occur; one slot per runtime makes the semaphore full. For
the locker, two waiters can hear of the same deletion while a third caller is
faster than both, and the key may have an expiry or not. Three generator commands
take a service from its creation through an extension to a command that meets what
the second one left; the stacks and menus have one representative of every
condition in the templates. Two requests and two buffers are enough for one request
to be given what another still uses; one of the two cache keys may hold a foreign
value at the start. Six store operations on two jobs of one task,
with a second task that is registered or not, take a
job through several changes of status, a restart and the secondary store (seven and
eight operations pass too). In `redis` one message
is what both runtimes compete for; messages that share a key are left to the
proofs. In `rabbitmq` the prefetch is the one of `NewRabbitMQBroker`, so that one
message waits behind the semaphore while the other runs, and a stop is a
shutdown, a crash or a lost connection, in one runtime or both; the second slot
of a runtime is free for a run that the semaphore should have held back. In
`application` the deployments have a worker in one process or two, a worker with a
server, the servers, and no application at all; two processes compete for an event
or a partition, and the bounds on events, messages and troubles are divided by the
number of processes. In `subscriptions` two operations either share a connection
and a kind, share a connection, or have nothing in common but the limit. `dashboard`
is symmetric in its two trigger goroutines, which are interchangeable in every
definition and in its property, which is not a liveness property. It is the one with
two of them, without a crash and with a single job, because the products grow too
large. Deadlock checking is off in the runs of the task queue worker and in
`libraries` (when the bounds on jobs, calls, requests and commands are used up the
system rests), in `cron` and `application` (they end when every process has
stopped), in `redis` and `rabbitmq` (they rest when no message is left) and in
`subscriptions` (every client has left).

Which calls a run allows matters. `progress` makes none but `AddJob`: `NothingPending`
does not hold with any call on all jobs, nor with `StopJob` or `RunQueuedJob`, nor with
a second trigger or runtime, nor with early calls (section 4 says why). The code starts
a `triggerTask` goroutine for every tick, so the second trigger is real: what
`progress` shows holds as long as runs of the task do not overlap at their ends, and the
case where they do is in the hazard list. `recovery` has the Mongo store and uses the calls that leave a running
job alone and move every job by the status it has (delete, hold, retry all,
clean, run queued job). With `StopJob` and `StopAllJob`, `NoJobStranded` does
not hold: a run that is cancelled leaves the status to the caller, who writes
it only if the row still has the status read before. With `RetryJob` on a
queued job, `StopJob` on a stopped one, or `RecalculateSummary` between an
update and its increment, `SummaryExact` does not hold.

On SQL the same is true of two calls more, which is why `recovery` does not have that
store. `DeleteJob` selects a job that is QUEUEING; a run marks it RETRYING, one less
QUEUEING and one more RETRYING; `DeleteJob` deletes it and lowers QUEUEING again; the
run finds no row when it ends and counts nothing. Both counters are wrong until they are
counted anew. `RetryAllJob` counts jobs of a status which another goroutine has
changed before its UPDATE. TLC finds both with `SQL = TRUE`; with
`CleanJob` and `RunQueuedJob` on two jobs (254 275 states), and in `progress`,
`SummaryExact` holds on SQL too. The clients of these
runs wait for `prepare` of their runtime (`EarlyCalls = FALSE`): a job added
while `prepare` is loading may be saved and never pushed (hazard list).

What the violated runs show:

* `spurious_cancel`: run A gives the semaphore back and is delayed before
  `task.cancel()`; run B starts, stores its own cancel function in the same
  field and begins its handler; A's call cancels B. B's job keeps the status
  RETRYING, its handler's result is dropped, and no step of the engine takes
  the job up again before a restart. B can only start this early because a
  goroutine of an earlier tick was waiting or a new job armed the ticker.
* `two_runtimes`: the first runtime runs a job under the lock; the second one
  starts, its `prepare` deletes all lock keys, finds the job RETRYING, sets it
  to QUEUEING, pushes and runs it. The handler runs in both.
* `request_body`: `Tracer` puts the buffer with the body back into its pool before
  the handler has read it. The buffer is next given out for the response of the same
  request, or to another request, and what is written there is what the handler
  reads: a handler that writes before it reads sees its own answer.

Fairness (`FairSpec`, used by `progress`): weak fairness of each goroutine's
steps (the Go scheduler), of the ticker once it is started, and of the handler
(a step of the goroutine: handlers are assumed to return). Weak is enough: a
goroutine blocked on the semaphore is the only one in its run's queue in that
instance. Clients and crashes are not fair; a crash may fall between any two steps,
and the fair steps of `prepare` come after it.

In `cron` the select of `Serve` chooses at random among the ready channels, so
the shutdown channel and each ticker are strongly fair; the run, the start and
the steps of `Shutdown` are weakly fair, whether `Shutdown` is called at all is
not. For the locker only the calls of `Lock` are fair (`LockCalls`), and weak fairness of
the timeout says that time passes; a holder need not ever unlock.

In `redis` and `rabbitmq` the steps of `Serve`, of each run and of a `Shutdown`
that was called are weakly fair, handlers return; the RabbitMQ broker delivers
what is ready to an open channel, and a supervisor starts a process that crashed.
Publishing, expiry, deletion, shutdowns and failures are not fair.

In `application` a process that can take a step by itself takes one (goroutines are
scheduled, the shutdown timer runs, handlers return); signals, requests and brokers
are not fair. In `subscriptions` the goroutines of an operation and the broadcasts
are weakly fair; clients, the age ticker and the administrator are not.
`ClosedIsReleased` allows one way out: a listener whose age ticker, or a clear,
wins against the end of the operation writes to a reader that is gone and waits for
ever, together with who broadcasts to it.

## 4. Proofs

Each module proves its invariant inductive (initial states, one lemma per action or
group of actions, stuttering) and then the properties from it.

**LibraryProofs**, about four of the modules that `libraries` checks.

The ring queue, for every set of elements, smallest length, bound and family of
capacities closed under doubling and halving:

* `RingInvariant`: `RingTypeOK`, `WindowInv` and `CapacityInv` together are
  inductive. `WindowInv` alone is not: the shrink test is an equality and the
  copy of `resize` relies on `CapacityInv` to know that a buffer that shrinks
  is exactly a quarter full. The lemma on `resize` (`ResizedKeepsWindow`)
  covers the straight and the wrapped copy.
* `RingImplementsFifo`: every step is a step of `FifoQueue` under `Contents`.

The distributed lock, from `LockerAssumption`, for any calls and resets:

* `LockerTypes`; `LockExcludes` by `HolderInv` (a holder has the key unless it was
  stolen); `LockWakes` by `WakeupInv` (a waiting call has a listener).

The REST server, from `ProfileAssumption` and `NoneAssumption` (the absence of a
buffer is no buffer and no content), for any requests, URLs and buffers:

* `LogTellsTheTruth` (`LoggedIsAnswered`, cut writes included) and `CacheTellsTheTruth`
  by `RestInv`: what a request may rely on
  at each of its places (`Sound`: the buffers it has are held, and the array of its
  response buffer has its own bytes from the moment it has answered), what two
  requests never share (`Apart`: a buffer has one holder in each pool), and that the
  cache has only bodies of successful answers for their key (`CacheSound`). The
  request's buffer is missing from `Sound` between its `Put` and the handler's read,
  which is what `request_body` shows.

The code generator, for any module names, use cases, stacks, menus and number of
commands, in the templates as they are:

* `GeneratorServes`: `AskedIsServed` by `GenInv`. The property speaks of four files;
  the invariant adds why the next text edit finds its place: a handler has its file
  exactly when a command that was carried out asked for it (`FilesInv`), `module.go`
  keeps a commented line for every handler that is not mounted (`ModuleInv`), `.env`
  one for every handler that candi.json does not have (`EnvInv`), the root schema has
  no field of a module that is not a GraphQL one (`SchemaInv`), and each module was
  created by one command (`LogInv`). `ApplyHolds` says what an edit does to the lines
  of any file. `InitService`, `AddModule` and `AddHandler` are three instances of one
  step (`Extension`); a use case, applied or new, and an `AddHandler` that ends early
  leave these files as they are (`SameFiles`).
  The hypothesis `DistinctNames` says that the cleaned name of a module is not
  another module's, whose `module.go` the edits would go to, and that no module is
  called like the root schema. The commands do not check it; `MCLibraries` states it
  as an `ASSUME`, so that TLC finds it true of the names it uses, one of which has dashes.

**TaskQueueWorkerProofs**, for any number of goroutines, jobs, calls and crashes,
from `BoundAssumption`, `ProcAssumption` (the kinds of goroutines are disjoint and
each has a home runtime), `BootAssumption` (each runtime has one prepare goroutine,
which `NewTaskQueueWorker` starts) and `FiniteAssumption` (goroutines are finitely
many, so that what they owe has a sum):

* `TypeCorrect`: `TypeOK` is inductive by its last conjunct, which says at which
  labels a goroutine has a job (`HasJob`). One lemma per kind of goroutine, one
  case per action, each split into the shared state and the goroutine's own
  (`Moves`, `Jumps`, `Returns`).
* `OneRun`: `OneRunPerRuntime` (one goroutine of a runtime at a time is between taking
  and giving back the semaphore; `dashboard` shows what it is for) follows from `RunInv`, which adds `SemTaken`
  (inside a run the semaphore of the runtime is taken). Only `TriggerAcquire`
  enters a run and only `RunRelease` and `Crash` end one; every other action
  stays out (`StaysOut`).
* `LockIsReleased`: `LockReleased` by `LockInv` (the key exists only while somebody is
  at a label from which he will delete it whatever he reads), for any runtimes and all
  calls. `RetryJob` and `unlockTask` may delete the key of a run; the invariant says
  nothing about whose key it is, which is why `two_runtimes` does not contradict it.
* `StrandedOnlyByCancel`: `NoJobStranded` by `RescueInv` (a RETRYING job has a run that
  will finish it or a prepare that will put it back), for any runtimes and all calls,
  in every behaviour where no run is in its handler with a cancelled context
  (`HandlerNotCancelled`): that select is the one way to strand a job.
  `StrandedOnlyByOverlap` traces it to the call: a handler is cancelled only when
  `Task.cancel` is called, by `StopJob`, `StopAllJob` or a run that has ended, while a
  run of the runtime is on its way to its handler. In a behaviour without such a call
  (`CancelsNoRun`) no job is stranded, by `CancelInv` (a run in `Cancellable` is not
  cancelled). `spurious_cancel` has such a call, so the hypothesis is needed; the number
  of goroutines and the calls are free.
* `SuccessStays`: `SuccessIsFinal` by `SuccessInv`, in one runtime whose clients wait
  for prepare: while prepare runs it is alone (`BootAlone`); a job in a run, in
  `AddJob` or read by prepare has not succeeded (`NotYetSuccess`); `AddJob` calls have
  different jobs (`FreshJobs`). TLC shows the property violated with a second runtime,
  and with clients that call during prepare: a run and prepare then have the same job.
* `SummaryIsExact`: `SummaryExact` by `SummaryInv`, under the same two hypotheses and
  `OrderlyCalls`. `Balanced` is the heart: each counter plus what all goroutines have
  still to pass to `IncrementSummary` is the number of jobs, unless prepare is
  recounting. The sum over the goroutines (`Net`) is a difference of two cardinalities,
  so that one step changes it by what it changes of one goroutine (`NetChange`).
  `StatusAsRead` adds that a run finds its job RETRYING when it subtracts it there, or
  deleted, when it counts nothing, and `CountedOne` that on SQL a run and prepare have
  counted the one job that they update. `OrderlyCalls` leaves out `RetryJob`, `StopJob`,
  `StopAllJob` and `RecalculateSummary`, and `DeleteJob` only for a task that deletes
  the jobs that succeed; on SQL it leaves `CleanJob` and `RunQueuedJob`. TLC shows
  `SummaryExact` violated with each of the first five, on SQL with `DeleteJob` and with
  `RetryAllJob`, with two runtimes, and with early calls. `HoldJobTask` on SQL is left
  out for want of an argument that covers any number of callers: TLC finds no
  violation with one client.
* `NothingForgotten`: `NothingPending`, the safety core of `EveryJobFinishes`: when
  nothing runs and no ticker will fire, no job is pending. `StrandedOnlyByOverlap` gives that no
  job is RETRYING; for QUEUEING it takes `QueueInv`: every QUEUEING job is in the queue,
  not only at a head that is about to be removed, or somebody carries it to the queue or
  from it (`Tracked`, `Carries`); `registerNextJob` has looked at the job that is still
  the head (`HeadRead`); a run that will set its job back has pushed it (`Requeued`);
  and a queue that is not empty has a ticker, a tick, or a goroutine that will start one
  (`Awake`, `Drives`). The last one is what `AddJob` relies on when it does not register
  its job because another one is ahead of it or a run has the semaphore. Under it lies
  `PlainInv`: prepare is alone until it has registered the first job, the task is
  neither held nor loading, and a semaphore that is taken is taken by a run. Each step
  of a goroutine is shown to forget no job (`Remembers`), and such a step keeps
  `QueueInv` (`RemembersKeeps`). Any number of `triggerTask`
  goroutines may be under way. Two hypotheses are about the behaviour: no call of
  `Task.cancel` meets the next run (`CancelsNoRun`), and while one goroutine is at
  `FindJobByID` or `PopJob` of `registerNextJob` no other is there, takes the head of the queue or
  ends with its job (`PopsUndisturbed`). So a job is forgotten only after one of these two
  overlaps, both of which the code allows; TLC shows `NothingPending` violated when
  either is left out. The others are one runtime, clients that wait for prepare, and no
  calls but `AddJob`, `RetryJob`, `DeleteJob` and `RecalculateSummary` (`FollowedCalls`).
  TLC shows the property violated without any one of them: two goroutines at
  `registerNextJob` at once pop a job that neither has looked at (two runs; a run and
  `RunQueuedJob` or `StopJob`); a job added while prepare of another runtime, an early
  prepare or a call on all jobs is loading is left to a loader that has read the table
  already; `StopAllJob` clears the queue late.

**CronWorkerProofs**, from `CronAssumption`, for any number of runtimes, jobs,
run slots and crashes:

* `CronTypes`: with the conjunct that a slot has a job exactly while it is used.
* `CronExcludes`: `ExclusionInv` adds that a run in its handler has its key, as
  long as no `Reset` has intruded; the key is what the next `IsLocked` sees.
* `CronDrains`: `DrainInv` adds that `Serve` has returned from the moment
  `Shutdown` waits on. Without it a run could start after the wait.
* `CronKeysOwned`: `NoOrphanKey` together with `ServingInv` (a runtime that is
  shutting down has been serving), so that the one `todo` belongs to one `Reset`.

**RedisWorkerProofs**, from `RedisAssumption`, for any runtimes, messages, keys,
slots, deletions and losses:

* `RedisTypes`; `RedisLocksOwned` by `LockInv` (also: a run that holds a lock finds
  it, until a `Reset` intrudes).
* `RedisOnce` adds `BodyInv`: as long as a body is in the hash, or a run that has
  read it is about to delete it, no handler has it.
* `RedisDeleted` by `DeletedInv`: the hash has no body of a message whose
  publication was over when the deletion began.

**RabbitMQWorkerProofs**, from `RabbitMQAssumption`, for any runtimes, messages,
queues, slots, prefetch and stops:

* `RabbitMQTypes`; `RabbitMQKept` by `AckInv` (a run about to acknowledge has ended
  its handler) and the lemma that a closed channel loses nothing.
* `RabbitMQOneRun` by `SemInv`: a run has the semaphore of its queue, and so has
  `Serve` before it starts one, with no run of that queue left. No run checks
  `OneRunPerQueue`; it is about the semaphore, not about the test of `isShutdown`.

**ApplicationProofs**, for any deployments, processes, goroutines, events, messages
and signals, from `ProcessAssumption` (processes are finitely many, and none of the
names the model reserves), `PostgresAssumption` (a goroutine slot belongs to one
process), `KafkaAssumption` and `ApplicationAssumption`. `IInv` is the conjunction of
three parts that only `exit` and the stops of the workers connect:

* `PgInv`: the events exist and carry versions of the past (`EventsExist`), a run past
  the lock has its key alone unless the key was lost (`KeysHeld`), and a listener that
  has stopped selects no more (`ServeStops`). From it `HandlersExclusive`,
  `DetailsFresh` and `ShutdownLeavesOne`.
* `KafkaInv`: below the position of a session every message was handled
  (`OffsetsHandled`), and owner, handler and ready channel belong to a session
  (`SessionsKept`). From it `OffsetNeverSkips` and `CrashOnlyEarly`.
* `AppInv`: the applications before the one whose turn it is are down (`EarlierDown`),
  which is what the last step of `shutdown` needs for `SuccessClean`.

**SubscriptionsProofs**, for any connections, operations, ids and limit, from
`SubscriptionAssumption` (connections and operations are finite sets, and an operation
has a connection and a kind):

* `SubInv`: an entry of the registry is the channel of a listener that will still
  remove it (`EntryLive`), a broadcast and a kill have the channel of an operation
  (`Targets`), a connection starts one operation at a time (`OneAtATime`), and the
  entries together with the registrations that have passed the limit test stay below
  the limit plus the connections (`Room`), which is the count that `SubscriberLimit`
  states for the entries alone. From it `RegistryIsOpen`, `LoneViewStays` and
  `LimitBound`.

**JobStoresProofs**, for any number of jobs and operations, any tasks and any
assignment of the jobs to them, from `StoreAssumption` (NULL is not one of the values
a column may have): `StoresStayAlike`, `CountersStayExact` and `AcceptedStaysStored`
by `StoreInv`. None of the three properties is inductive. What has to be added:

* a job is in the store, in the secondary or in neither (`Placed`); otherwise a restore
  would change the status of a job that the counters know already;
* `is_loading` is never NULL (in `LoadedRow`): every map that may insert a row has it.
  A NULL there ends the `Scan` before `is_hold` is read, and `AddJob` would give a job
  of a task on hold the status QUEUEING in the SQL store and HOLD in the Mongo store;
* the SQL and the Mongo store agree about which rows there are and which tasks are on
  hold, not only about the jobs (`Alike`), and jobs that were not restored are of
  registered tasks;
* a drifted task has all columns but QUEUEING and STOPPED exact (`ExactColumns`): what
  `RecalculateSummary` counts leaves out HOLD, so that column must have been right.

A step changes one job or the table of a task. `JobAction` and `TableAction` say for
either kind what it takes to keep the invariant; the lemmas about numbers of jobs are
`Recount` (between any two tables) and `JobsShift`. The lemmas about filters
(`TaskFilter`, `IdFilter`, `ExcludeFilter`, `RetentionFilter`) show that no operation
ever gives a store an empty filter, the one on which SQL and Mongo differ.

The type invariants, `WindowInv`, `CapacityInv`, `RestInv`, `StoreInv`, `GenInv`
and `DeletedStaysUnread` have no run of their own: the proofs cover them for every
instance. TLC agreed with `StoreInv` on three jobs of two tasks, with `SuccessInv` and
`SummaryInv` on the instance of `recovery`, and with `PlainInv` and `QueueInv` on
instances of up to three jobs and two clients, with the calls of `FollowedCalls` or a crash,
before they were proved.

Only model-checked: everything about liveness (outside TLAPS here), and
`BuildsExactly` of the generator: an equivalence, one direction of which needs a line
that does not compile to be found in each of the five cases, and the other the facts
of every line of every template. `OneRunPerTask` and `BodyIntact` do not hold of the code: their runs
refute them, and no theorem is about them.

## 5. Not modelled, and what comes next

Hazards of the task queue worker that no property covers: two goroutines that register
the next job at once, and the gaps between queue and table in `RetryAllJob`,
`StopAllJob` and `AddJob` (both are entries of the hazard list, with the reason;
`NothingForgotten` bounds them to those overlaps and those calls); two `AddJob` calls that both find no pending cron job
(`job_operation.go:104`); `StopJob` that cancels the job that runs by then
(`job_operation.go:292`); and two of `Shutdown`, which is not modelled: `Serve`
looks at the shutdown channel only after another event (`task_queue_worker.go:183`),
and `registerJobToWorker` sends to a channel of capacity one with the mutex held
(`task_queue_worker.go:285`).

Next:

1. Proofs about the task queue worker: how far the counters can be off after each of
   the calls that `OrderlyCalls` leaves out.
2. `Shutdown` of the task queue worker with `Serve` as a process of its own and the
   refresh channel.
3. Crashes inside a run of the Redis worker; failing connections of the locker.
4. The Redis implementation of the job queue against the queue that the engine uses.

Not modelled. The cron expression parser is sequential code with tests of its own;
its result enters the models as a ticker that fires. Nothing in the repository uses
the worker pool. The noop store keeps nothing, and a job it "saves" has no id and is
never run. The gRPC interceptors, CORS, routing and the GraphQL execution adapt
libraries; authentication and ACL call interfaces of a service. Tracing, logging,
configuration, validation and helpers keep no state that a second actor can reach.
The generator's prompts, its monorepo mode and the runner of services are text and
processes of the shell. The mocks are generated.
