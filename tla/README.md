# bunQ in TLA+

This directory specifies the broker of bunQ (`src/src`, TypeScript) in TLA+. TLC
checks the specifications on small instances, and TLAPS proves theorems about
them for every value of their constants. Paths below are relative to the
repository unless they name a module.

## 1. The system

bunQ is a job queue in one process: an event loop, in-memory queues sharded by
queue name, an SQLite file behind a write buffer, and TCP, HTTP and WebSocket
front ends. A second engine runs the same operations as PostgreSQL transactions.
The core logic is in `application/`, `domain/`, `infrastructure/persistence/`
and `shared/`.

### Inventory

| Component | State it keeps | Operations | What makes it correct |
|---|---|---|---|
| Readers/writer lock (`shared/rwLock.ts`, `lock.ts`) | `readers`, `writer`, `writerWaiting`, two queues of waiters | acquire, time out, release, drain | exclusion, nobody lost or stranded, writers first and FIFO |
| Delivery: pull, ack, fail (`operations/pull*.ts`, `operations/ack/`, `queue-manager/ack.ts`, `delivery.ts`) | priority queue, processing map, index, job object | dequeue, finalize, requeue an aborted pull, claim, release, commit, retry, bury | one place per job, final ends, retry budget |
| Leases and clients (`lockManager.ts`, `lockOperations.ts`, `clientTracking.ts`) | `jobLocks`, `clientJobs` | createLock, renew, release, expire, disconnect | a lease belongs to one delivery; abandoned jobs come back |
| Stall detection (`stallDetection.ts`) | `stalledCandidates` | two-phase sweep, retry, DLQ | every active job is watched, budget shared with expiry |
| Moves (`jobStateTransitions.ts`, `jobMoveOperations.ts`, `jobClaim.ts`) | none of their own | move to wait, move to delayed, change delay, discard | never two owners, slot given back once |
| Limiters and groups (`limiterManager.ts`, `groupLimiterManager.ts`, `groupScheduler.ts`) | counts of active jobs, rate windows, group cursors | tryAcquire, release, set limit | limit honoured, no slot leaked |
| Long-poll waiters (`waiterManager.ts`, `pull.ts`) | waiters, pending bit, live count | wait, notify, cancel | no lost wake-up |
| Unique keys and custom ids (`uniqueKeyManager.ts`, `customId.ts`) | key to job, TTL | reserve, replace, release | at most one live job per key |
| Flows (`dependencyTracker.ts`, `dependencyProcessor.ts`, `dependencyCompletions.ts`, `parentLink.ts`, `flow-options.ts`, `flowFailureRecovery.ts`) | waiting jobs and their reverse index, proofs of completion, failure outbox | register, complete, check, link, detach, fail, replay | a job starts after what it waits for and is not forgotten; a failed child reaches its parent |
| Dead-letter queue (`dlqShard.ts`, `dlqRetry.ts`) | entries per queue | add, retry, expire | an entry is in the DLQ or live, not both |
| Job timeouts (`background/timeouts.ts`) | deadlines | sweep, fail | a timeout does not overtake an outcome |
| Queue control (`queue-manager/control.ts`, `queueControl.ts`) | paused set | pause, drain, obliterate | nothing comes back after obliterate |
| Cron (`scheduler/cronScheduler.ts`, `cron/`) | next runs, overlap marks | tick, recover | a firing is neither lost nor doubled |
| Write buffer and SQLite (`persistence/writeBuffer.ts`, `sqlite/`) | active and flushing buffers, retry count, tables | add, flush, remove, stop, lifecycle writes | disk follows memory; an acknowledged durable job survives a restart; the buffer drains |
| Background and recovery (`application/background/`) | intervals | recover, sweep | memory after restart matches the disk |
| PostgreSQL broker (`persistence/postgres`, `postgres-queue-manager`) | job, queue and broker rows, lease tokens and deadlines | claim, renew, ack, recover, register, shut down | one end per delivery, the limit, fencing between brokers |
| Front ends (`infrastructure/server`) | connections, in-flight commands | dispatch, close | a close releases what the connection held |
| Client SDK (`client/queue`, `worker`, `tcp`) | pools, reconnection, ack batches | process, heartbeat, close | graceful close loses no outcome |
| Workflow engine (`client/workflow`) | executions, steps | run, signal, compensate | a step runs once, compensation in reverse |
| Small primitives (`asyncLock.ts`, `semaphore.ts`, `minHeap.ts`, `priorityQueue.ts`, `temporalManager.ts`) | queues, heaps | acquire, release, insert, pop | order, no lost permit |
| Events, webhooks, telemetry, MCP, CLI, cloud, backup, other SDKs | none that decides a job's fate | report, translate | outside the core |

### How the parts meet

A push puts a job in its shard's priority queue, sets the index and notifies one
long-poll waiter. A pull takes the shard lock, asks the limiter for a slot,
dequeues, and moves the job into the processing map; when it has finished it
creates a lease and registers the job with the connection. Ack, fail and the
moves check the lease, claim the job from the processing map under the
processing lock, and then, under the shard lock, release the slot and move the
index. Three background paths claim jobs the same way: stall detection, lease
expiry, and the release of the jobs of a closed connection. The shard and
processing locks are `RWLock`s; a handler that needs both takes the shard first.

### What is hard

* **Sections.** JavaScript does not preempt, but every `await` of a lock splits
  a handler. An ack is four sections, a fail is three, a pull three. Between
  them any other handler's section may run. This is where the bugs of such a
  program are, and where its tests do not reach: they cannot choose the order.
* **Stale knowledge.** The lease is checked when a request arrives and the job is
  claimed by id later; a stall verdict is taken in a sweep and carried out under
  locks; the queue may have redelivered the job in between.
* **Counters.** A slot is an integer, not a permit: a path that releases twice, or
  never, shows only later, as a limit exceeded or a queue wedged.
* **Retries and timeouts** meet late outcomes; two mechanisms (stalls, expired
  leases) spend one budget.
* **Liveness** depends on intervals, since workers may vanish without a word.

`PROJECT.json` lists each hazard at its line, with the properties that cover it
or why none does yet.

## 2. Modules

| Module | Contents | Code it stands for |
|---|---|---|
| `RWLock` | the lock, one action per handler, `Drain` as its last step | `shared/rwLock.ts`, fairness from `shared/lock.ts` |
| `WriterPriority`, `RWLockRefinement` | what the lock promises: sets of holders and waiters, and the order of the waiting writers; the mapping to it | abstract |
| `RWLockProofs`, `RWLockRefinementProofs` | the theorems about `RWLock`; that it implements `WriterPriority` | |
| `JobDelivery` | pull, ack, fail, moves, leases, stalls, disconnection | the delivery files above |
| `JobDeliveryProofs` | the theorems about `JobDelivery` | |
| `LongPoll` | pullers that try, wait and are woken, on the microtask queue | `waiterManager.ts`, `pull.ts`, `pushLocks.ts` and the sections that notify |
| `LongPollProofs` | the theorems about `LongPoll` | |
| `JobStorage` | the write buffer, the rows of every operation on a job, crashes and recovery | `persistence/writeBuffer.ts`, `persistence/sqlite/`, `background/recovery/` |
| `JobStorageProofs` | the theorems about `JobStorage` | |
| `PostgresLease` | claims, renewals, outcomes and recovery by several brokers over one database; sessions | `persistence/postgres/` |
| `PostgresLeaseProofs` | the theorems about `PostgresLease` | |
| `JobFlows` | jobs that wait for jobs, proofs of completion, failure handlers and their outbox, restarts | `dependencyProcessor.ts`, `dependencyCompletions.ts`, `parentLink.ts`, `flow-options.ts`, `flowFailureRecovery.ts` |
| `JobFlowsPins`, `JobFlowsProofs` | the theorems about `JobFlows`: types and pins, and what rests on them | |
| `MC...` | instances for TLC | |

The modules share no variables. Each looks at the same jobs from one side and leaves the
others to the module that has them: `JobDelivery` has the interleaving of sections in
memory, and nothing on disk; `JobStorage` has one step per operation and everything it
writes; `JobFlows` treats a delivery as `Pull` and an outcome, and a write as being on disk
at once; `PostgresLease` is the other engine, where the database has the state.

Three modules have a variable that is chosen in the initial state and never changes:
`setting` in `JobStorage`, `PostgresLease` and `JobFlows`, `hazards` in `LongPoll`. It holds
the configuration and what may go wrong. One run then covers several combinations, each of
which is small, where everything together would be too large.

### RWLock

`readers`, `writer`, `writerWaiting` and the two queues are the fields of the
class. A queue entry is `[task, settled]`: a waiter that times out is marked
settled and stays where it is, as in the code, until a grant shifts it out.
`promise[t]` is what the caller has in its hands. Each handler ends in `drain()`,
which runs on the state that the handler has made so far; so `Drain` takes that
state as parameters, and has three disjuncts: nothing to do, hand over to the
oldest live writer, admit all live readers. A second `release()` of a guard is
the step `ReleaseAgain`, which changes nothing because of the guard's flag.

`WriterPriority` says the same with no counters, queues, flags or promises: four sets
of tasks and the relation `before` between the waiting writers. Whoever asks or leaves
triggers `Admit`: the writer that nobody precedes enters a free lock; all waiting readers
enter a lock that no writer holds or waits for; or nobody enters, because somebody is
in the way. `RWLockRefinement` maps guards to the sets of holders, unsettled entries to
the waiting tasks and their places in the writer queue to `before` (`Order`); TLC checks
`Abstract!Spec` as a property, and `RWLockRefinementProofs` proves it.

### JobDelivery

The state is that of one queue: `queued`, `processing`, `jobIndex`, the fields of
the job object that decide something (`attempts`, `stallCount`, `startedAt`, and
whether the last heartbeat is too old), the limiter's count `active`, `jobLocks`,
`clientJobs`, and the collections that the sweeps carry from one section to the
next. `req[c]` is the request of a client: which section is next, for which job,
with which token. One action is one section.

* *Atomicity.* A section is the code between two awaits. The modules do not model
  who gets a lock first: any section that is ready may run next. That is more
  than the FIFO lock allows, so what holds here holds there.
* *Turns of the event loop.* No handler of this model awaits anything but locks and
  other handlers, so all of them run to their end within one turn (microtasks).
  Timers, socket closes and the passing of time (`CheckStalledJobs`,
  `CheckExpiredLocks`, `Disconnect`, `HeartbeatAges`, `LeaseAges`) therefore
  require `Quiet`. Calls may arrive in the same turn as other calls: they are
  pipelined on a socket, or made by the same code. During a sweep they arrive only
  from a listener in the process: the hazard `"callback"`.
* *Time.* Too old, expired and due are booleans that turn true at any moment. The
  instant of a delivery is its number, which is enough for the comparisons of
  `startedAt` with `createdAt`, except that two deliveries never share an instant.
* *Tokens.* A token is the pair of the client and the delivery it was made for.
* *Hazards.* The constant `Hazards` turns on aborts, callbacks, moves, stalls,
  expired leases and disconnections, so that each run has the combination that
  its question needs.
* *Abstracted.* Priorities, payloads, results, events, and whether a finished job
  is kept or removed: each is one terminal location.
* *Leases.* `CurrentKeepsLease` lists what may take an unexpired lease from the worker that
  has it: a call without a token that ends (an internal caller's outcome), a move that claims
  the job, and a connection that closes with the job among its own. Late outcomes, the sweeps
  and the end of an aborted pull may not. Whether the connection that closes is the one the
  job was last pulled over is another question, and the answer is no: `ReleasesOwn`, under
  findings.
* *Budgets.* A `MaxStalls` of 0 disables the bound on expired leases, as in
  `lockManager.ts:152`; `StallBudget` then says nothing.
* *Left out.* Batches, unique keys, groups, cron jobs, job timeouts, dependencies,
  pausing, and the writes to SQLite. The branch of a pull that deletes jobs past their TTL
  (`pullStateTransition.ts:81-96`). `forceReleaseClientJobs` (`clientTracking.ts:167-194`), which
  a closing connection falls back to when three attempts have timed out on a lock: it drops
  leases without locks and leaves the jobs in the processing map with `startedAt = 0`. Sections
  are synchronous, so no lock of this model is held long enough.

### LongPoll

How a pull that finds nothing sleeps, and who wakes it. `entries`, `activeWaiters` and
`pending` are the fields of `QueueWaiters`; a waiter that times out or whose signal is
aborted leaves a cancelled entry behind, which `notifyQueue` skips later. Of the jobs only
the numbers are kept: `ready`, `delayed`, `active`.

In `JobDelivery` any section that is ready may run next. Here that would be too much. The
wait begins three microtasks after the try that failed, and what is announced in between
leaves one bit, however much it is. If two pullers could be in that gap while two jobs
arrive, one of the notifications would be lost. Whether they can is decided by the
awaits of each handler: `withWriteLock` releases one microtask after its section,
`withPushWriteLocks` in the same one, `pushJobBatch` notifies one later. So `tasks` is the
microtask queue and `lock` the queue of the shard lock with its holder at the head; each
action takes the first task and appends what it causes, in the order of the code:
the continuations of the pullers it wakes, then the next holder of the lock, then its
own. Calls come in at any point (`CallsComeIn`, `Pull`), timers and aborts when
`tasks` is empty. The shard lock is `RWLock` with writers alone, that is, a FIFO.

Other simplifications: an acknowledgement's first section, under the processing lock, is
part of its arrival; the nested locks of the recovery paths, which release later than
modelled, count as one; at most one job is delayed at a time.

### JobStorage

SQLite is called synchronously, so an operation changes memory and issues its writes in one
turn, and one action is one operation. What is hard is the buffer: an insert waits in
`pending` (active and flushing buffers together, since a flush is synchronous too) while the
job is already delivered. An UPDATE of a job whose insert is buffered affects no row, so the
lifecycle writes either flush first (`FlushIfBuffered`) or mark the buffered object
(`SetPendingState`); what is written later is the state of the object at that moment (`RowOf`).
The operators of the store map a store to the *set* of stores that the call may leave behind,
because any row of a flush may fail (`Insert`, `AfterInsert`) and any statement may throw
(`Tried`).

* *Burial in two transactions.* `discardJob` and stall detection write the DLQ row first and
  remove the jobs row afterwards. `unlinking` is the job in between; `FinishUnlink` has weak
  fairness since it is the rest of the same call.
* *The hazard `"torn"`* is a crash in that gap while the job was waiting. Recovery of pending
  rows does not ask the DLQ (`background/recovery/pending.ts:64`), so the job is afterwards both
  runnable and buried; `docs/features/dead-letter-queue.md:7,299` describes recovery differently.
  The setting with that hazard does not claim `DiskMirrorsMemory` and `NothingSilentlyLost`;
  it still claims `DurableSurvives`, `RunBudget` and `FinishedNeverRuns`.
* *Histories.* `admitted`, `durable`, `runs`, `finished` are what callers have been told.
  `store.lost` are the jobs of a dropped buffer, which the code reports and buries
  (`sqlite/state.ts:88`) although memory goes on delivering them.
* *Left out.* The gap between dequeue and `markActive`, rows that conflict with a constraint,
  re-admission under a custom id, an `add` after `stop()`, writes of single fields
  (`updateJobData` and others), `replaceJob` and the transfer of a deduplicated active job.

### PostgresLease

READ COMMITTED. A transaction is split where it reads something it relies on later: a claim
reads the queue's row under a lock, selects candidates with SKIP LOCKED, and commits; a
renewal and a batch acknowledgement read the clock before they wait for their rows; recovery
selects, then locks and looks again. Locks are not a variable: who holds what follows from
`tx`. A transaction that takes its locks before it reads the clock is one step, as are
heartbeat, registration and purge. `clock` is the database's. `transactionNow` is read before a
row is waited for (`brokerSessions.ts:45`), so under the hazard `"stale"` registration,
heartbeat and purge use a reading of any age (`Readings`).

`registry` is `bunqueue_brokers`, `process` the life of each broker process, `held` the
leases workers have been told of (it never shrinks: a worker may use an old lease at any
time, through any broker), `ends` how each delivery has ended. Without the hazard `"stale"`
heartbeats are never late. A call that fails its test changes nothing and is no action. A
failure may be unrecoverable, which ends the job with attempts left. An orderly close that
cannot release its leases goes on to unregister all the same (`runtime.ts:132-148`), and the
call to `close()` fails; the next one tries the release again. `ClosedHoldsNothing` speaks of
a close that has done both.

Left out: backoff and `run_at`, groups and rate windows, job timeouts, cron discards, custom
lease durations, the deletion of the row with `removeOnComplete`, dependencies, pushes and
their idempotency keys, events.

### JobFlows

`place` is the job index with the runnable queue and `waitingDeps` told apart, `index` the
reverse index, `pending` the set `pendingDepChecks`. The two checkers, the microtask and the
interval, run `processPendingDependencies`, which is three kinds of step: `Snapshot` takes the
pending ids and collects their waiters, `Check` looks at one of them under its shard's lock,
`FinishCheck` gives up the pins. A completed job stays in `completed` (bounded,
`maxCompletedJobs`), or, with `removeOnComplete`, leaves a bare proof in `proofs`: `pinned`
while it has waiters, else in the bounded queue `recent`, with a table that mirrors both. The
order of both is that of `proofs.log`: a record's last place in it is its token, or its
autoincremented sequence in the table (`Sequence`), and decides what is evicted and pruned. Failure handlers have one section
(`FailParent`, `RemoveFromParent`) or two, with a timer of no duration in between
(`FreeParent`, then `Promote`); `outbox` is the table `flow_failures` that startup replays.

`needs` and `parent` are shared by memory and row: every operation that changes one writes
the other. The settings are a diamond (two removed jobs, two waiters, room for one proof,
with and without a database), late children, linked children, callers that cancel and detach,
and one flow for each of the five failure options, with and without a sibling that is
removed.

Left out: `moveToWaitingChildren`, the reuse of custom ids and the replacement of
deduplicated jobs inside flows, storage that throws inside the checker (the pending set has
been cleared by then), the write buffer (`JobStorage`), the results of children, and the gap
between the transactions of `moveParentToFailed`, which the replay makes harmless. `BoundedSet`
evicts a tenth of its size at a time, which is one entry at this size.

### Mutants

Several mutants are defined next to the operators they replace; each is a bug
that a change of the code could plausibly make, and each breaks a property.

## 3. Runs

| Run | Specification and bounds | States | Shows |
|---|---|---|---|
| `rwlock` | 3 callers, 4 entries a queue, `FairSpec` | 134 k | exclusion, counters, nobody stranded, the refinement of `WriterPriority`; writers are served |
| `delivery` | 1 job, 2 clients, limit 1, 3 attempts, 2 stalls, 3 deliveries, all hazards but aborts, `FairSpec` | 797 k | one place, index, slots, budgets, finality; what may take the current lease; abandoned jobs come back |
| `delivery_limit` | 3 jobs, 3 clients, limit 1, 2 attempts, 3 deliveries, aborted pulls | 489 k | the limit is honoured: an aborted pull gives back one slot |
| `delivery_over_limit` | 3 jobs, stalls | violation | see findings |
| `delivery_stale_ack` | 1 job, expiring leases | violation | see findings |
| `delivery_old_connection` | 1 job, expiring leases, disconnections | violation | see findings |
| `longpoll` | a PULL and a PULLB of 2 jobs, limit 2, 1 call in line; three settings, `FairSpec` | 683 k | count, entries and pending bit agree; the limit; no wake-up is lost; every pull returns |
| `storage` | 2 jobs, a buffer of 2, 2 failed flushes to the drop, up to 2 stops; three settings, `FairSpec` | 928 k | disk and memory agree, run budget, finished and durable jobs, nothing lost in silence, the buffer drains |
| `pg_leases` | 2 jobs, 3 processes, 2 broker ids, 2 connections; leases that last 2 ticks; five settings | 2.5 M | one end per delivery, budget, limit, fencing, whole batches, pause, orderly close |
| `pg_recovery` | 1 job, 2 brokers that may crash, `FairSpec` | 22 k | an expired lease is recovered |
| `flows` | 4 jobs, up to 2 restarts; thirteen settings, `FairSpec` | 527 k | no early start, no pin given up, failures reach the parent, ready jobs are promoted |
| `flows_ignored` | 3 jobs, `FairSpec` | violation | see findings |

The type invariants of `LongPoll`, `JobStorage` and `PostgresLease` are the first conjunct of
`ActiveCountsLive`, `DiskMirrorsMemory` and `OneEndPerDelivery`.
Three properties are proved and no run checks them any more: `PendingIsQueued`,
`ReadersYieldToWriters` (`RWLock`) and `ActiveIsWatched` (`JobDelivery`).

`storage` and the runs of `JobFlows` have `CHECK_DEADLOCK FALSE`: their jobs are finitely
many, and when all have ended and no restart is left nothing happens any more.

### Why the bounds are enough

The lock's handlers look at the head of a queue and at counts being zero or not.
Three callers give a holder, a writer in the queue and a reader behind it; the queues
have room for entries settled before. (The six safety properties are proved for any
number of callers; TLC has checked them with four as well.) The races of delivery are between a request, a second request
or a recovery path, and the next delivery of the same job: two clients and three
deliveries give a stale owner, a current owner and a redelivery after both. Three
attempts and two stalls let each mechanism spend part of the shared budget
before the other ends it. A limit of one is exceeded by two active jobs; the third is
the one whose slot is given back wrongly. A gap of the long poll has two pullers in it at
most, and one of the two may sleep while the other is in it; the call in line stands beside
those of the pulls. (With a third puller and two calls in line TLC found
the same in 4.8 million states, and the safety properties are proved for any number.) Of the
three settings, pauses and silent releases are in the first alone, and a delay meets a poll
that ends only there, as `NoLostWakeup` does not hold with them (`WakeupsPromised`, see below).

Of the write buffer's tests, one is on a job's own insert and one on how many are
buffered: with two jobs and a buffer of two, one job's insert fails while the other's is
written, and an admission flushes or does not. Two failed flushes to the drop (ten in the
code) put one failure before the last one. Two stops let a recovery be interrupted or
followed by another.

A claim races with one other transaction on the same row: two connections and two processes
of different brokers, or a process and the one started in its place, with a third to take
over their leases. Two deliveries of one job give a stale and a current token; two jobs give
a limit of one something to refuse, and a batch a valid and an invalid item. A lease lasts two
ticks of the clock, so a renewal after one moves the deadline. With crashes the stall bound is
one and the attempts two, so that the bound on stalls ends a job before the attempts do.

A flow of two children under one parent has the last child, the failed child and the sibling
that matters to each option. The diamond has a proof with two waiters of which one leaves,
and a second proof that pushes it out of a queue of one. Two restarts put one between each
pair of steps of a handler, and one after its replay.

The bounds are the constants `MaxQueue`, `MaxDeliveries`, `MaxJobs`, `MaxBatch`, `MaxCalls`,
`MaxEntries` and `MaxStops`, and the fields `stops`, `clock`, `tokens` and `batch` of the
settings.

### Fairness

`HoldersRelease`: `withReadLock` and `withWriteLock` release in a `finally`. Nothing
is assumed of timers or of new callers, so `WritersAreServed` says that newcomers
cannot starve a writer. `JobDelivery!Fairness`: the event loop runs each section
whose turn has come, also those of a sweep, the interval of stall detection fires for
ever, and a job without heartbeats becomes stale. Workers and clients may do nothing, and
leases may expire or not, so `AbandonedIsReclaimed` rests on stall detection alone.
`LongPoll!Fairness`: microtasks run, and each turn ends (`[]<>Quiet`: calls come from
connections and timers, and a turn has those that were read at its start; `Pull` and
`CallsComeIn` are otherwise allowed inside a turn, and without this a stream of them would
keep it going for ever); the loop comes back to its timers whatever else happens (strong
fairness, since a timer is only enabled between turns), and time passes. Nothing is
assumed of calls. `JobStorage!Fairness`: a call that has written a DLQ row goes on, and the
flush interval and the backoff timer run when they are due, whatever calls come between them.
`PostgresLease!Fairness`: a transaction that can go on does, or is ended; the recovery
interval of each process that is up fires and gets a connection, and not every attempt is
ended by PostgreSQL. `JobFlows!FairSpec`: the microtask that takes the pending ids, sections
of checks and handlers that have begun, and startup; nothing of workers, callers, or the
interval of the second checker.

### Findings

* `delivery_over_limit`. An ack that arrives after stall detection has put the job
  back in the queue completes it there (`completeStallRetriedJob`) and releases a
  slot, although the stall retry has released the job's slot before. If another
  job is active by then its slot goes, and one more than the limit is admitted.
  `docs/features/rate-limiting-and-concurrency.md:169-173` says that a job keeps its
  slot while it is active and that only leaving the active state releases it.
* `delivery_stale_ack`. While a job has no lease any token is accepted. When a lease
  has expired and been dropped, and the job is dequeued again, an ack with the old
  token that arrives before the new lease is created claims the new delivery.
  `docs/features/concurrency-and-locking.md:320` says that a stale token can not.
* `delivery_old_connection`. `checkExpiredLocks` drops the lease of a job and leaves the job
  among those of the connection it was pulled over (`lockManager.ts:168,223`). When it is pulled
  again over another connection, `createLock` finds no lease and so detaches nobody
  (`lockOperations.ts:22-37`). Now two connections have the job; when the first one closes, the
  job is requeued, and its current lease dropped, while the second has it in hand
  (`clientTracking.ts:216`), unless that lease has been renewed already.
  `docs/features/concurrency-and-locking.md:317` says that the old ownership is removed before the
  new connection is registered.
* `flows_ignored`. `removeChildFromParentDeps` (`flow-options.ts:132`) takes the parent as ready
  when each dependency that is left is in `completedJobs`. A sibling with `removeOnComplete` has
  left a proof instead, which the test does not ask, and the check of its own completion has
  found the parent waiting for the failed child: nobody looks again.
  `docs/features/flow-producer.md:290` says that the edge is removed and the parent continues
  when ready.

`delivery_limit` claims the limit for aborted pulls, acks and failures. Stalls are off for the
first reason; moves are off because TLC finds the limit exceeded with them in two more ways:

* a job fails and is redelivered, another client's move drops its lease, and the late ack
  reaches `completeStallRetriedJob`, which releases a slot as above;
* a pull has dequeued j1 and is aborted while a move of j1 is on its way: the first section of
  the undoing releases the slot and leaves j1 in the processing map until the second; the
  move claims j1 there; another pull takes j2; the move's section in the queue releases a slot
  again (`jobMoveOperations.ts:38-40`), j2's, and j3 is admitted beside j2.

Section 4 says for which hazards the limit is proved. Resuming a paused queue notifies one waiter however
many jobs are ready; no document says otherwise, and `NoLostWakeup` is not checked with
pauses.

What TLC showed beside these, each as a counterexample of a property with a wider setting, is
stated here as the hypothesis under which the property is checked:

* `WakeupsPromised`, in `NoLostWakeup`. Stall detection, the expiry of a lease at the end of
  its budget and the release of a closed connection's jobs free a slot and notify nobody
  (`stallDetection.ts:144`, against
  `docs/features/rate-limiting-and-concurrency.md:173`). A queue whose polls all wait for that
  slot stands still until one of them reaches its deadline. A push with a delay wakes one
  poll, which sets its timer for the job; if that poll ends first, nobody's timer is set
  (`operations/pull.ts:50`, against the comment at line 38).
* `"torn"`, in `DiskMirrorsMemory` and `NothingSilentlyLost`: see `JobStorage` above.
* PostgreSQL: a batch acknowledgement is judged by a clock that was read before its rows were
  waited for (`batchCompletion.ts:215`, against `docs/features/postgres-multibroker.md:534`).
  A renewal brings back an expired lease that a claim has stopped counting, and the limit is
  exceeded (`leaseRenewal.ts:89`, against line 469): `LiveLeasesWithinLimit` is claimed without
  renewals.
* Flows, in settings that `flows` leaves out:
  1. without a database the release of pins adds every candidate to `recent`, also a job
     that never completed (`dependencyCompletions.ts:217`): a later waiter starts early. The
     setting without a database has no cancellations;
  2. `flows_ignored`: the options `ignore` and `remove` have no removed sibling;
  3. a completed job that is kept falls out of `completedJobs` while somebody still waits for
     it and another job: the waiter stays parked until a restart finds the row. Room for all
     jobs, but in the diamond, where jobs are removed;
  4. a child added between `FreeParent` and `Promote` is not waited for; nor, after a restart,
     one that was added to a parent freed by `continue`;
  5. a late child parks its parent again, on dependencies that have completed as well, and
     nothing pins the proofs of those that were removed: `commitParentLink`
     (`operations/parentLink.ts:125`) does not, and `pinReferencedCompletions`
     (`dependencyCompletions.ts:184`), which would, is called nowhere. A flow pins the proofs
     it rests on in memory only. And memory can have a proof that the table has pruned: the
     table goes by sequence number (`dependencyCompletionStore.ts:74`), pinned records use up
     numbers, and memory evicts when it holds too many unpinned ones. In all three ways later
     completions or a restart take the proof and the parent waits for ever, although
     `docs/features/flow-producer.md:252` says that a record is pinned while any accepted
     parent references it, also one that was added after the child completed. `PinsHold` says
     that a pin, once there, stays;
  6. stall detection, recovery and discards bury a child without a record or a handler;
     a parent that fails does not fail its own parent. `FailureReachesParent` speaks of
     reported failures;
  7. a record of mode `fail` that stays because the parent was out of the queue can fail that
     parent at the next restart, when it has been retried since;
  8. a record of mode `ignore` or `remove` that is replayed for a parent which was retried out
     of the DLQ puts `waiting-children` into the row of the queued parent, since another failed
     child is still among its dependencies (`flowFailureRecovery.ts:118`). The restart after
     that parks the parent, and the record of that other child went when the parent failed
     (`docs/src/content/docs/guide/flow/failures.mdx:35` says that a restart cannot put a released
     parent back into `waiting-children`). The flows of the run have children of one option;
  9. a finished job is linked to a parent that is parked on another job: `parentLinkState`
     (`operations/parentLink.ts:146`) looks only at the new child and returns `waiting`, which
     goes into the parent's row, while memory still has the parent parked. A restart takes the
     row's word and queues the parent, against `docs/src/content/docs/api/http.md:241`. The
     setting with links has no restarts.

## 4. Proofs

`RWLockProofs` proves, for any finite set of callers and any bound on the queues:

| Theorem | States |
|---|---|
| `Invariance` | `Spec => []IInv` |
| `TypeCorrect` | `[]TypeOK` |
| `WritersExclude` | `[]MutualExclusion` |
| `CountersAgree` | `[]CountersMatchGuards` |
| `PendingWaits` | `[]PendingIsQueued` |
| `NobodyStranded` | `[]NoStrandedWaiter` |
| `WritersGoFirst` | the action property `ReadersYieldToWriters` |

The assumptions are `TasksAssumption` (a finite set) and `MaxQueueAssumption`.

None of the safety properties is inductive alone: exclusion depends on the counters,
the counters on no caller having two live entries in the writer queue, and that on
pending promises and live entries being the same callers. `Consistent` is their
conjunction, stated for a state given by its components, because five of the ten
handlers hand a changed state to `drain()` before it becomes the next state. The proof has
three layers:

1. what `Append`, settling and shifting do to the live entries of a queue
   (`LiveAppend`, `LiveSettle`, `LiveRest`);
2. `drain()` on any consistent state leaves a consistent and drained one
   (`DrainGrantsWriter`, `DrainAdmitsReaders`, `DrainKeepsWaiting`);
3. each handler either hands drain a consistent state (`EnqueueWriteDrains` and its like)
   or keeps the invariant itself.

`Drained`, the second half of the invariant, says that nobody waits for a free lock.
It is not needed for exclusion; it is what the final `drain()` of each handler is for.
`WritersGoFirst` needs only that `writerWaiting' = 0` after any step that grants a
read, and that the invariant makes this the cardinality of the live writers.

`RWLockRefinementProofs` proves `LockImplementsPriority`: `Spec => ImplementsWriterPriority`,
from the same assumptions. It goes the same way once more: what `Append`, settling
and shifting do to the order of a queue (`OrderAppend`, `OrderSettle`, `OrderRest`; in the
last one, that the head is the one writer that nobody precedes); that `drain()` on any
consistent state admits whom `Admit` admits (`DrainAdmits`); and for each handler that it
is `AskToRead`, `AskToWrite`, `Leave` or a stutter of the promise (`StepImplements`). The
settled entries drop out in the mapping, so a timeout in the middle of the queue is a
departure that leaves the others in their order. Where a handler does not call `drain()`,
`Drained` supplies what `Admit` asks: nobody could have entered before it either.

`JobDeliveryProofs` proves, for any finite sets of jobs and clients and any limit, budgets
and bound on deliveries:

| Theorem | States | Hazards |
|---|---|---|
| `DeliveryTypes` | `[]TypeOK` | all |
| `Custody` | `[]IInv` | no aborts |
| `JobsAreInOnePlace` | `[]OnePlace` | no aborts |
| `IndexIsRight` | `[]IndexAgrees` | no aborts |
| `SlotsComeBack` | `[]NoSlotLeak` | no aborts |
| `RetriesAreBounded` | `[]RetryBudget` | no aborts |
| `StallsAreBounded` | `[]StallBudget` | no aborts |
| `StallDetectionSeesAll` | `[]ActiveIsWatched` | no aborts |
| `OutcomesAreFinal` | `TerminalIsFinal` | no aborts |
| `DeliveryKeepsLease` | `CurrentKeepsLease` | no aborts |
| `LimitUnlessLate` | `[]LimitHonoured`, given `[]NoLateAck` | no aborts |
| `LimitOfOneAttempt` | `[]LimitHonoured`, for `MaxAttempts = 1` | no aborts |
| `AbortsKeepOnePlace` | `[](OnePlace /\ IndexAgrees)` | aborts and callbacks only |
| `AbortsKeepLimit` | `[](LimitHonoured /\ NoSlotLeak)` | aborts and callbacks only |

The assumptions are those that `JobDelivery` names: `LimitAssumption`, `BudgetAssumption`,
`DeliveriesAssumption`, `JobsAssumption`, `ClientsAssumption`. "No aborts" is the hypothesis
`"abort" \notin Hazards`, as in the run `delivery`; it is needed. `requeueJob` leaves a
job in two places between its sections, and if another client claims the job there, the
second section can delete what was claimed. TLC finds that with an aborted pull and any one
of stalls, expired leases, disconnections and moves; with `Hazards \subseteq {"abort",
"callback"}` it does not happen, and the last two theorems say so.

`OnePlace` is not inductive: a handler that has taken a job out of the processing map writes
the index and the queue some sections later, and that nobody does so twice depends on
every claim being exclusive. `IInv` says of each job (`Placed`) that it is waiting, active,
out, or in the hands of one handler, and in each case what the index says, whether the
budgets leave room for another delivery, and for an active job that `startedAt` is set;
beside that, that the verdicts of stall detection are still right when they are carried out
(`VerdictsHold`), which needs that no lease is handled in the same sweep. The proof has
three layers:

1. types, in parts, section by section;
2. what a section leaves alone: a job it does not touch (`Same`) stays placed and keeps its
   slot holder, and a handler that moves on claims or lets go of its own job only
   (`Claims`, `LetsGo`, `OthersOwnersSame`);
3. where each section takes its own job (`...Keeps`). The recovery paths share
   `ReclaimKeeps`, and the sections without a claim share `NoClaimKeeps`.

`NoSlotLeak` needs the places as well: a release takes one job at most out of the set of
slot holders, and a dequeue adds a job that was not in it.

The limit needs the count of slots exactly, where `NoSlotLeak` needs a bound. `Counted` says
that `active` is the number of jobs that the index has as active and whose ack has not given
the slot back yet (`InUse`). Of all the sections only `completeStallRetriedJob` breaks it:
it gives back a slot that stall detection has given back already. So `LimitUnlessLate` assumes
`NoLateAck`, that no ack on its way there finds its job in the queue, and concludes
that the limit holds through every other race: the finding `delivery_over_limit` is the only
way over it. `LimitOfOneAttempt` discharges the assumption where a job is not retried.

For aborted pulls the invariant is `AInv`. A job may also be `Undone` (in both collections,
the index saying `queue`, with an unlink to come), and `Carried` says that a job a client
works for is active and that client's alone. That is what any other hazard breaks by taking
the job from its worker, and it is why the late unlink finds nothing it could harm.

`DeliveryKeepsLease` needs, beside `IInv`, that a token says who it was made for and for which
delivery (`TokensTold`). A call with a token drops a lease only with the token of that lease,
so it drops its own; stall detection leaves the lease, and lease expiry takes expired ones.
What is left are the three ways that `CurrentKeepsLease` names. It speaks of a worker whose own
outcome has not arrived yet.

`PostgresLeaseProofs` proves, for any finite sets of jobs, broker processes and
connections, any identities of the brokers, any retry policy and times, and any settings:

| Theorem | States |
|---|---|
| `Invariance`, `LeasesTyped` | `[]IInv`, `[]TypeOK` |
| `DeliveriesEndOnce` | `[]OneEndPerDelivery` |
| `BudgetHolds` | `[]Budget` |
| `ClosedBrokersHoldNothing` | `[]ClosedHoldsNothing` |
| `LimitHolds` | `[]LiveLeasesWithinLimit` |
| `NoJobTwice` | the action property `ClaimsTakeWaiting` |
| `FencedGetNothing` | the action property `OnlyRegisteredLease` |
| `PauseIsObeyed` | the action property `PausedClaimsNothing` |
| `BatchesAreWhole` | the action property `BatchIsWhole` |

The assumptions are `IdAssumption`, `FiniteAssumption`, `PolicyAssumption`, `TimeAssumption`
and `SettingsAssumption`. Their number does not matter because the database, not a process,
has the state. The invariant has two halves. The first is about one job (`Accounted`,
`Charged`): the row carries the last token until that delivery has ended, every delivery
before it has ended once, and the attempts and stalls of the row are the sizes of the sets
of lost and expired deliveries. Only four things happen to a row (it is claimed, extended,
finished, or taken back), and a batch does the third to several at once; each keeps
the accounts of the rows it touches. The second half is about what an open transaction may
rely on: a row that a claim has locked is still waiting (`RowsAreReserved`), a session that
it has seen is still registered (`SessionsStay`), the queue it has locked is not paused
(`PauseWaits`), and what it has counted leaves the room it has computed (`RoomIsKept`). That
is what the action properties and the limit follow from, and none of them holds by itself.

`JobStorageProofs` proves, for any finite set of jobs, any budgets, any size of the buffer and
number of failed flushes, and any combination of hazards:

| Theorem | States |
|---|---|
| `Invariance`, `StorageTyped` | `[]IInv`, `[]TypeOK` |
| `TablesMirrorMemory` | `[]DiskMirrorsMemory` |
| `BudgetSurvivesCrashes` | `[]RunBudget` |
| `DurableStaysOnDisk` | `[]DurableSurvives` |
| `CompletedIsFinal` | `[]FinishedNeverRuns` |
| `LossIsReported` | `[]NothingSilentlyLost` |

The assumptions are `SettingsAssumption` and `BufferAssumption`. The invariant is a
conjunction over the jobs (`JobInv`). It speaks of `DiskRow`, the row a job has or will get
when the buffer is flushed; so the moment of the flush does not matter. Any
operation may flush, so a step about one job may touch all the others, but only in three
ways (`Flushed`): the row is written, it is not, or the buffer is dropped and the job is
reported. `AsideKeeps` shows that none of these disturbs `JobInv`; it is used for every
other job of every operation, and each operation has one lemma for its own job. The parts
on the last line of `JobInv` need that statements on existing rows succeed (no hazard
`"write"`), as the properties say themselves.

`LongPollProofs` proves, for any finite set of pullers, any batches and limit, and any of the
hazards:

| Theorem | States |
|---|---|
| `Invariance` | `[]IInv` |
| `WaitersCounted` | `[]ActiveCountsLive`, which has `TypeOK` in it |
| `PendingIsUsed` | `[]PendingMeansNobodySleeps` |
| `LimitHolds` | `[]ActiveWithinLimit` |
| `PromisesHold` | `[]WInv`, the invariant behind the next one |
| `NoWakeupLost` | `[]NoLostWakeup`, in full |

The assumptions are `CountAssumption`, `BoundsAssumption` and `PullersAssumption`. The count of waiters is right only if
nobody sleeps twice, which holds because each puller is in one place: it has one microtask,
or waits for the lock, or sleeps (`OnePlaceEach`). For the lock there is `OneHolder`: of the
tasks that run in the section or release it there is one, of the first in line.
`MovesOn` shows once and for all that a microtask keeps both when what it leaves behind is
its own next step, pullers that it has woken, or the next holder of the lock. The
limit needs that no release gives back a slot that is not in use (`SlotsInUse`). The head
cursor of the waiters is defined by a choice; that there is a place for it to stop is
an induction over the array, which is done with the least element of a set of numbers
(`LeastNatural`, `CursorFound`).

That no wake-up is lost is a count. `Takeable` is the number of jobs that a puller could take
now, `TakeableSoon` that number once the delayed job is due, and each of those jobs is promised:
to a puller on its way to the lock (`Coming`: it runs its section next, is woken, or stands in
line), or by a batch that is not announced yet (`Announced`, one for each of its jobs). `Promised`
says that the promises suffice while somebody sleeps, and also while somebody is in the gap
between a failed try and its sleep and the pending bit is not set. The bit is the weak point: it
is one notification, so it can make up for one puller in the gap. Therefore the third part: two
are in the gap only while one job at most is to be had. It is inductive because of the order
of the microtasks (`InOrder`): a failed try decides before the next one is resumed, and a decision
is taken before the next section runs. A notification of n wakes n sleepers, who are n promises more, or
nobody sleeps any longer and the bit is set (`NotifyWakes`).

A delayed job is promised like the others when it is pushed, but the puller that comes for it
leaves with nothing, so one promise may be short (`Enough`). Then the timer of the last puller makes up
for it: the last in the gap, or, with the gap empty, the youngest of the sleepers, has seen the
delayed job and sets its timer for it (`Told`), and once the job has matured that timer is due. The last
is the right one to ask because a notification takes the oldest entries first, so while anybody
sleeps the youngest does; and whoever comes into the gap behind it has just tried and found the
job not due, so it is the new last and its timer is set as well. A poll that is over sets no such
timer; with delays no deadline passes for a puller that waits (`Stays`, `NothingElse`), which is
the hypothesis `WakeupsPromised` has for the reason given under findings. Between turns there are no microtasks,
so nobody is in line either (`LockRuns`), nothing is promised, and if somebody sleeps while a job
can be taken, its timer is due.

`JobFlowsPins` proves, for any finite set of jobs, any bound on restarts and any settings at all:

| Theorem | States |
|---|---|
| `TypesHold` | `[]TypeOK`, with the bound on the proofs that nobody waits for |
| `PinsAreKept` | the action property `PinsHold` |

The bound is the part of `TypeOK` that is not obvious, and the pins rest on the same facts. A
tier evicts whatever has fewer than `keep` younger records, the table whatever is `keep`
sequences older than its newest. Neither counts its records; both keep within the bound because
a record has one place in the order (`Sequence`, `Logged`). Then the records that
`Youngest` keeps all come after the oldest of them, which has fewer than `keep` above it
(`YoungestBounded`); and the records read back from the table have different places in
a window that is `keep` wide (`HydrateBounds`). For the pins, each operation on the proofs has a lemma
that says which ones it may give up (`ReleaseHolds`, `ProveHolds`, `ReconcileHolds`...): a
release gives up those that the index it finds does not await, a startup reconciles against
the index it has built, and all others none. `Typing` is `TypeOK` with those facts about the order,
and each action has one lemma for both.

`JobFlowsProofs` proves, on top of that, for any settings that are `Ordinary`:

| Theorem | States |
|---|---|
| `Invariance` | `[]IInv` |
| `NothingStartsEarly` | `[]NoEarlyStart` |
| `FailuresReachParents` | `[]FailureReachesParent`, where no job is retried out of the DLQ |

The assumption is `FlowAssumption`. `Ordinary` is a hypothesis on the settings, and each of its
conjuncts is there for one of the gaps listed under findings: there is a database (1); jobs
are linked to parents later only where the process does not restart (9); and
late children do not come together with failures that free a parent (4). Of the settings of
`flows`, all but the two without a database are `Ordinary`. Without the last hypothesis of
`FailuresReachParents`, gap 8 is a counterexample; the lemma behind it, `ReportIsOnItsWay`,
speaks of any parent that was not retried.

That a job does not start early rests on everything that can say that a dependency has
completed: the cache, the two tiers of proofs, the table behind them, the completed rows, the
snapshot of a checker, and the promise that a handler's second section relies on. `Evidence` and
`Promotions` say that none of them says more than what happened, and `Weaker` is the relation
that each operation on the proofs keeps: it may forget a completion, but it invents none.
Across a restart the rows decide, so `JobAgrees` and `InTime` relate the row of a job to
its place and its history, in both directions. `IInv` is inductive relative to `Typing`. `Reports` follows the failure of a child through
the crash: while the parent's row says `waiting-children` the outbox has the record, while the
process serves a handler has it, while it starts the replay has it.

Only model-checked: the liveness properties
(`WritersAreServed`, `AbandonedIsReclaimed`, `PullReturns`, `BufferDrains`, `ExpiredIsRecovered`,
`ReadyIsPromoted`: liveness under fairness is out of the prover's reach);
the invariants of `JobFlows` in settings that are not `Ordinary`.

## 5. Not modelled, and the plan

In order:

1. An abstract specification of a job's life (new, waiting, active, claimed, completed,
   buried), with `JobDelivery` shown to implement it by `Placed`.
2. Extensions of delivery: job timeouts, batch ack, limit changes and queue control
   (pause, drain, obliterate).
3. Unique keys and custom ids: reservation, TTL, replacement, release on completion.
4. Groups and rate windows; `moveToWaitingChildren`.
5. Pushes of the PostgreSQL engine with their idempotency keys, and its groups.
6. Cron (overlap prevention needs `JobDelivery` together with a clock), the workflow engine,
   the client's worker and connection pool.
7. Pure structures (heaps, skip lists) against reference definitions; `AsyncLock` and
   `Semaphore`, which hand over in the same way as the writer queue.

Not planned: front ends, MCP, CLI, cloud, backup, telemetry and the other SDKs, which
translate or report; generated and vendored code, examples and sites.
