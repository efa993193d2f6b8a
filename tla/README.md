# SveltyCMS: work behind the requests, in TLA+

A verification project for the parts of SveltyCMS that keep state between
requests and change it from several places at once: the persistent job queue
and its two consumers, the transactional outbox, the boot, loss and rebuilding of
the database connection, transactions on a shared connection, the migration
lock, the circuit breaker, the two-level cache, the sessions, and the orders of
the shop. TLC checks small instances of each module; TLAPS proves what matters
most for every size. The reference is the code under `src/src/`; file names
below are relative to it.

## 1. The system and its components

SveltyCMS is a SvelteKit server: one or more Node.js processes in front of one
database (SQLite, PostgreSQL, MariaDB or MongoDB behind a common adapter
interface), optionally with Redis. Inside a process there is one thread, so
code between two `await`s is atomic; everything across an `await`, and
everything between processes, interleaves.

| component | state it keeps | operations | hard behaviour | correct when | status |
|---|---|---|---|---|---|
| Job queue worker, `services/background/jobs/job-queue-service.ts` | `isProcessing`, `currentRunning`, handler registry; rows of `svelty_jobs` | `dispatch`, poll tick, `processNextBatch`, `executeJob` | un-awaited calls, several processes, claims from stale reads, crashes between claim and last write | a row has one executor, attempts are bounded, settled rows stay settled, every row settles, at most `CONCURRENT_MAX` calls | modelled, proved |
| Scheduler, `services/scheduler.ts` | one timer, `isRunning`, its interval; the same rows | `scheduleJob`, `pollAndProcess`, `executeScheduledJob`, start and stop | second consumer of the same table; timers re-armed from two places | as above; while it runs a loop is alive, and it is known where a second one comes from | claims in `JobQueue`, loop in `SchedulerLoop`, both proved |
| Job table on SQL, `databases/core/relational-system.ts` | `svelty_jobs` | create, getNextReady, update with a filter, delete, cleanup | a conditional update that is two statements | the update tells its caller whether it changed the row | jobs modelled |
| Job table on MongoDB, `databases/mongodb/system-module.ts`, `crud-methods.ts` | `svelty_jobs` | the same | date types of stored and queried values | what is due is found | jobs modelled |
| Queue administration, `routes/(app)/config/queue` | none | retry, delete, clear completed | acts on rows that are being executed | does not disturb work under way | modelled |
| Transactional outbox, `services/outbox/outbox-service.ts` | emit buffer, flush promise, timers, `isProcessing`; rows of `svelty_outbox` | emit (buffered or in a transaction), flush, tick, deliver, mark, cleanup | debounce against tick, flush that throws or loses its database, several pollers | no event lost, every event settles, ticks do not overlap, attempts counted | modelled, proved |
| Webhook service, `services/background/webhook-service.ts` | cached webhook list | trigger, dispatch, save, delete | un-awaited dispatch | a delivered event gets its dispatch | trigger and dispatch, in `Outbox` |
| Database lifecycle, `databases/db.ts`, `db-init.ts`, `services/core/settings-service.ts` | current adapter, initialisation promise, boot phase, shutdown flag | ensure, boot, reinitialise, shut down | boots and shutdowns that interleave at their awaits; a boot that calls back into the boot | boots do not overlap, callers get an answer | `DatabaseLifecycle`, safety proved |
| Circuit breaker and reconnection, `databases/database-resilience.ts`, `resilience-integration.ts` | breaker state, counters; reconnection timer and flag | execute with retry, on success, on failure, reconnect | answers of calls started in an earlier state; one timer for every adapter instance | a half-open circuit is always decided, the threshold trips exactly, an outage is recovered from; a lost connection has a reconnection | breaker modelled, proved; reconnection in `DatabaseLifecycle`, proved |
| Transactions, `databases/sqlite/`, `databases/core/relational-system.ts` | the connection's open transaction, the write mutex | transaction, declared and bare writes | nesting, writes that go round the mutex | all or nothing; what was answered stays | SQLite: `SqliteTransactions`, proved |
| Migration lock, `databases/migration-lock.ts` | lock file, advisory lock of a pooled connection | provision, try, release | owners that die, releases on another connection | one migrator; nobody skips for nothing; the schema arrives | `MigrationLock`, proved |
| Cache service, locks, count cache, `databases/cache/`, `databases/core/count-cache.ts` | two levels, tag and prefix indexes, pending writes, fetches under way | get, set, stale-while-revalidate, promotion, invalidation by key, tag and pattern | fills racing invalidations, entries that leave the indexes, messages that are lost | what a node has invalidated it does not serve again, and the others come to know | `Cache`, safety proved |
| Sessions, `hooks/handle-authentication.ts`, `hooks/handle-turbo-get.ts`, `databases/auth/` | five layers of caches, cooldowns, single flight; rows of `auth_sessions`; the browser's cookie | resolve, rotate, evict, log out, invalidate | layers forgotten one after the other while a request fills them again | an ended session is forgotten, a live one is neither denied nor lost | `Sessions`, safety proved |
| Commerce, `plugins/commerce/` | stock, coupons, orders; payment intents of the gateway | check out, pay, confirm, cancel, refund, ship | every count is read in one call and written in another; any call may throw, or fail without anybody looking | no unit in two places; no coupon used too often; no shipping without payment | `Commerce`, proved |
| Tenancy guard, `databases/crud-tenant-guard.ts` | request context | checks in every CRUD call | background work has no tenant | background queries are let through | one rule, in `Outbox` |
| Response cache, system state, webhook configuration, audit chain, TOTP replay, workflow and automation | | | | | not modelled, section 5 |
| Job handlers, base adapter and CRUD, permissions, content engine, collaboration, SDK and routes, security services, other plugins, user interface | | | mostly sequential, data-heavy, or third-party protocols | | not modelled; `PROJECT.json` says why for each |

How they meet. An instance boots: it takes the migration lock, provisions the
schema, publishes its adapter, starts its services and becomes ready; the
scheduler starts then. Content writes call `emit`; the outbox tick publishes on the
in-process bus and calls `webhookService.trigger`, whose un-awaited dispatch
inserts a `svelty_jobs` row through `jobQueue.dispatch`; the worker of any
process claims it. The scheduler and the job API insert rows into the same table
and the scheduler is a second consumer of it. The queue page writes those rows
directly. All of it goes through the adapter object that `reinitializeSystem`
tears down and rebuilds. Reads go through the cache, whose invalidations travel
to the other processes over Redis; the same cache is one of the layers of session
resolution, with its batch of pending writes.

`PROJECT.json` lists every hazard at its line with the properties that would see
it go wrong.

## 2. Modules

| module | models | code it stands for |
|---|---|---|
| `JobQueue` | the job table, its consumers, producers, administrators and adapters | `job-queue-service.ts`, `scheduler.ts`, `relational-system.ts` jobs, `system-module.ts` jobs, `queue-actions.server.ts` |
| `JobLease` | abstract: a row is leased to one worker, closed once, never leased after | the promise of the comments at `scheduler.ts:164` and `job-queue-service.ts:206` |
| `Outbox` | emit buffer, flush, tick, delivery, webhooks, database losses | `outbox-service.ts`, `webhook-service.ts` trigger and dispatch, `db.ts` shutdown and reinitialise |
| `CircuitBreaker` | one named circuit and the calls that pass through it | `database-resilience.ts` |
| `MigrationLock` | the instances that boot and the lock they try | `migration-lock.ts`, `sqlite/adapter-core.ts`, connect of the other adapters |
| `DatabaseLifecycle` | the globals of the connection, boots, callers, reconnection, shutdown | `db.ts`, `db-init.ts`, `resilience-integration.ts`, `settings-service.ts` |
| `SchedulerLoop` | the timers of the scheduler | `scheduler.ts` |
| `SqliteTransactions` | requests that write over one connection | `sqlite/transaction-module.ts`, `sqlite/adapter-core.ts` |
| `MCServer` | composition of the last four: an instance boots through the lock, then serves requests over SQLite, or loses and rebuilds its connection and runs the scheduler | |
| `Cache` | the two levels on every node | `cache-service.ts`, `redis-pipeline.ts`, `cache-locks.ts`, `count-cache.ts` |
| `Sessions` | the sessions of a browser in one process | `handle-authentication.ts`, `handle-turbo-get.ts`, `auth/index.ts`, `relational-auth.ts` |
| `Commerce` | orders, stock, coupon and payment | `order-service.ts`, `inventory-service.ts`, `quotes.ts`, the commerce handler |
| `MC*` | constants of the `.cfg` instances | |
| `ServerProofs` | theorems about `MigrationLock`, `SchedulerLoop`, `DatabaseLifecycle` and their composition `MCServer` | |
| other `*Proofs` | theorems about the module they are named after | |

### JobQueue

`status`, `attempts` and `due` are the columns of a row (`due` stands for
`nextRunAt <= now`). A *seat* is one `executeJob` or `executeScheduledJob` call
in flight: `phase` says which of its awaits it has reached, `task` the row it is
about, `snap` the `attempts` value that was read with it. The queue's seats run
concurrently, since the loop launches calls without waiting for them; the
scheduler's seats are its batch, worked through in order (`MayProceed`).
`polling[p]` is `isProcessing` together with the limit that was asked for before
the await.

`Dispatch`, `ScheduleJob`: inserts. `Poll`, `FetchBatch`: the two halves of
`processNextBatch` around its await. `SchedulerPoll`: `pollAndProcess`. `Claim`,
`ClaimSelect`, `ClaimFails`: the conditional update. `HandlerReturns`, `Settle`,
`SettleFails`: the handler's outcome and the last write. `Crash`, `RetryJob`,
`DeleteJob`, `ClearCompleted`: what others do to the rows. Deleted rows keep their
identity (`"deleted"`), because a write that matches no row changes nothing.
`reopened` is history: the rows an admin retried while a call stood between the
UPDATE and the SELECT of a claim of theirs.

`Adapter` chooses what the two families of adapter really do:

- `"contract"` is what both consumers and `db-interface.ts` rely on: an
  update that changes the row if it is still pending and answers with the row it
  changed, in one step.
- `"sql"` is `relational-system.ts:530-575`: an UPDATE, and then a SELECT under the
  same conditions, among them the status that the UPDATE has just changed.
- `"mongo"` is `findOneAndUpdate`, which keeps the contract, after a query that
  compares a stored date with a string and so finds no row.

Each real family breaks a different clause of the contract, so the properties of
the queue's own logic are checked under `"contract"`, and one run per family
shows what its difference does. The theorems about safety hold for all three.

### Outbox

`buffer`, `flight`, `flush` and `timer` are `emitBuffer`, the batch a running
flush has taken out of it, `emitFlushInFlight` and the armed debounce (timer or
immediate). `flush` is `"stale"` once a flush returned before its `try` block,
leaving its promise behind. `row`, `tries` and `ready` are the table;
`processing` is `isProcessing`, and `step`, `todo` and `current` follow each
`processBatch` call, of which `Ticks` may be in flight so that their exclusion
is a property and not an assumption. `hooks` are webhook dispatches nobody waits
for. `emitted`, `shed` and `published` are history.

`Emit`, `EmitInTransaction`; `TimerFires`, `FlushDone`, `FlushRefused` (insertMany
reports failure by its result), `FlushThrows`; `BeginTick`, `FetchPending`,
`FetchFails`, `Deliver`, `MarkDelivered`, `MarkFailed`, `MarkLost`;
`BackoffElapses`, `Cleanup`, `DispatchHook`, `LoseDb`, `RegainDb`, `Crash`.
`FlushReturns` contains the `finally` block, the next flush it starts included.

### CircuitBreaker

`circuitState`, `consecutiveFailures` and `halfOpenRequests` are the fields of a
`CircuitState`; `cooling` stands for `Date.now() - lastFailureTimestamp <
cooldownMs`, so that the adaptive shrinking of `cooldownMs` is covered by the
clock passing at any moment. `phase` and `attempt` follow each `executeWithRetry`
call. The circuit is looked at once, before the first attempt (`BeginClosed`,
`BeginRecovery`, `BeginProbe`); `Succeed` and `CallFails` contain `onSuccess` and
`onFailure` and may come in any later state, `AttemptFails` and `Retry` are the
pause between attempts. A refused call throws and changes nothing. `probing` is
history: the calls admitted since the circuit became half-open. One consequence
needs no property of its own: a success of a call that was admitted before the
circuit opened closes it without a probe, whatever the cooldown.

### MigrationLock

`migStage` is where an instance stands in `provision()` (SQLite) or `connect()`
(PostgreSQL, MariaDB). `lockKind` chooses between the file, which survives its
owner and which anybody removes, and the advisory lock of a pooled connection,
which dies with its owner but which `Release` frees only if the pool happens to
hand out the connection that has it (`AfterRelease`), as `Granted` may be handed a
lock its instance has already. The lock is tried, never awaited: `TryLock`
goes to `"migrating"` or past it. `LockError` is the `catch` that counts as
acquired. `MigrationFails`, `WarmFails`, `MigCrash` and `Restart` disturb the boot.

### DatabaseLifecycle

`adapter`, `promise`, `bootPhase` and `shuttingDown` are the four globals; a boot
and the adapter instance it loads share a number. `Ensure` is the synchronous part
of `ensureFullInitialization`: the fast path, joining the promise, or starting a
boot. `Connect`, `StartServices`, `WarmSettings` (or `WarmFromCache`), `Ready` and
`BootCrashes` are the boot between its awaits; `WarmSettings` calls `Ensure` in
the middle of the boot and awaits what it is given (`waitsFor`). `Drop`,
`TimerFires`, `Reconnect`, `ReconnectFails` are the debounced reconnection,
`Shutdown`, `Clear`, `BootAgain` the steps of `shutdownSystem` and
`reinitializeSystem`. `Drop` is a loss of the connection, whatever the guards of
`scheduleAdapterReconnection` (`Suppressed`) say of it: they decide whether a timer is
armed. What `isConnected` answers falls with the connection where the driver is asked
(MongoDB's `readyState`); the flag of the other adapters is written past the guards and
so may stay as it is. `lost` is history, every instance that ever lost its connection,
and so is `givenUp`, those whose attempts have all failed.

### SchedulerLoop

A loop is a timer that is armed or a poll that will arm one. `pollTimer` says what
the variable of that name holds, `strays` counts armed timers it has lost sight
of, `polls` the polls under way. `Fire`, `PollEnds`, `Schedule`, `Start` and
`Stop` are the callback, `scheduleNextPoll`, `scheduleJob` and the two switches.
`forks` is history: jobs scheduled during a poll, each of which may start a loop
that `stopScheduler` will not find.

### SqliteTransactions

`queue` and `holder` are the mutex, `open` and `pending` the transaction on the
connection that all requests share, `durable` what is committed. A request is a
transaction, a declared write (`wrap` with `isWrite`) or a bare one; `Bypasses`
lets the bare one round the mutex under bun:sqlite. `Begin`, `TxWrite`, `Nest`,
`Commit`, `Rollback`: a `transaction()` call, whose nested call fails at its BEGIN
and rolls the outer one back (`nested` remembers how many writes that took).
`Write` lands in whatever transaction is open.

### Cache

`l1` and `index` are a node's LRU and its tag and prefix maps, `l2` and `l2tagged`
Redis, `buffer` the batch of writes that are not there yet. `StartFetch` reads the
database, `EndFetch` stores what it read, whatever happened in between; the four
purposes (`set`, a miss, a background refresh, a promotion) differ in what they
index and when they write to Redis. `Mutate` changes the collection and starts an
invalidation (`task`), which clears L1, asks Redis which keys there are, deletes
them and publishes a report to the other nodes' `inbox`. `cleared` is history: the
version up to which a node has invalidated a key. An entry is `own` when the
node read it itself and no invalidation of its key came between, so that
properties can tell the entries the code answers for from those it knowingly lets
live until their time is up.

### Sessions

`turbo`, `negative`, `memory`, `store` and `shared` are the layers in the order of
lookup, `live` the rows that validate, `buffered` the entries whose Redis write
waits in a batch, `deleting` the deletions nobody awaits, `cooling` and `rotated`
the timers of the last validation and rotation, `inflight` the validations others
may join, `cookie` the browser's. `Begin`, `LookInShared`, `Decide`, `Query`,
`Validated` are `getUserFromSession` between its awaits, `Continue` what the hook
does with the outcome, `LimiterThrows` the error of the rotation limiter, which escapes
the rotation and clears the cookie. `Create`, `CreateFails` (before the new row is
there, or after), `StoreNew` and then `EndRow`, `Forget` for each victim and the
session itself are `handleSessionRotation` with the eviction of the device's other
sessions; a logout is an end without a new session. `Respond` is the answer with its
cookie. `ended`, `overtaken` (something was under way for a session when it ended) and `signedOut` (the browser logged out, its
session expired or the limiter threw) are history.

### Commerce

A request walks through the awaits of one operation (`at`, `line`, and `seen`,
the count it has read and will write back). `Quote`, `Create`, `ReadStock`,
`WriteStock`, `WriteFlag`, `ReadCoupon`, `WriteCoupon` are `placeOrder`; the same
steps give stock and coupon back after `CheckCancel`, `Guard`, `WriteStatus`,
`Restore`. `CreateIntent`, `StoreIntent`, `Settle`, `Confirm` are the payment.
`overlap` fixes for a behaviour whether requests overlap, so that one run asks both
questions.

A call of the store fails in one of two ways. `Abort`: it throws, or it is a lookup the
request cannot do without, and the request ends there. `Lose`: the adapter answers
`success: false`, `store.update` does not look at it and `store.findOne` makes it
"nothing found", so the request goes on to its next step without having written: from a lost
stock write to the next line and at last to the flag, from a lost flag to the coupon,
from a failed lookup of the order past the return of its stock, from a lost creation to
stock that no order has. `lost` is history: which operation lost which step. `ranOut` is history too: the
orders that ran out of stock and at which line. Both are kept in behaviours without
overlap only, where `CountsConserved` speaks.

## 3. Runs

Passing:

| run | instance | what it shows |
|---|---|---|
| `jobs_two_procs` | 2 processes, 1 queue slot and 1 scheduler slot each, 3 rows (one the scheduler's, one without a handler), 2 attempts, adapter as in the contract, fairness | `ExclusiveExecution`, `RunningHasOwner`, `AttemptsBounded`, `TerminalIsFinal`, and that every row settles (`JobsSettle`) |
| `jobs_faults` | 1 process, 3 slots against a limit of 2, 2 rows, 2 faults, 1 delete or clear | `ConcurrencyBound`, and `LeaseSpec`: `JobQueue` implements `JobLease` |
| `jobs_sql` | 2 processes, 2 rows, SQL claim, 2 acts of an admin (retry, delete, clear), 1 fault | `StartsOnlyAfterRetry`: the only rows a call executes are those retried between the two statements of a claim |
| `outbox_one_proc` | 1 process, 2 tick slots, 3 events, 2 attempts, 2 throws, re-queue cap 2, fairness | `NoEventLost`, `OneTickAtATime`, `AttemptsCounted`, `SettledIsFinal`, `EmittedIsSettled` |
| `outbox_faults` | 2 processes, 1 event, 2 faults (crash, refused call, lost mark, failed dispatch), 1 throw, 1 loss of the adapter, fairness | `StoredIsSettled`: an event that reached the table is settled whatever happens |
| `breaker` | 3 calls, threshold 2, 2 test requests, 2 attempts, 5 failures, fairness | `TypeOK` (the limit of test requests), `TripsAtThreshold`, `ProbeUnderWay`, and that an open circuit closes again (`Recovers`) |
| `server` | 3 instances at the lock with 2 crashes, 1 failure and 1 lock error; 3 requests with up to 2 writes and 1 crash; 3 boots with 3 troubles, 1 of them a shutdown or reinitialisation; 3 scheduled jobs; both drivers, both locks; fairness | `OneMigrator`, `SchemaArrives`; `AllOrNothing`, `AcknowledgedStays`; `SingleBoot`, `LossIsPending`, `CallersReturn`; `LoopsAccounted` |
| `cache` | 2 nodes, with and without Redis, one page read with stale-while-revalidate and one plain key, 3 fetches or promotions, 1 mutation by any of the four scopes, 1 lost message, fairness | `ClearedIsGone`, and that an invalidation reaches every node (`InvalidationArrives`) |
| `commerce` | 2 requests, an order of two lines and one of a single line, 1 unit of each product, a coupon for one use, 2 intents, 1 call of the store that throws or fails in silence (with overlap only beside 1 intent) | `CountsConserved` without overlap, `PaidFirst` with it |
| `sessions` | 2 requests, 2 sessions, 1 failing call of the database or the limiter, 1 lapse, fairness | `InvalidIsOver`, `EndedIsForgotten`, `StaysSignedIn`, `LiveIsRecognised` |

Violated, each against a sentence of the repository quoted in `PROJECT.json`:

| run | property | what the code does |
|---|---|---|
| `jobs_sql_stuck` | `RunningHasOwner` | on SQL the claimer is told "not claimed"; the row stays running, with nobody to finish it |
| `cache_refreshed` | `InvalidatedIsGone` | a background refresh takes its page out of the indexes; while another key of the bucket is cached, clearing the prefix misses the page |

One run of each module also checks its type invariant.

### What the models also show

The modules reach behaviours that have no run of their own. The properties are
stated so as to hold beside them; where a property has an exception, it is one of these.

- Job queue: on MongoDB the due query compares a stored date with a string and
  finds no row. A call that sits on a stale read writes `attempts` back, so a row
  may run more than `maxAttempts` times. A retry of a running row lets a second
  call execute it. "Clear completed" removes rows that are pending or running on
  SQL and none on MongoDB (`Cleared`); a claim from an old batch starts a row that
  waits for its backoff (`ClaimWrite` does not look at `due`).
- Outbox: a flush that finds no adapter leaves its promise in `emitFlushInFlight`
  and nothing is flushed again (`TakeBuffer`); a batch whose `insertMany` answers
  `success: false` is gone (`FlushRefused`). `NoEventLost` is checked without these
  two faults. In `MULTI_TENANT` mode the poller's query is rejected every time. A
  crash loses buffered events and webhook dispatches; a tick that finds a flush
  under way reads the table before newer events are written; two processes hand
  out the same event and may count two failures once.
- Lifecycle: a shutdown in the middle of a boot clears the phase, so the settings
  load of that boot may be given the promise of the boot it is part of, or start
  another one; hence `reinits = 0` in `SingleBoot` and `CallersReturn`. The loss
  of a second instance takes the timer of the first, or meets a reconnection under way
  and arms none; hence `LossIsPending` speaks of the only instance that ever lost its
  connection. A reconnection that was armed before an intentional disconnect still
  fires.
- Scheduler: a job that is scheduled during a poll starts a second loop, which
  `stopScheduler` does not find.
- Migration lock: an instance that gives way does not wait for the migration; a lock
  file outlives its owner and keeps every later boot from migrating; a failed
  attempt to lock counts as acquired.
- Transactions: a nested `transaction()` rolls the outer one back, whose later
  writes are then on their own while its COMMIT fails; under bun:sqlite a bare
  write joins whatever transaction is open and is undone with it after it was
  answered.
- Cache: an entry promoted from Redis is not indexed, so an invalidation by tag
  misses it; a fill that was under way stores what it read before the
  invalidation; a batched write may reach Redis after the deletion of its key.
- Sessions: requests that overlap may both rotate, and leave the browser with the
  cookie of a session the other one has evicted (hence `~overlap`); a resolution or
  a buffered write that was under way brings an ended session back into a cache
  (hence `overtaken`); SQL session rows carry no user agent, so the eviction by
  device finds none there (the empty set of victims in `StoreNew`). A limiter that
  throws signs the browser out while its session lives on; a creation that fails after
  its insert leaves a live session that no browser has.
- Commerce: overlapping checkouts of the last unit both succeed, overlapping
  cancellations return the stock twice, a confirmation that overtakes a
  cancellation revives the order, a paid order can be cancelled without a refund, a
  second payment replaces the intent of the first, and a checkout that runs out of
  stock leaves a pending order behind; `ecommerce-overview.mdx:372` lists a
  decrement under a condition as what prevents the first, which the code does not have. `CountsConserved` therefore speaks of
  requests one after the other. A checkout that runs out at a later line does not
  give back what it took for the earlier ones, nor does cancelling that order, for
  its flag was never set (`inventory-service.ts:41-66`, `:91`): these units are on no
  shelf and in no order. If that order has a coupon it keeps its discount uncounted, and
  its cancellation takes back a use that it never counted, so that the coupon serves one
  order more. `ranOut` remembers such orders, and the equalities in `CountsConserved` are
  about behaviours without one. Three writes that fail in silence put a unit on the shelf
  and in an open order without any overlap: the stock write of a checkout, whose flag is
  set all the same, and the status write of a cancellation or a refund, after which the
  stock is given back (`Doubling`). `CountsConserved` excepts these three and no other. Nothing ever moves an order to
  `delivered`.

### Bounds

Every bound is a constant. Two of anything that competes is where a race shows:
two processes, two slots, one row both want; the third row of `jobs_two_procs`
makes a batch that holds one row each for queue, scheduler and neither.
`MaxAttempts` is 2, so that both a retry and a last failure happen. `jobs_faults`
has more slots than `CONCURRENT_MAX` because a slot is only a place to stand and
the limit must come from `Capacity`. The re-queue cap is 2 with three events, so
that the cap is reached. `MaxFailures` of `breaker` bounds the outage: five lost
calls are enough to trip it, to fail a probe and to have failures come in late
while it is open. In `server` three instances let one crash with the lock, one give
way and one come later; three requests let a bare write come between two that
use the mutex; three boots are one that crashes, its successor and the one a
shutdown provokes; three scheduled jobs fork twice and leave a stray timer to
fire. In `cache` three fetches are one under way while another is stored and
refreshed; with one mutation an entry is out of date or it is not, which is all that
the properties ask. In `commerce` one unit is the boundary of stock, one use that of
the coupon, two intents make one stale, and the order of two lines runs out half way
when the other one has taken its second product. `OneTrouble` keeps requests that
overlap from having both a second intent and a call that fails, which is where most of
the states would be; `PaidFirst` is proved with both. Two sessions are one rotation: an
old and a new one, of which both requests may hold either.

Faults are counted by the constants `MaxAdmin`, `MaxFaults`, `MaxThrows`,
`MaxDbLosses`, `MaxTxCrashes`, `MaxMigCrashes`, `MaxFailures`, `MaxLockErrors`,
`MaxTroubles`, `MaxLosses`, `MaxLapses`. Symmetry is used in safety
runs only, on processes, slots or requests, which the modules never compare or
choose between. Deadlock is checked in `breaker` and `commerce`; elsewhere
`CHECK_DEADLOCK FALSE`, for a queue with nothing to do and all rows inserted, or
an instance at its bounds, rightly stops.

`MCServer` composes its parts one after the other: what disturbs a boot changes
nothing that a request over SQLite reads, and no boot or loss changes the timers of
the scheduler, so each part begins where the one before it came through
undisturbed, and the others' disturbances are explored where they matter.

### Fairness

Weak fairness, on the actions the code schedules itself: pollers are
`setInterval` or re-armed in a `finally`, so `Poll`, `SchedulerPoll` and
`BeginTick` recur; a database call is answered; a handler, `publish` and `trigger`
return; time passes `nextRunAt` and the backoff; the adapter is rebuilt after a
loss. In `breaker` every attempt ends, pauses and the cooldown are timers, and
somebody calls the operation again. In `server` an instance that boots goes on
booting and one that died is started again, a section of the mutex that was entered
ends, awaited calls are answered and timers fire. In `cache` an invalidation
that has begun goes on and a message that is not lost is received. In `sessions` a
browser goes on asking, its requests are served and a minute passes. Nothing is
assumed of producers, callers, admins, faults, crashes, fills, evictions or the
order in which calls finish.

## 4. Proofs

`JobQueueProofs` proves, for any sets of processes, slots and rows and any bounds:

- `TypeCorrect`: `Spec => []TypeOK`.
- `ConcurrencyBounded`: `Spec => []ConcurrencyBound`. `Capacity` is computed
  before an await and used after it, so the bound alone is not inductive:
  `RoomInv` says that the busy seats *plus the limit already asked for* fit
  within `ConcurrentMax`. Only a fetch adds seats, at most as many as it asked for.
- `Exclusive`, `AttemptsStayBounded`, `TerminalStates`: no two calls execute a
  row; attempts stay within the maximum; settled rows are never written again.
  All three assume that admins do not retry, with which the code does execute a row
  twice, and allow crashes, failed calls, deletes and clears, under every adapter.
  They rest on `LeaseInv`, the conjunction of `ExclusiveExecution`,
  `AttemptsBounded` and `CallsSound`. The last is what makes it inductive: a call
  that holds a row knows that it is running or removed and carries the attempt
  number the call wrote; therefore no other claim can succeed meanwhile, the last
  write settles the call's own row, and attempts grow only through a claim from a
  sound snapshot.
- `ImplementsLease`: `Spec => LeaseSpec`, under the same assumption and with the same
  faults. The rows' status is the lease's stage and the calls that hold a row its
  lessees; each action is shown to be one step of `JobLease` or none. Only the claim
  and the last write need `LeaseInv`: who claims finds no other lessee, and who
  closes a row is the one who leases it.
- `RunningRowsOwned`: `RunningHasOwner`, where the claim is not SQL's two statements
  and `MaxFaults = 0`; retries, deletes and clears are allowed. A crash and a failed
  last write leave a running row behind, and SQL's claim does so without any fault,
  which is what `jobs_sql_stuck` shows.
- `SqlStartsNothing`: `StartsOnlyAfterRetry`, under every fault, with every act of an
  admin and for any number of processes. `NoStart` is the reason: between the two
  statements of a claim the row is not pending, for the first has just changed it, unless
  an admin retried that very row meanwhile, which `reopened` remembers.

`CircuitBreakerProofs` proves `BreakerTypeCorrect`, `TripsExactly` and
`ProbeDecides` for any set of calls, threshold and limits (`ConfigAssumption`: they
are positive). The three invariants are inductive only together: a call that
ends in `HALF_OPEN` always changes the state and so empties `probing`, which keeps the
counter equal to the number of probes; and the counter's limit needs that.

`SqliteTransactionsProofs` proves `TransactionsAreAtomic` (`AllOrNothing`),
`AnswersAreDurable` (`AcknowledgedStays`) and `NoTransactionLeftOpen` for any
requests, both drivers, any number of writes and crashes. The argument is about
whose section runs: the mutex has one holder, a transaction is open only for the
holder, and every pending write is the holder's own or a bare write that went
round the mutex (`OneSection`, `PendingOwned`). `CoveredPending` then says that a
transaction that is still open covers all its writes, and that one which a nested
call has undone is open no more, so COMMIT stores all or fails.

`CommerceProofs` proves `CommerceTypeCorrect` (that stock and coupons never go
below nothing is part of the types) and `OrdersArePaidFirst` (`PaidFirst`) for any
requests, orders, lines and intents, however requests overlap and wherever they
break off. A status is written long after it was checked, so `PaidFirst` is not
inductive: `Sound` says what each request knows at each place (a confirmation past
its check has a paid intent of its order, an intent to be stored was created for the
order, what is decremented was at least one), and `SoundLater` that this stays true
while other requests move orders and intents on, because no intent is ever unpaid.
`CountsStayConserved` (`CountsConserved`) is an argument by counting, for any stock,
any orders and any number of calls that fail. `Out(p)` is the set of units off the shelf that somebody knows of: those of
open orders with their flag set, those a checkout has taken for the lines it is past,
those a cancellation or a refund has not come to yet. `Counted(p)` says that they and
the stock are never more than there was, and no fewer where nothing failed and no order
ran out half way (`Whole`).
Each write of stock moves exactly one unit in or out of `Out(p)`; the flag and the status
change hands without moving any (`InTurns` says what the one request under way knows
at each place); a request that breaks off, runs short or loses a write forgets what it
had. `Serial` takes the three writes of `Doubling` out, each of which would move a unit
that stays where it was. The coupon is counted the same way: `Uses` are the orders that
keep their discount, without those whose use is still to be counted and with those
whose use is still to be taken back, and while nothing failed or ran out with a coupon
(`CouponsWhole`) the count is their number.

`OutboxProofs` proves `OutboxTypeCorrect` (`TypeOK`) and `TicksKeptApart`
(`OneTickAtATime`) for any processes, ticks, events and limits, under every fault of
the model: `isProcessing` is set exactly while a tick is under way (`BusyTells`), and
a tick that ends was therefore the only one of its process.
`EventsAreKept` (`NoEventLost`) assumes `FaultFree`: no call of the database is
refused, no process crashes, no adapter is torn down, since each of these loses events;
flushes and deliveries may throw. Then no flush is stale and a batch is never overwritten
(`FlushTells`). `SettledRowsStay` (`SettledIsFinal`) assumes one polling process and
allows every fault: events in a buffer or batch have no row yet (`Unwritten`), and
what a tick has in hand is pending and in hand once (`InHand`), so neither a flush
nor a mark meets a settled row. With two processes both hold the same event.
`PublicationsCounted` (`AttemptsCounted`) assumes one process and `MaxFaults = 0`, for a
mark that is lost or refused leaves a publication uncounted; throws and losses of the
adapter are allowed. A tick's copy of `attempts` is the row's (`ReadIsCurrent`), and
every publication but one that is being marked is in it (`AllButLast`).

`ServerProofs` is about `ServerSpec`, the composition, for any instances, boots, jobs,
requests and faults. Its invariant is the conjunction of those of the parts:

- `MigTypeCorrect`, `OneMigratorAlways` (`OneMigrator`): who migrates holds the lock he
  took; while nothing crashes or fails, a lock that is taken means that the schema is
  there or somebody migrates. A failed attempt to lock, which counts as acquired, is
  the one exception to the first, and the property names it.
- `LoopsStayAccounted` (`LoopsAccounted`): `pollTimer` is null exactly while the
  scheduler is stopped, and a fired timer it still names belongs to a poll that has not
  ended (`TimerTells`), so each action adds a loop only when it is counted as a fork.
- `BootsNeverOverlap` (`SingleBoot`): a boot under way has its phase and its promise
  where the next caller looks (`BootIsSeen`), until somebody shuts the system down.
- `LossesAreAttendedTo` (`LossIsPending`): an instance whose connection is lost finds the
  timer free, or its own reconnection running; what suppresses the timer, while nobody
  shuts the system down, is another instance's reconnection, and then two have lost
  theirs (`Guards`).
- `ServerTypeCorrect` (`ServerTypeOK`) and `ServerKeepsPromises`: in the whole server the
  properties of the parts hold, those of the transactions above among them.

`CacheProofs` proves `TypeCorrect` and `ClearedStaysGone` (`ClearedIsGone`) for any nodes,
keys, mutations, fetches and lost messages. The local half rests on `OwnIsCurrent`:
what a node has read itself, stored or still under way, is no older than its own
invalidations, because an invalidation disowns what is being fetched. The half
about other nodes rests on `Spread`: every version that some node has invalidated is
done, in the inbox, or about to be told, at every node (`Reach`), as long as no message
is lost; when all is quiet it is done.

`SessionsProofs` proves `TypeCorrect`, `DeniedIsOver` (`InvalidIsOver`),
`EndedStaysForgotten` (`EndedIsForgotten`) and `BrowserStaysSignedIn` (`StaysSignedIn`) for
any requests, sessions, failing calls and lapses. A session id is handed out once
(`Fresh`), so what was denied or ended does not live later. A request for an ended
session that was not under way when it ended can only come out with nothing
(`Fading`), so it fills no layer. Where requests do not overlap, the one that
rotates has a session that lives to give to the browser until it has given it
(`SignedIn`).

Every safety property of the passing runs is proved, some under the hypotheses named
above; each hypothesis excludes what the code is seen to break the property with. Only
model-checked is liveness (`JobsSettle`, `EmittedIsSettled`, `StoredIsSettled`, `Recovers`,
`SchemaArrives`, `CallersReturn`, `InvalidationArrives`, `LiveIsRecognised`): it needs
fairness and ENABLED, which are beyond the prover. Beyond these hypotheses the theorems
assume of the constants what the named `ASSUME`s of the modules say.

## 5. Not modelled

Left out of the modules: the order rows are returned in (any subset of the right
size may come), the length of timers and backoff windows, payloads and handlers'
effects, prices, addresses and taxes, tenant identifiers other than the one guard
that matters, the recurring dispatches of the poll tick (they are ordinary
dispatches), deactivated services (`DISABLE_OUTBOX`), and statistics. Of the
sessions: the idle timeout and the cap on sessions, off by default, blocked
users (who are told "invalid" while their row is there, `handle-authentication.ts:422`,
`:477`), a deletion from the cache service that throws, and the copies other processes
keep. Of the cache: the distributed lock (who
does not get it waits and then fetches anyway, so it changes no value), the
negative cache, `invalidateAll` and warming; a deletion or scan of Redis that throws
before the message is published is to the other nodes a message that is lost. Of
transactions: the other adapters, which hand the function to their driver, and a write
that is started inside a section of the mutex and not awaited there, which may run after
its end (`sqlite/adapter-core.ts:52-55`). Of commerce: products and coupons that are
changed by an editor, carts, and the mail.

Components without a module:

- TOTP replay registry: one synchronous check and insert.
- Webhook configuration: an edit reads a cached list and writes it back, so two
  edits lose one; it is a hazard in `PROJECT.json` without a property.
- Audit chain: `createLog` computes an entry and stores nothing, and its one caller
  (`scheduler.ts:369`) does not look at the answer.
- System state: recomputed from the service states in the synchronous step that
  changes one of them.
- Response cache: keys and headers on top of `Cache`.
- Workflow and automation, content engine: rules and compilation over data.
- Query building, permissions, collaboration (Yjs), routes, plugins other than
  commerce, the user interface: sequential, data-heavy or a library's.

These, and all the code that renders, parses and converts, are most of the
repository's lines; the modules cover the part in which the order of steps decides.

## 6. Plan

1. The abstract register behind `Cache` as a refinement, and its proof.
2. A step-by-step version of the liveness arguments: lemmas on what each fair action
   makes progress on, from which the temporal part would follow.
3. Webhook configuration next to `Outbox`.
