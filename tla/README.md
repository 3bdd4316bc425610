# A verification model of the account service

TLA+ modules for the Go service in `src/` (an account API over PostgreSQL and
Redis, with a worker that runs a scheduled job and a Kafka consumer), the TLC
configurations that check them, and theorems proved with TLAPS. Paths below are
relative to `src/`. `PROJECT.json` maps every definition to the lines it stands
for and lists the runs, hazards, findings and theorems.

## 1. The system

### Processes and what they share

One binary with three commands (`cmd/`), assembled from one container
(`internal/apps/container.go`):

- **server**: the HTTP and gRPC API. Both transports call one account use case.
- **worker**: a ticker job guarded by a Redis lock, and a Kafka consumer. Several
  replicas may run.
- **migrate**: creates the schema. server and worker do the same when they boot, unless
  POSTGRES_MIGRATE says otherwise.

They share PostgreSQL, Redis (cache, lock and rate limiter) and a Kafka topic.
There is no shared memory between calls except the connection pool, and the cache if the
in-process manager is chosen.

### Components

| component | state | operations | interacts with | modelled in |
|---|---|---|---|---|
| account use case (`internal/core/usecase/account`) | none of its own | Create, Get, List, Update, Delete | cached repository, transaction manager, limiter, password service | `AccountService`, `AccountBackends`, `AccountListing` |
| cached repository and cache manager (`internal/adapter/repo/cached`, `internal/adapter/cache`) | entries by id and by lower-cased e-mail, with a TTL: in Redis (wired) or in the process | read through, populate, evict | GORM repository, Redis | `AccountService` |
| GORM repository, transaction manager (`internal/adapter/repo/gorm`, `internal/infra/db`) | table `accounts`, open transactions, pool | insert, partial update, delete, reads, list | PostgreSQL | `AccountService`, `AccountTypes`, `AccountListing` |
| distributed lock and scheduled job (`internal/adapter/lock`, `internal/apps/worker`) | Redis key with token and TTL; ticker of each replica | acquire, release, run the job, stop | Redis, use case | `HousekeepingLock` |
| event consumer (`internal/adapter/kafka`) | committed offset of the group; position of each reader | fetch, decode, handle, commit | Kafka | `EventConsumer` |
| repositories and transaction managers for pgx+sqlc and MongoDB (`internal/adapter/repo/sqlc`, `.../mongo`; not wired) | as the table; sessions that conflict instead of waiting | as GORM | database | `AccountBackends`, `AccountListing` |
| HTTP and gRPC handlers, validation, error mapping (`internal/adapter/http`, `internal/adapter/grpc`, `internal/infra/apperr`, `httpx`, `grpcx`) | none | one per endpoint | use case | `AccountTransport`, `ProcessLifecycle`, `AccountListing` (List's parameters) |
| rate limiter (`internal/adapter/limiter`, `internal/domain/limiter.go`) | one time per action and e-mail, in Redis | Limit | Redis | `RateLimiter`; a nondeterministic verdict in `AccountService` |
| password service | none | Hash, strength | | three cases in `AccountTypes` |
| process lifecycle (fx hooks, HTTP and gRPC servers) | started and stopped parts, open calls | start, listen, drain, stop, roll back | everything | `ProcessLifecycle` |
| configuration and migrations (`internal/infra/config`, `internal/infra/db/migrate.go`, `internal/apps/migrate`) | the version table with its dirty mark, the advisory lock | boot, migrate | database | `ProcessBoot` |
| logging, metrics, tracing, generated messages and stubs | | | | not modelled |

### What is hard here

- **The wired cache takes no account.** `NewRedisManager` puts eko's cache over go-redis
  without a marshaler, and `*domain.Account` implements none: every Set fails, and with it the
  read, or the update, that wanted to cache.
- **The cache is outside the transactions.** (With the in-process manager, which stores.) A write evicts its key before COMMIT,
  Update reads its own row back into the shared cache before COMMIT, Create may be
  told by the cache that an e-mail is taken, and e-mail entries are never evicted.
- **Check, then act.** The e-mail is checked before the INSERT; only the unique
  index closes the gap. Partial updates of one row overlap.
- **One pool.** A call that holds a connection and waits for a row lock, while the
  holder of the lock needs a connection, would stop everything.
- **A lock with a TTL.** Releases come late, get lost or are executed although the
  client saw a timeout; replicas crash between SET NX and release.
- **Offsets are watermarks.** A commit covers every earlier message, whoever
  handled it; rebalances and crashes fall between fetch, handling and commit.
- **Stopping.** Parts share clients, are stopped one after the other against one
  deadline, and wait for their calls in different ways or not at all; a listener
  may fail after Start has succeeded, a panic is recovered here and fatal there.
- **Booting.** Several processes migrate one database at once, and one may be killed in
  the middle; the migration also keeps a connection of the pool that serves calls.
- **Other backends.** "Swap the backend in the composition root — the core never
  changes": the core then relies on row locks, unique indexes and waiting that another
  backend does differently or not at all.
- **A budget in Redis** shared by spellings of one e-mail, used up also by calls that
  hear an error, and refilled while it is spent.
- **A page and its total are two queries**, and a client pages on by the total
  while rows come and go.

What makes each component correct: e-mails are unique and no update is lost
(use case); the cache agrees with the table when nothing is under way, and in the
end in any case (cached repository); every call is answered (pool); jobs do not
overlap unless one outlives its lock, locks do not stay, the job keeps running (worker); no message is passed
over (consumer); pages fit their total and one another (List); callers hear the
truth, the same over both transports, and no part is stopped before those that
need it, nor serves before its schema is there (process); a caller is refused for its
own calls only, and not for longer than it was told (limiter).

## 2. The modules

`AccountTypes` has the data and the pure parts: statuses, requests, error codes,
the account a Create builds (`NewAccount`), what a partial update leaves
(`Patched`). An e-mail is an opaque value with a lower-case form `Lower[e]`; a
password is weak, acceptable or too long for bcrypt. Passwords, timestamps and
the wording of errors are left out.

`AccountTable` is the abstract specification: one table, one indivisible step for
each write, answers that tell the truth. It knows no cache, transaction or pool.

`AccountService` is the code. A call is a client that goes through the steps of
its operation; it is cut wherever it touches something shared:

| action | code |
|---|---|
| `Start`, `Admit` | a call arrives; limiter and validation with their early returns |
| `Begin`, `BeginFails` | `WithTx` takes a connection of the pool |
| `Lookup`, `Load`, `LoadFails`, `Store` | `Manager.GetOnce`: Get, load from the database, Set; each can fail on its own |
| `Statement`, `StatementFails` | INSERT, UPDATE, DELETE under READ COMMITTED, blocked by the row locks and index entries of others |
| `Evict` | `invalidate`: its error is swallowed |
| `Commit`, `CommitFails`, `Rollback` | end of the transaction; a failed COMMIT may have taken effect |
| `Cancel` | the caller's context ends or the process dies |
| `Expire` | the TTL of a cache entry |

`AccountProperties` states what it should guarantee, with the inductive invariant
`IInv` and the refinement mapping to `AccountTable`. `IInv` is `RowInv`, which holds
whether or not e-mail has a unique index, and `EmailInv`, which needs the index.
It also says what every copy of an account has in common (`CopiesAgree`, over table,
cache, open transactions and calls) and which answers a request may get
(`OutcomesListed`, in the terms of `AccountTransport`).
`AccountProofs` has the proofs. `MCAccount` has the instances.

`Manager` says which cache manager is wired. `"redis"` is what `CacheModule` provides: a
Set of an account always fails (`Store`), so no entry ever exists (`NothingStored`), and a
string under a key would be no account (`Decoded`); Get and Delete may fail too.
`"memory"` is the one its comment (`internal/apps/provider.go:106-107`) and the
repository's README (line 52) offer instead: it stores the pointer and answers it, and
none of its calls fails. One process is modelled, and so one such cache. Everything about
stale entries is about this manager; with Redis there is nothing to be stale.

`MaxConns` is what is left of the pool: `postgres.WithInstance` in `RunMigrations`
takes one of its connections and nothing closes it (`internal/infra/db/migrate.go:23`).

`AccountBackends` extends it by the other repositories. A process chooses its
`backend` once: `gorm` is `AccountService`; `sqlc` reads and writes through the
generated queries under the same PostgreSQL, without the cache; `mongo` has sessions
that hold no connection, write conflicts instead of waiting, and no unique index,
since nothing calls `EnsureIndexes`; `indexed` is MongoDB after that call. `Admit`,
`Commit`, `Rollback` and the failures are those of `AccountService`, because the use
case is the same. `overlapped` is a history variable: two calls have been in progress
at once. Who waits for a connection or a row, and that nobody waits in a circle
(`NoCircularWait`), is stated here too, with what lets calls end (`CallsGoForward`) and
entries stay fresh (`FreshnessLasts`), and what a Get answers (`GetServesCommitted`). `BackendProofs` proves what holds on every backend,
`SerialProofs` what holds as long as calls do not overlap.

`RateLimiter` is the budget behind `Limit`. The library's script is external; per key
it stores a time, modelled by how far it is `ahead` of the clock, grants a unit if
there is room and refuses without storing anything otherwise. `LimitFails` is a unit
used by a script whose answer was lost; an error before the script ran changes
nothing. An observer watches one caller, any of them, and counts from any moment it
likes. `LimiterProofs` and `MCLimiter` go with it.

`HousekeepingLock` has one goroutine per replica and discrete time. `Advance` is
one unit: the key's TTL, the tickers and the job's age move together, so there is
no clock to bound. A ticker's channel has capacity one and drops ticks when full.
`late` holds release commands that arrive after their client gave up.
`HousekeepingProofs` and `MCHousekeeping` go with it.

`EventConsumer` is one partition read by a group. The broker is external and
modelled by what `Consumer.Run` relies on: an assigned reader goes on from the
committed offset; the broker stores what is committed, also by a member that has
lost the partition meanwhile. `failed` is a history variable: the offsets whose decode or
handler error has been logged. `EventConsumerProofs` and `MCConsumer` go with it.
`EventLog` is its abstract specification: one reader of the partition, which takes the
messages in order and moves the offset only behind a handled one. Consumers and
assignments do not occur in it; `ImplementsLog` says that the group behaves like that.

`AccountListing` is List from the transports' parameters (missing, malformed,
out of range) to the three repositories, with count and page as separate steps,
in the order each repository has them, and a client that pages on. A page is the
set of its accounts: their order inside the page is left out, and a query is
taken to see one state of the table. Each query picks its own order among those its
ORDER BY allows (`Orders`): nothing makes `created_at` unique and no query breaks a tie,
so two accounts of one instant may change places between two pages; GORM's query allows
any order at all. `MCListing` goes with it. `ListingProofs`
goes with it too.

`AccountTransport` is pure: which flaws a request can have over HTTP and over gRPC,
which of them each transport refuses before the use case, which errors the use
case may answer with, and the status or code either transport makes of them. That
the use case answers with nothing else is `OutcomesListed`.

`ProcessLifecycle` is a server or worker process under fx. A hook is one entry of a
sequence (tracing, Redis, then API, gRPC, health for the server or probe, consumer,
job for the worker) and `started` is how far fx has come:

| action | code |
|---|---|
| `StartHook`, `StartFails`, `Started` | the OnStart hooks in order; the tracer and the gRPC listener can return an error, the HTTP servers only launch a goroutine |
| `Listen` | `ListenAndServe` in that goroutine, which may find its address in use |
| `Signal`, `Drain`, `StopServer`, `StopOther` | OnStop in reverse order: `Shutdown` and `GracefulStop` close the listener and wait for the open calls; nobody waits for the goroutines of consumer and job |
| `Exit`, `Expire` | the end of the process: all stopped, or START_TIMEOUT or STOP_TIMEOUT is over |
| `Arrive`, `HttpCall`, `GrpcCall`, `ReadyCall`, `OtherCall` | a call of any operation of either transport, a probe, a health watch, background work |
| `Panics` | recovered and rendered by the API, recovered by net/http elsewhere, fatal in gRPC and goroutines |

fx, net/http and gRPC are external: modelled by what the hooks rely on.
`ProcessProofs` and `MCProcess` go with it. What a use case does is left to
`AccountService`: here it is one of the outcomes `AccountTransport` lists.

`ProcessBoot` extends it by what comes before the first hook:

| action | code |
|---|---|
| `Configure` | `GetConfig`, which panics on a variable it cannot parse |
| `Open` | `gorm.Open` in `NewGormDB`; without `POSTGRES_MIGRATE` the container is built then |
| `Migrate` (`RefuseDirty`, `RefuseVersion`, `NoChange`, `Mark`), `LockTimeout`, `Apply` | `RunMigrations`: under the advisory lock, look at the version, mark it dirty, run the SQL, clear the mark |
| `Killed`, `Restart` | a signal, which nobody handles yet; whoever runs the process starts it again |
| `OtherMarks`, `OtherEnds` | another replica or the migrate command on the same database |

Only then does `ProcessLifecycle!Next` run; `BootsIntoLifecycle` proves that its
theorems carry over.

Operators marked "Mutant" are wrong on purpose: each shows that the property
named for it in `PROJECT.json` fails when the code has that bug.

## 3. The runs

| run | instance | what it shows |
|---|---|---|
| `account_faults` | 2 clients, 2 ids, two spellings of an e-mail, 2 connections, the 4 backends, GORM behind the Redis cache as it is wired, all faults | `BackendsImplementTable`: each backend implements `AccountTable`, a duplicate e-mail on MongoDB without index excepted; `SerialUnique`; `NoCircularWait`; `OutcomesListed`; `UncachedExistsJustified`; `OnlyRereadBreaksWrite`; and the inductive invariant `BackendInv` |
| `account_updates` | 3 clients, 1 id, 2 connections, GORM behind the in-process cache and MongoDB, failing statements | `Linearizable`: the service implements `AccountTable`; while calls do not overlap, Update answers with the row it commits (`UpdateReturnsRefreshed`) |
| `account_liveness` | 2 clients, 2 ids, two spellings, every kind of request, refusals included, a pool of 2 of which the migration holds 1, the in-process cache, all faults but those of Redis | `EveryCallAnswered`, `CacheConverges`, `CacheNeverBreaksWrite`, `CopiesAgree` |
| `limiter` | an action with a policy (2 per 4 ticks, burst 2) and one without, two spellings and another e-mail | `WithinPolicy`, `RefusedForOwnCalls`, `RetryAfterSuffices`, and the inductive invariant `BudgetInv` |
| `housekeeping` | 2 replicas, interval 2, TTL 2, jobs up to 3, one late release | `OverlapNeedsOverrun`, `OnlyOwnRelease`, `JobKeepsRunning`, and the inductive invariant `LockInv` |
| `consumer` | 2 consumers, 4 messages, the second one undecodable, all faults | `ImplementsLog`: the group implements `EventLog`; `AllHandled`, and the inductive invariant `ConsumerInv` |
| `listing` | 3 accounts, 2 statuses, the 3 repositories, any creation times, pages of 1 and 2 and 8 other kinds of request, int32 shrunk to -4..3 | `PageFitsTotal`, `WalkExact`, `AddsHideNothing`, `RemovalsRepeatNothing`, `TiesOnlySwap`, and the inductive invariant `WalkInv` |
| `process` | both commands, with and without migration, 2 calls, every fault of boot and lifecycle | `ServesMigrated`, `MarkStays`, `BootEnds`, `RedisOutlivesCalls`, `CleanExit`, `FailureTold`, `TransportsAgree`, `StopEnds`, and the inductive invariants `BootInv` and `LifecycleInv` |

Runs that find a disagreement between code and comment, each with one property
taken from the comment:

| run | comment | what happens |
|---|---|---|
| `finding_write` | "Cache failures never break a write" (`internal/adapter/repo/cached/account.go:21`) | with the wired Redis cache the re-read of an update cannot be stored, the error ends the transaction, and the written row is rolled back: every update fails. (A Get that has loaded its account answers the same error.) |
| `finding_overlap` | "grants mutually-exclusive named locks" (`internal/adapter/lock/lock.go:32`) | a job that outlives the TTL loses its lock, which nobody renews, and another replica runs it at the same time |
| `finding_twice` | "only one worker instance executes it per tick" (`internal/apps/worker/worker.go:96`) | tickers have their own phase and the lock is freed when the short job ends: two replicas run it in one interval |
| `finding_skipped` | "left uncommitted so it is redelivered" (`internal/adapter/kafka/consumer.go:48`) | the commit of the next message passes over the failed one |

### Why the bounds are enough

- Two clients make every pairwise race between a write and a read or another
  write. In `account_faults` one request updates an account to a status there is not, so
  that an answer of validation occurs besides those of the database. Three in
  `account_updates` add one that waits for a row lock, one that
  holds it and one that reads, with one connection fewer than callers.
- In `account_liveness` one connection is left: the smallest pool that serves at all,
  where a call that needed a second connection would wait for itself.
- `account_updates` has one backend that waits and one that conflicts; the other two
  differ from them in the e-mail, which `account_faults` is about.
- Two ids let a delete and a create with the same e-mail overlap. Ids are not
  drawn again (they are UUIDs), so the table's history is bounded by `Ids`.
  Two names and a status tell the two fields of a partial update apart.
- In `housekeeping` jobs may end within the TTL or outlive it, and the interval is no
  longer than the TTL, so ticks meet held, abandoned and expired locks. Four tokens are enough: when
  a SET NX succeeds, at most the other replica's token and one late one are in
  use. `MaxLate` caps commands under way. The instance of `finding_twice` has no faults at all.
- Four messages have one before and two behind the undecodable one, and any of them may
  fail in the handler. Two consumers allow a former owner's late commit while the other
  one reads on; `ConsumerInvariance` is proved for any number.
- Three accounts give three pages of one or two pages of two; `Half = 4` makes
  limit 5 and offset 7 exceed the int32. Each account takes any of three times, so none,
  two or all of them are tied.
- In `limiter` a period is 4 ticks and the observer watches up to `Horizon` = 6, so every
  window of a period is seen, wherever it begins; a burst of 2 on top of a rate of 2
  lets the bound of 4 be reached. `spent` stops at the burst.
- Other processes boot in `process` only until this one is built: afterwards it never
  looks at the version again. Restarts are unbounded, kills too.
- Two calls in `process` are enough for one that keeps a server from stopping while
  another meets what has been stopped, and for the same error over both transports.
  Calls are used once. The run does not check for deadlock: a process ends.

### Fairness

- `AccountService!FairSpec`: strong fairness of each call's steps. A goroutine is
  scheduled; `database/sql` hands a free connection to one of the waiters (in order in
  older versions of Go, to one at random in newer ones), PostgreSQL serves those who wait
  for a row lock in order, and at any time only finitely many wait, so nobody is
  passed over for ever. Weak fairness of `Expire`: the cache drops expired entries.
  Failures are not fair, except that they are among the outcomes of a step.
- `HousekeepingLock!FairSpec`: time goes on, goroutines that can step do. Nothing
  makes a process restart or a late command arrive.
- `EventConsumer!FairSpec`: loops are scheduled and the group gives a free
  partition to a member.
- `ProcessBoot!FairSpec`: the code of the boot runs on, another process applies its
  migration or dies; then fx goes on and handlers return. No deadline need pass, and
  nobody need restart a process that failed. Watchers of the health service and
  background work may take for ever, and listeners may come late.

Premises of the liveness properties are written in the formulas: `CacheConverges`
assumes that writes cease; `JobKeepsRunning` that replicas stop coming and going,
one is up, and Redis answers those that find the lock free; `AllHandled` that the
partition stays with a running consumer; `StopEnds` speaks of a stop with no watcher of
the health service, which `GracefulStop` would wait for: once the last one has left, every
hook returns and the process ends without its deadline.

## 4. What is proved

| theorem | for every value of the constants |
|---|---|
| `AccountProofs!Invariance` | `Spec => []IInv` |
| `AccountProofs!TypeCorrect` | every variable keeps its type |
| `AccountProofs!EmailsUnique` | `UniqueEmail` |
| `AccountProofs!CacheIsOptional` | `CacheNeverBreaksWrite`, assuming the in-process cache |
| `AccountProofs!OnlyUpdatesBreak` | `OnlyRereadBreaksWrite`, with either cache |
| `AccountProofs!ImplementsTable` | `Linearizable`: every step of the service is a step of `AccountTable` or a stutter |
| `BackendProofs!BackendInvariance` | `BSpec => []BackendInv` |
| `BackendProofs!BackendsAreTables` | `BackendsImplementTable` |
| `BackendProofs!NobodyWaitsInCircles` | `NoCircularWait` |
| `BackendProofs!AnswersAreExpected` | `OutcomesListed`: `ProcessLifecycle` may rely on it |
| `BackendProofs!CopiesStayTrue` | `CopiesAgree` |
| `BackendProofs!UncachedRefusalsAreTrue` | `UncachedExistsJustified` |
| `BackendProofs!FreshnessIsLasting` | `FreshnessLasts` |
| `BackendProofs!CallsOnlyGoForward` | `CallsGoForward` |
| `SerialProofs!SerialInvariance` | `BSpec => []SInv`, what holds until calls overlap |
| `SerialProofs!SerialEmailsUnique` | `SerialUnique` |
| `SerialProofs!SerialCacheFresh` | `SerialIdCoherent` |
| `SerialProofs!UpdateAnswersItsRow` | `UpdateReturnsRefreshed` |
| `SerialProofs!GetAnswersItsRow` | `GetServesCommitted` |
| `LimiterProofs!BudgetInvariance` | `Spec => []BudgetInv` |
| `LimiterProofs!PolicyHolds` | `WithinPolicy`, for every policy whose interval is a whole number of ticks |
| `LimiterProofs!RefusalsAreOwn` | `RefusedForOwnCalls` |
| `LimiterProofs!WaitingSuffices` | `RetryAfterSuffices` |
| `HousekeepingProofs!LockInvariance` | `Spec => []LockInv` |
| `HousekeepingProofs!Exclusion` | `OverlapNeedsOverrun`, for any TTL and job length |
| `HousekeepingProofs!ReleaseIsOwn` | `OnlyOwnRelease`, for any TTL and job length |
| `HousekeepingProofs!LocksRunOut` | nothing but time changes the TTL of a lock that is held |
| `EventConsumerProofs!ConsumerInvariance` | `Spec => []ConsumerInv` |
| `EventConsumerProofs!AtLeastOnce` | `NoneLost` |
| `EventConsumerProofs!AtLeastOnceWithoutErrors` | no decodable message is passed over, assuming no handler fails |
| `EventConsumerProofs!GroupIsOneReader` | `ImplementsLog`: every step of the group is a step of `EventLog` or a stutter |
| `ProcessProofs!LifecycleInvariant` | `Spec => []LifecycleInv` |
| `ProcessProofs!RedisOutlivesEveryCall` | `RedisOutlivesCalls` |
| `ProcessProofs!EveryExitIsClean` | `CleanExit` |
| `ProcessProofs!ToldInvariance` | `Told`: an answer is what its transport makes of the outcome |
| `ProcessProofs!EveryFailureIsTold` | `FailureTold` |
| `ProcessProofs!TransportsAlwaysAgree` | `TransportsAgree` |
| `ProcessProofs!BootsIntoLifecycle` | `BootSpec => Spec`: a booting process is a process of `ProcessLifecycle` |
| `ProcessProofs!BootedProcessesKeepTheirPromises` | `LifecycleInv`, `RedisOutlivesCalls`, `CleanExit`, `FailureTold`, `TransportsAgree` under `BootSpec` |
| `ProcessProofs!BootInvariance` | `BootSpec => []BootInv` |
| `ProcessProofs!EveryCallFindsItsSchema` | `ServesMigrated` |
| `ProcessProofs!MarksAreForGood` | `MarkStays` |
| `ListingProofs!WalkInvariance` | `Spec => []WalkInv` |
| `ListingProofs!TotalsFitPages` | `PageFitsTotal` |
| `ListingProofs!WalksAreExact` | `WalkExact`, for any creation times |
| `ListingProofs!CreationsHideNothing` | `AddsHideNothing` |
| `ListingProofs!DeletionsRepeatNothing` | `RemovalsRepeatNothing` |

**Account service.** `UniqueEmail` alone is not inductive: COMMIT makes a pending
row visible, and the invariant must say what that row is. `IInv` adds that an
uncommitted write is the effect of its request on the row committed *now*
(`WriteIsEffect`: row locks keep anyone else from changing it, so no update is
lost), that open transactions write different rows and insert different e-mails
(`RowsDisjoint`, `EmailsDisjoint`), that ids are drawn once (`IdsDrawn`), and where the control
may be while a write is open (`ControlOK`). What the cache holds occurs in none of them:
that is the reason why stale entries never damage the table. (`NothingStored` says that
the Redis cache holds nothing.) `WriteIsEffect` is also
what makes COMMIT a step of `AccountTable`.

The proof first shows that types and control are kept (`TypeStep`,
`ControlStep`), then reduces each step to one of a few kinds of change to rows
and pending writes (`DataStep`), and treats each kind once (`CommitRows`,
`WriteRows`, `IdleStep`; for e-mails `CommitEmails`, `InsertEmails`,
`OverwriteEmails`). Assumptions: those of `AccountTypes` and
`AccountService` on the constants.

`CacheNeverBreaksWrite` follows from `WriteIsEffect` too: the re-read of an update finds
the row its own transaction has written (`SeesItsRow`), and the in-process cache takes it.
Redis does not (`finding_write`); `OnlyRereadBreaksWrite` is what remains true with both,
and behind Redis `NothingStored` leaves no entry that could refuse an e-mail (`RefusedStep`).

**Backends.** `RowInv` occurs without the unique index, so one proof serves all four:
PostgreSQL waits where MongoDB fails, and either way nobody writes a row another open
transaction has written. A step of another backend is reduced to the same kinds of
change, and a COMMIT is a step of `AccountTable` or, only without an index, the storing
of a duplicate. While calls do not overlap the only open transaction is one's own
(`Alone`), so the look-up of a create has seen every e-mail, and an eviction before
COMMIT is as good as one after it (`SInv`).

**Waiting.** A call that has written a row is past the only statement that can block, and
its reads run on the connection it has (`WritersGoOn`). Rows and e-mails are held by such
calls only (`BlockedByWriter`). If none has written anything, nobody waits for a row, so
whoever holds a connection goes on, and an exhausted pool that is not empty has a holder.
That each wait then ends is liveness and model-checked (`EveryCallAnswered`). What it
needs besides is proved: each step of a call lowers `StepsLeft`, from at most ten
(`ForwardStep`), so no call goes round in a loop.

**Answers.** A call ends with the code of the step that ends it or, after a roll-back, with
the code of the step that failed (`AbortsListed`). Past `Admit` an update has a status
that exists (`ControlOK`), so "invalid status" is the answer of `Admit` alone. `Expected`
unfolds what `AccountTransport` lists for each operation, `StepSettles` compares each step
with it. A request without its id is left out: both transports refuse it before.

**Copies.** Whatever a step puts into a row, a transaction, the cache or a call is a copy
it has found under the same id, patched at most in name and status (`HeldStep`,
`ReadStep`), or the row of a create, whose id has no copies because it has not been drawn
before (`CopiesKnown`). The invariant is needed as a whole: what is true of the cache rests
on what calls have loaded, and that again on the cache.

**Freshness.** Only a COMMIT changes a row (`RowsStep`). Without an update or a delete of
an account its row can only appear (`RowStays`), and as it was not there, neither cache
nor reader holds anything under its id. A reader on its way to the cache comes from a
query that saw committed rows (`StoreComesFromLoad`), because only a transaction that has
written sees others, and its own call is a write. So `FreshId` and `FreshEmail` are kept
by everything but the writes the property names. `CacheConverges` says that entries
become fresh in the end, by expiry; this is why they stay so, and it is proved.

**Get.** `SerialCache` in `SInv` says what a Get holds that has loaded its row, and that the
id entries agree with the table whenever nobody is about to commit. `HitOnly` and
`SerialCache` together are `GetServesCommitted`. Their premises are that no COMMIT fails and
no call is cut off, either of which leaves the cache behind by itself.

**Where no cache answers** (on sqlc, on MongoDB, on GORM behind Redis). "Already exists" then comes from a query or from the unique
index; a create that looks has written nothing, so it sees committed rows only.

**Limiter.** `BudgetInv` bounds what is stored from both sides: what has been granted
since the observer began to count is at most what is stored plus what has been paid off
since (hence `WithinPolicy`: a burst and one period's rate), and what is stored is at
most what the caller itself has used since it last owed nothing (hence
`RefusedForOwnCalls`). The argument is arithmetic with the interval as a factor and
needs that a policy's period is a multiple of its rate.

**Lock.** `OverlapNeedsOverrun` rests on `HeldForTTL`: a working replica's token is in
the key for exactly TTL, so two workers that are both within it would have one
token. That jobs end within it nothing ensures (`finding_overlap`). `TokensApart` says tokens differ, those of late commands included; without
that a late release could free a later holder's lock. `LocksRunOut` says that
the TTL of a lock that is held goes down with time and never up: an abandoned lock ends,
which `JobKeepsRunning` rests on.

**Consumer.** `NoneLost` needs `PassedHandled`: everything a consumer has gone past
has been handled or has failed, except what it has in hand; a commit then covers such
messages only, even if it comes from a former owner. Without handler errors only
undecodable messages fail, which leaves nothing else to be skipped. The same invariant
makes each step of a consumer, current or former owner, a step of the one reader of
`EventLog` or a stutter (`LogStep`): what a consumer has in hand or commits is in its turn.

**Process.** `LifecycleInv` says that hooks up to `started` are up and those above it
are down (`InOrder`), that parts of the other command do not exist (`OnlyHooked`),
that who serves a call is open or draining (`ServedByServers`), and which ends leave
nothing started (`EndsKnown`). Redis is hook 2: once it is closed, `started` is at
most 1, so every server is closed or was never open, and serves nobody. A clean exit
has `started` = 0, and the same argument covers all parts. `BootInv` says that who holds
the advisory lock is in the middle of the migration and that no hook is up before the
container is built; a migrating process that is built has found or made the schema, and
the schema stays.

**Listing.** `End` is the index the client's pages have reached and `Newer(i)` the index
of a row. A deletion makes indexes smaller (`RemoveMoves`), so a row already shown stays
before `End` (`NoneTwice`); a creation makes those of old rows larger (`AddMoves`), so a
row not shown yet stays behind it, and a count made after the page counts it
(`NoneMissed`). A query may put the rows
of one instant in any order, but one whose creation time nobody shares (`Alone`) gets
`Newer(i)` whatever order is chosen (`IndexOfAlone`); the walk properties are about those,
and other rows' ties do not disturb them. `PageOf` says that a page is exactly the rows
between two indexes of the order it picked, and as an order is a bijection, there are as
many as indexes (`RowsBetween`): `PageFitsTotal` follows (`PageExact`), ties or not.

Only model-checked: liveness (`EveryCallAnswered`, `CacheConverges`,
`JobKeepsRunning`, `AllHandled`, `StopEnds`, `BootEnds`), which the proof system does
not reach, and `TiesOnlySwap`, a sum over the accounts of one instant. Every other safety
property a passing run checks is proved as well. Some more are proved and stand in no run:
`NoneLost` is a conjunct of `ConsumerInv`; `SerialIdCoherent` is what makes
`GetServesCommitted` true when Get is answered by the cache; `CallsGoForward` is the step
relation behind "calls end", and `FreshnessLasts` that behind `CacheConverges`.

## 5. Seen while modelling, without a run of its own

- With the in-process cache the eviction comes before COMMIT: a reader in between caches the
  old row again, against `internal/adapter/repo/cached/account.go:69-70`, and nothing evicts
  it before the TTL ends. With Redis there is no entry, and no run of the wired program.
- With the in-process cache e-mail entries outlive their account, and two spellings share
  one: until the TTL ends, Create may answer "already exists" for an e-mail no row has,
  against `internal/core/usecase/account/account.go:188-189`. Also not with Redis.
- With the in-process cache, Update's re-read inside the transaction may be answered by an entry another
  reader has just put there, or caches a row that then rolls back.
- A worker that stops releases with a cancelled context: its lock stays until the
  TTL.
- The sqlc repository sends `LIMIT 0` for "no limit" and wraps limits beyond
  int32; `PageFitsTotal` names the filters it honours.
- GORM's List has no ORDER BY, so its pages need not fit together; `WalkExact`,
  `TiesOnlySwap` and `RemovalsRepeatNothing` exclude it. The other two order by
  `created_at` alone, so of two accounts of one instant a walk may show one twice and the
  other not at all; `TiesOnlySwap` says that this is all that happens.
- MongoDB's List counts before it reads the page, so an account created in between
  can push an old one past the end the client sees; `AddsHideNothing` holds for
  the order sqlc uses and is stated for it.
- Nobody calls `EnsureIndexes`, so the MongoDB backend would store one e-mail twice when
  two creates overlap (`StoresDuplicate`, the exception in `BackendsImplementTable`).
- A write conflict of MongoDB is answered "internal" and not retried, where PostgreSQL
  waits.
- `RunMigrations` never closes its migration, so one connection of the pool is gone for
  good. With POSTGRES_MAX_OPEN_CONNS = 1 and migration on boot no call could be served.
- A process killed in the middle of the migration leaves the version dirty: every later
  boot that migrates fails until somebody repairs it (`MarkStays`).
- The limiter is a leaky bucket, not the sliding window `internal/adapter/limiter/limiter.go:20`
  names: a window of a minute may grant Rate + Burst, twice the rate.
- `Run` returns on a fatal reader error and is not called again, while its reader
  keeps the partition.
- An HTTP server that cannot bind logs the error and nothing else happens: the
  process looks started (`internal/infra/httpserver`).
- gRPC has no recovery interceptor, so a panic in one call ends the process, where
  HTTP answers 500.
- `GracefulStop` ignores its context: an open health watch uses up STOP_TIMEOUT,
  and HTTP requests that are still open then are cut off.
- The worker's stop hooks cancel and do not wait: a job or message in hand can meet
  a closed Redis client.

## 6. Not modelled

- Timestamps `created_at` of accounts in the service, `updated_at`: no code decides
  on them (List orders by `created_at` and models it). `updated_at` is read from the clock
  before the row lock is waited for, so it can go backwards; nothing reads it back.
- `int32(total)` in the gRPC answer of List (`internal/adapter/grpc/account.go:78`) wraps
  beyond 2^31-1 accounts.
- Several processes with an in-process cache each: an eviction reaches only one's own.
- Singleflight does not occur: `GetOnce` is "get, load, set" without merging of
  concurrent loads, and so it is modelled.
- SetMulti, Set and Get of the cache manager have no caller in the wired program.
- The validator, random, correlation and common helpers: stateless and mostly unused.
- Logging, metrics, tracing, generated messages and stubs: no state a property
  could be about. Configuration values are CONSTANTS or choices of `Init`.
- The down migration has no caller.

## 7. How it was built, and what is open

In this order: `AccountTypes`, `AccountTable`, `AccountService` with its properties and
proofs; `HousekeepingLock` with proofs; `EventConsumer` with proofs; `AccountListing`;
`AccountTransport` and `ProcessLifecycle` with proofs; `AccountBackends` with
`BackendProofs` and `SerialProofs`; `RateLimiter` with proofs; `ProcessBoot` with proofs;
`ListingProofs`; `EventLog` and the refinement to it, freshness, what Get answers, and the
safety halves of `EveryCallAnswered` and of the end of an abandoned lock.

Hazards without a property (see `PROJECT.json`) are states the model has, or data it
leaves out, of which the code promises nothing: a reader that ended, background work that
meets closed clients, the pages of a query without an order.
