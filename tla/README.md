# A TLA+ model of Syncra

Syncra is an offline-first synchronisation system: a browser SDK keeps records
and a queue of pending operations in IndexedDB, pushes them to an API server,
and pulls the changes of other clients. This directory holds TLA+ modules that
model its protocol, TLC configurations that check them on small instances, and
proofs that TLAPS checks for every instance.

Run everything from this directory:

    tlc -config server_safety.cfg MCSyncServer.tla      (any run of PROJECT.json)
    tlapm SyncServer_proofs.tla                         (and the other *_proofs modules)

## 1. The system

### Components

| Component | Code | State | Operations | Module |
|---|---|---|---|---|
| Operation processor | `apps/api/src/sync/sync.service.ts` | tables `records`, `versions`, `tombstones`, `sync_operations`, `events`, sequence `records_cursor_seq`, row locks | `checkIdempotency`, `applyOperation` (create, update, delete), `processOperations` | `SyncServer` |
| Direct record API | `apps/api/src/records` | `records` | `create`, `findAllByUser` | `SyncServer` |
| Job queue | `apps/api/src/sync/sync-queue.service.ts`, `sync.controller.ts` | BullMQ jobs in Redis: waiting, active, delayed, completed, failed; attempts; locks | `push`, worker, `getJobStatus`, the client's `pollJobStatus` | `JobQueue`; its effects in `SdkClient`, `SyncServer` |
| Delta pull, server side | `SyncService.getSyncUpdates` | `client_cursors` | two SELECTs above a cursor, cursor upsert | `DeltaPull` |
| Delta pull, client side | `SyncraSDK.pullDelta` | local records, `lastCursor` | page loop | `DeltaPull` |
| Sync client | `apps/sdk/src/syncra-sdk.ts`, `db/*`, `retry.ts`, `errors.ts` | IndexedDB stores `records`, `offline_queue`, `metadata`; in-memory copies | `createRecord`, `updateRecord`, `deleteRecord`, `sync`, `pollJobStatus`, `applyRetryLogic`, `initialize` | `SdkClient` |
| Network state | `apps/sdk/src/network-state-manager.ts`, constructor and `destroy` of the SDK | `_isOnline`, listeners, the timer of the periodic sync | browser events, periodic HEAD check | `NetworkState` |
| Projects and API keys | `apps/api/src/projects` | `projects`, `api_keys` | create, rotate, validate, delete | `ApiKeys` |
| Authentication | `apps/api/src/auth` | `users`, `refresh_tokens` | register, login, refresh | `RefreshTokens` |
| Rate limiter | `apps/api/src/common/rate-limit` | buckets | `consume`, `prune` | `RateLimiter` |
| Migrations, start and exit of an instance | `apps/api/src/database/migration.service.ts`, `infra/scripts/migrate.ts`, `apps/api/src/main.ts` | `migrations` | run pending files, one transaction each; signals, forced exit | `Migrations` |
| Demo application | `apps/demo-app/src`: `App`, `SdkContext`, `JobsPage`, its dialogs | the board, the current SDK object | log in and out, seed, create, delete, refresh on events | `DemoApp` |
| Audit, metrics, health, logger | `apps/api/src/{audit,metrics,health,logger}` | none of their own | reads | not modelled |
| Serializer, validators, types | `packages/core` | none | pure functions | not modelled |
| Landing page, configuration | `apps/landing`, `packages/config` | none of the protocol | | not modelled |

### How they interact

1. The application calls `createRecord`, `updateRecord` or `deleteRecord`. Each
   writes the local record in one IndexedDB transaction and queues an operation
   in a second one, with a fresh id, a fresh idempotency key and the version the
   record had.
2. `sync()` runs on a timer, when the browser comes online, and when the
   application calls it; nothing keeps two calls apart. It reads the operations
   that are pending and not waiting for a retry, posts them, and gets a job id.
3. The controller queues a BullMQ job. Ten worker slots run jobs; a job that
   fails or stalls is run again, three attempts in all.
4. A slot processes the operations of a job in order. For each one it looks up
   the idempotency key (outside any transaction), then runs one transaction:
   version check under `FOR UPDATE`, mutation, `versions`, `events` and
   `sync_operations` rows, `COMMIT`. Each change of a record draws a cursor from
   a sequence.
5. The client polls the job, stores the results (confirmed data and versions;
   for conflicts the server's data, or what a conflict handler returns, queued
   again), and pulls: pages of records and tombstones above its cursor are
   stored, and the cursor is saved at the end.
6. An error of the push, or of the pull after it, sends the operations of the
   batch through the retry logic or marks them failed.
7. Around this: the network state of the SDK starts and stops the timer of
   `sync()`; the demo application makes an SDK object for each login and copies
   its records to the board when it emits an event; an API instance runs the
   migrations before it listens; requests are authenticated by the key of a
   project or by tokens, and counted by the rate limiter.

### What is hard in it

- **Concurrency.** Ten slots and the direct API write the same tables under READ
  COMMITTED; row locks are taken in two orders; a check and the mutation it
  protects are separate statements; calls of `sync()` overlap with each other and
  with the application at every `await`.
- **Failure.** Any statement can fail, the answer to a `COMMIT` or to a request
  can be lost, a job can be run again after it was partly applied, polling can be
  given up on a job that completes, the page can be closed between two writes.
- **Ordering.** Cursors are drawn before the commit and become visible in commit
  order; records and tombstones are selected by two statements and applied one
  list after the other; the queue is ordered by random ids; cursors are compared
  as text.
- **Liveness.** Deadlocked transactions, the page loop of a pull, and the
  settling of every queued operation.

### What makes each component correct

- *Operation processor*: every change of the tables is the whole effect of one
  client operation, marked applied by the same commit; a checked update replaces
  exactly the version its client had; the denormalised `versions` table never
  drifts; cursors are unique, and the cursors of one record rise; no worker waits
  for ever.
- *Delta pull*: nothing below the client's cursor is missing; the cursor does not
  go back; a pull against a quiet server leaves the server's records; pulls end (they
  need not: see the differences below).
- *Sync client*: nothing is marked applied that the server does not have; nothing
  settled is pushed again; nothing the server has is dropped as rejected; local
  changes are queued; a client at rest has no stale copy; operations settle.
- *Job queue*: "completed" means that every operation was processed; every job ends
  and its client hears of it.
- *API keys*: a project is never without a key; a rotation revokes the keys there
  were, so that only rotations that overlap can leave several; requests on one
  project do not wait for each other for ever.
- *Refresh tokens*: a token that was used buys nothing for a request that comes in
  after that.
- *Rate limiter*: what passes in any stretch as long as a window is bounded.
- *Migrations*: each file is applied once and in order, an instance listens on a
  complete schema, and the files are applied in the end.
- *Network state*: the periodic sync runs exactly while the SDK believes it is
  online, and that belief is in the end the browser's.
- *Demo application*: at rest the board shows what the SDK holds in memory, and that
  is what is stored, deletions that the result of a push undoes apart.

The hazards, each at its line with the properties that cover it, are listed in
`PROJECT.json` under `hazards`.

## 2. The modules

| Module | What it is |
|---|---|
| `VersionedStore` | abstract: a store of versioned records, one step per operation |
| `SerialStore` | abstract: that store where transactions do not overlap: operations applied once, to the version their client had |
| `CursorFeed` | abstract: what pulling clients see of the server, the cursors drawn and committed |
| `SyncServer` | the operation processor, statement by statement; implements `VersionedStore` and `CursorFeed`, and under a condition `SerialStore` |
| `SyncServer_proofs` | its proofs |
| `DeltaPull` | pages of `getSyncUpdates` and `pullDelta`, on top of `CursorFeed` |
| `DeltaPull_proofs` | its proofs |
| `SdkClient` | the client's calls, its queue, push, results, conflicts, pull, retries |
| `SdkClient_proofs` | its proofs |
| `JobQueue`, `JobQueue_proofs` | the queue between API and processor, with BullMQ's locks, stalls and attempts |
| `ApiKeys`, `ApiKeys_proofs` | projects and their keys, statement by statement |
| `RefreshTokens` | accounts and refresh tokens |
| `RateLimiter` | the windows of the limiter over a clock |
| `Requests_proofs` | the proofs about `RefreshTokens` and `RateLimiter` |
| `Migrations`, `Migrations_proofs` | processes that start, migrate, serve and exit |
| `NetworkState` | browser events and health checks of SDK objects |
| `DemoApp` | the demo application over the in-memory side of the SDK |
| `Browser_proofs` | the proofs about `NetworkState` and `DemoApp` |
| `MCSyncServer`, `MCDeltaPull`, `MCSdkClient`, `MCDemoApp` | the symmetry sets of the runs |
| `MCParts` | six small components and the processor with one slot, which share no state; one of them runs in each behaviour |

The composition is by refinement. `SyncServer` is shown to implement
`CursorFeed`, and `DeltaPull` EXTENDS `CursorFeed` for its server, so what is
checked of pulls holds of any server that implements the feed. `SdkClient` has
its own, coarser server, where one operation is one step and a pull is one answer.
That server is shown to implement `SerialStore`, and so is `SyncServer`, as long as no
operation is in two slots and no record in two transactions at once: the client is
checked against the promise the processor keeps under that condition. `SerialStore`
also says which records are compared at all: those an operation inserted, and not
those of `POST /records` (records.service.ts:11), which have no `versions` row. `JobQueue` says when an operation is processed again, and
`SyncServer` what that does to the tables: its `Deliver` of an operation that was
delivered before is the `Process` of a slot that took a stalled or failed job.
`DemoApp` has the SDK of `SdkClient` once more, with only the presence of records
and what is displayed. The seven parts of `MCParts` share no variable with each
other: their product would have no behaviour worth looking at that each alone has
not, so an initial state of `MCParts` chooses the component that runs and the
others rest in theirs. `map` in `PROJECT.json` gives the lines each definition
translates; `NAME_Suffix` operators marked "Bug:" are mutated forms of `NAME`,
used by the entries of `mutants` only.

### SyncServer

State: the tables as functions of the record or operation id, `recLock` and
`verLock` for the row locks on `records` (and on the key of an uncommitted insert)
and `versions`, the sequence, and per worker slot the next statement (`pc`), the
operation (`cur`) and what its transaction has written and not committed (`tx`).

| Code (`sync.service.ts`) | Actions |
|---|---|
| loop over a job's operations, 34-57 | `Deliver`, `Return` |
| `checkIdempotency`, 336-357 | `CheckHit`, `CheckMiss` |
| `SELECT ... FOR UPDATE OF v` and the comparison, 80-131 | `VerifyNoRow`, `VerifyMatch`, `VerifyMismatch` |
| create: `INSERT ... ON CONFLICT`, 134-154 | `CreateDraw`, then `InsertRow` or `CreateOnConflict`, then `WriteVersions` |
| update and its fallback insert, 155-187 | `UpdateRow`, or `UpdateNoRow` then `InsertRow` or `InsertFails`; `WriteVersions` |
| delete, cascade, tombstone, 188-214 | `DeleteRow`, `DeleteNoRow`, `DeleteCascade` |
| `events`, `sync_operations`, `COMMIT`, 217-242 | `Commit` (answered or not) |
| catch, `ROLLBACK`, 243-252 | `Fail`, `DeadlockAbort` |
| `RecordsService.create` | `DirectCreate` |

A statement that waits for a row lock is an action that is not enabled. A plain
`INSERT` draws its cursor (a column default) *before* it waits for the key; an
`UPDATE` draws it under the lock. Both are in the model, because the order of
cursors is what pulls depend on. A job delivered twice, by the client's push or by
BullMQ, is a second `Deliver` of its operations.

### DeltaPull

State: that of `CursorFeed`, the client's copies (identified by their cursors),
`lastCursor`, the client's row of `client_cursors`, and the locals of each
`pullDelta`. `SelectRecords` and `SelectTombstones` are two actions because they
are two statements under READ COMMITTED, so a commit can fall between them;
`TrackClient` is the upsert of `client_cursors`; `ApplyRecord`,
`ApplyTombstone`, `NextPage`, `LastPage` and `Save` are the page loop. `Exceeds`
compares a cursor with `maxCursor` the way the code does: as numbers while
`maxCursor` is the `Number` read from IndexedDB, as text once it is a BIGINT that
the driver returned as a string. The history variable `clean` says that nothing
has changed on the server since the pull began, nor was anything missed before it.

### SdkClient

State: the three IndexedDB stores, the application calls and the calls of `sync()`
under way, the jobs, and a server with one row per record. An operation's id is
also the data it writes. An action is what happens between two awaits, or several
such stretches when nothing else can tell them apart: `MarkApplied` includes the
`getRecord` that follows it, as the write after it does not depend on what was
read except for the record being there. `ServerWins` and `HandlerWins` merge the write
of the record with that of the queue after it, two awaits of the code.

| Code (`syncra-sdk.ts`) | Actions |
|---|---|
| `createRecord`, `updateRecord`, `deleteRecord`, 266-436 | `CreateRecord`, `ReadRecord`, `WriteRecord`, `Enqueue` |
| `sync()`: batch and POST, 451-523 | `Begin`, `Post`, `PostUnanswered`, `PostFails` |
| `pollJobStatus`, 629-672 | `PollCompleted`, `PollFailed`, `GiveUp` |
| results, 528-598 | `MarkApplied`, `Confirm`, `AllApplied`, `ReadRejected`, `ServerWins`, `HandlerWins`, `AllRejected` |
| `pullDelta` as one answer | `Pull`, `PullFails`, `StorePulled`, `SaveCursor` |
| `applyRetryLogic`, `markOperationsFailed`, 609-715 | `Retry`, `MarkFailed`, `Throw`, `Elapse` |
| page closed, `initialize` | `Reload` |
| the server's side of a job | `JobRepeat`, `JobApply`, `JobReject`, `JobError` |
| other clients | `ForeignPut`, `ForeignDelete` |

`JobError` is a failed attempt of a job, with the operation it was at applied or
not: BullMQ runs the job again from its first operation, or it was the last
attempt. `Recover` is the catch block: it works on the batch as it was read
*before* the requests.

### JobQueue

State: per job its row in Redis (state, who holds its lock, failed attempts, times
stalled), per slot the job and the operations it has done of it, the operations
processed so far, and the two reads of a status request. `PushJob` is the
controller's push, `Take`, `Process`, `Complete` and `JobFails` the worker;
`AfterFailure` is attempts and back-off. `LockLapses` is a slot that loses touch
with Redis past `lockDuration` and goes on working, `SlotDies` one that does not;
`Stalled` gives the job back or fails it, by `AfterStall`; `Disowned` is a slot that
finishes a job it no longer holds. `GetJob` and `GetState` are the two awaits of
`getJobStatus`. What BullMQ does is external: it is read off the options
`onModuleInit` gives it.

### ApiKeys and RefreshTokens

One action per SQL statement under READ COMMITTED. In `ApiKeys` the UPDATE of a
rotation fixes its rows when it starts (`RevokeStart`) and takes them one by one
(`RevokeRow`), waiting for the transaction that holds one and looking at it again
(`Revocable`); the foreign key makes `InsertKey` share the row of its project, and
`DeleteLock` and `DeleteCascadeKeys` take the rows in the other order, which is
where `KeyDeadlockAbort` comes in. `CreateKeyFails` leaves a project without a key.
In `RefreshTokens` `SelectToken`, `Consume` and `IssueToken` are the three statements
of `refresh`, each committed on its own, and any of them can fail or lose its
answer. Both modules remember, as history, what there was when a request came in: the
active keys of its project (`exposed`, and `found` of the key it issues), and whether
the token it presents was used up already (`replay`).

### RateLimiter

`OpenWindow`, `CountRequest` and `Refuse` are the three ways through `consume`;
`Prune` fires at any time. `accepted` is history: at each instant, how many
requests had been let through by then.

### Migrations

The phase of a process is the statement it is at. `ListApplied` reads the names
once, before the loop, as the code does; `InsertName` waits for another
transaction that inserts the same name and fails when that one has committed.
What the SQL of a file does when two processes run it is not modelled: it may wait
or fail, and `FileFails` may come at any statement. `Signal`, `Exit` and
`ForceExit` are the end of `bootstrap`: the timer is set before the instance
listens, so it can fire in any phase.

### NetworkState

`events` are the online and offline events the browser has still to dispatch.
`SendCheck`, `CheckAnswered`, `CheckSucceeded` and so on are the health check: an
answer is given while there is a network, and used whenever it is resumed. Several
SDK objects exist one after the other; the check of a destroyed one still comes in,
changes its `_isOnline` and reaches no listener (`Notified`).

### DemoApp

State: the page, the SDK object in use, the memory of every SDK object, the board,
IndexedDB, which they share, the presence of each record on the server, and the locals
of the application call and of the calls of `sync()` under way.

| Code | Actions |
|---|---|
| `sync()` up to its first request, syncra-sdk.ts:451-460 | `SyncBegins`, in all that call it |
| the server's side of a push | `ServerProcesses` |
| results of applied operations, 528-543 | `MarkApplied`, `ReadRecord`, `WriteRecord` |
| results of rejected operations, 544-598 | `MeetConflict`, `ReadRecord`, `WriteRecord`, `DropRejected` |
| `pullDelta` and what follows it, 598-813 | `PushDone`, `PullAnswered`, `ApplyPulled`, `SyncCompletes`, `SyncFails` |
| creating, updating and deleting a job (`NewJobForm`, `JobDetail`, the handlers of `JobsPage`) | `BeginEdit`, `EditStored`, `EditQueued` |
| `SdkProvider`, `App` | `MountProvider`, `Ready` with `Seed`, `Logout`, `ReloadPage` |
| events of the network state | `NetworkSwitches` |

`ReadRecord` and `WriteRecord` are the `getRecord` and the `upsertRecord` of an
operation's result: two transactions of IndexedDB, neither of which touches the map in
memory. `BeginEdit` is the call with its `getRecord`, `EditStored` the write with the
change of the map, `EditQueued` the second transaction with what the page does after
the call. Deleting all completed jobs is one such deletion after another.
`Ready` is the end of `initialize`, the first
`sync()` and the seeding of an empty board; `Refreshed` is `refresh()` on the events
`JobsPage` listens to; `Logout` leaves calls under way that go on with the old
object. Two variables are history. `orphaned`: an SDK object that is no longer the
page's has written since the page's was made. `overtaken`: records that were deleted
between the read and the write of an operation's result, until the SDK of the page
stores or removes them itself.

## 3. The runs

Deadlock is checked where a run does not say `CHECK_DEADLOCK FALSE`. The runs of
`SyncServer` and `DeltaPull` say it because their bounds on deliveries and cursors
end every behaviour; `sdk_overlap` because its operation ids run out; `parts` and
`demo_app` because every component ends where its bound does, or may rest.

### Passing

| Run | Question | Bounds |
|---|---|---|
| `server_safety` | Do the tables stay consistent, is every step a step of the abstract store and of the feed, do checked writes replace their base, is every operation a slot takes up finished? | 2 slots, 2 operations of any type and base 1 or 2 on one record, each delivered up to twice, imports of the record, statements and commits failing freely |
| `pull_serial` | With one writer and no deletions, is nothing missed, does a pull of several pages against a quiet server leave its records, does the client catch up? | 3 records, pages of 2, cursors 8 to 10 (they gain a digit), one interrupted pull |
| `pull_quiet` | Does a pull against a quiet server leave its records, deletions included? Does the cursor never go back? | 2 writers, 3 records, pages of 5, cursors 8 to 12, one interrupted pull, imports |
| `sdk_push` | With calls of `sync()` that do not overlap: is every local change queued, every operation settled, none dropped that the server has, no stale copy left? | 3 operations of any type on one record, 1 foreign change, 1 of: unreachable, refused, failed pull |
| `sdk_overlap` | With overlapping calls, a conflict handler and any fault of the protocol: is "applied" true, and settled final? Is the server the one the processor implements, though jobs are repeated, given up or hold one operation at the same time? | 2 calls of `sync()`, 2 jobs, 2 operations (updates and deletes), 1 foreign change, 1 of: lost answer, failed attempt of a job, polling given up, failed pull, closed page |
| `parts` | Seven questions, one per part: are keys, tokens, windows, migrations, jobs and network states right under interleaving and failure, and does every one of their requests, starts and jobs end? Is nothing applied twice by the processor when nothing is concurrent, and is it then the store its clients see? | 2 callers, 1 project, 3 keys; 2 handlers, 1 account, 3 tokens; limit 2, windows of 4 over 10 instants; 2 instances, the script, 2 files, 2 faults; 2 slots, 1 job of 2 operations, 3 attempts, 1 stall, 2 lapsed locks; 2 SDK objects, 3 changes of the network; 1 slot of the processor, 2 operations, 3 deliveries of each |
| `demo_app` | Does the board at rest show what the SDK holds, and is that what is stored, with records deleted between the read and the write of a push's results, across logins and reloads and what a replaced SDK goes on doing, or with another device? | 1 record, 2 calls of `sync()` at once, 1 edit besides the seed, failed requests and changes of the network without bound; 2 SDK objects that replace each other, or one and a foreign change |

Why the bounds are enough. A transaction of the processor touches one record and
waits for rows of that record only, so one record has every conflict of locks;
two slots have every pair of statements; two operations, one of which may create
the record and be delivered to the other slot as well, are every pair of
transactions, and imports and repeated deliveries change what they raced for.
The proofs below hold for any number of slots, records, operations and
deliveries. For pulls, three records with pages of two need two pages, and
cursors from 8 to 10 cross the place where comparison as text differs from
comparison as numbers. In `sdk_push` one job is enough: with one call of `sync()`
at a time and none of the faults that abandon a job, a client never has two;
`sdk_overlap` has those faults, and two jobs. A
record of the client is touched by operations of that record only; three
operations make a create, an update of it and a deletion or a second update.
Fault bounds of one are chosen so that a fault and its consequences are explored
to the end; `MaxRetries` is 2 so that an operation can both be retried and run
out of retries. In `parts` two requests on one project or token are every pair of
statements, and the keys and tokens suffice for each of them to issue one and for
a rotation after both; a window of 4 fits two and a half times in the clock, so a
burst can lie across two windows and be followed by a third; two instances and the
script make three processes that race for two files, with two of them killed or
forced to exit; two slots take one job from each other, and two lapsed locks are
one more than the stalls the queue forgives; three changes of the network take it
away, back and away again. In `demo_app` two objects are one login after another,
the first of them reused once its calls are over; two calls of `sync()` are one that
handles a result while another pulls or the application edits. The proofs depend on none of these
bounds.

Each property has a mutant in `PROJECT.json`: a change of the modelled code under
which TLC finds the property violated in the same run.

### Violations

Each shows a difference between the code and what a comment, a document or a test
of the repository says; `findings` quotes the lines.

| Run | What happens |
|---|---|
| `server_reapplied` | One create delivered to two slots is applied twice. `checkIdempotency` (sync.service.ts:39) runs before and outside the transaction; the unique key of `sync_operations` is met by `ON CONFLICT DO UPDATE` after the mutation. |
| `pull_commit_order` | A transaction that drew a cursor earlier commits after a later cursor was pulled: its change is below the client's cursor and is never delivered. |
| `keys_two_active` | Two rotations of one project overlap: the second waits for the first and does not see the key it inserted (projects.service.ts:64), so both new keys are active. |
| `token_reused` | Two requests read a refresh token before either consumes it (auth.service.ts:122), and each gets a successor. |
| `sdk_stuck` | An attempt of a job applies an operation and fails; the next attempt answers for it under `row.id` (sync.service.ts:353), which is not the operation's id, so the client never marks it and pushes it again for ever. |

Other differences are kept as configurations that end in a counterexample, and are
not among the runs:

| Command | What happens |
|---|---|
| `tlc -config server_unchecked.cfg MCSyncServer.tla` | An update of a record that is not there finds no `versions` row, and locks none (sync.service.ts:90); another slot creates the record and updates it; the first one then overwrites a version its client did not have (`NoUncheckedOverwrite`). The comment at sync.service.ts:63-66 says that the check is performed "inside the same transaction using SELECT ... FOR UPDATE on the versions table, eliminating the TOCTOU race between check and mutation". |
| `tlc -config pull_endless.cfg MCDeltaPull.tla` | A page is full of cursors with one digit more than `maxCursor`; compared as text (syncra-sdk.ts:779) none of them exceeds it, and the same page is requested again for ever (`PullsEnd`). The comment at 740-747 says that the pull "advances the cursor to the highest seen value" and continues "until both records and tombstones return fewer than a full page". |
| `tlc -config demo_restored.cfg DemoApp.tla` | A record is deleted between the `getRecord` and the `upsertRecord` of the result of an operation on it (syncra-sdk.ts:534-542): it is stored again and not in memory, and a reload shows it, while the records are restored "so getRecords() works after a page reload" (232). |
| `tlc -config pull_recreated.cfg MCDeltaPull.tla` | A record is deleted and created again; one answer has the new row and the old tombstone, and the client applies tombstones last (syncra-sdk.ts:785), so it stores the record and removes it again, while sync.service.ts:266-269 says that creates, updates and deletes share one cursor space. |
| `tlc -config sdk_order.cfg MCSdkClient.tla` | Two updates queued offline are pushed in the order of their random ids (queue-store.ts:8); when that is not the order they were made in, the server applies one and rejects the other, with no other client involved. |
| `tlc -config instance_exits.cfg Migrations.tla` | The timer that forces the exit (main.ts:65) is set while the instance starts and cleared only after a signal: an instance that nobody stops exits with 1 thirty seconds after its start. The comment above it (main.ts:61-64) says it bounds how long a shutdown waits. |

### What the properties need

Some properties hold under the conditions of their run and not beyond; the runs
are chosen at that border. Each of the following was seen as a counterexample of
TLC when the condition was removed.

- `NeverReapplied` needs that no operation is in two slots at once
  (`OperationsApart`), as `server_reapplied` shows, and `NoUncheckedOverwrite` that no
  record is in two transactions at once (`RecordsApart`): `server_unchecked` shows an
  update that found no `versions` row to lock overwrite a record created before its
  mutation, which with one slot cannot happen. The proofs need no more than the conditions themselves.
- `ImplementsSerialStore` needs both on the processor. The client's server has them by
  its atomic operations, also with overlapping jobs (`sdk_overlap`).
- `NothingMissed` needs one writer, no deletions and one pull at a time. It fails
  with two writers (`pull_commit_order`), and with a commit between the two
  SELECTs of an answer when there are deletions.
- `CleanPullConverges` needs that no list of an answer is cut short below the maximum
  of the other (`NothingSkipped`), and no record created again (`pull_recreated.cfg`).
  With deletions and small pages a full list of records and a tombstone far ahead move
  the cursor past the records of the next page; a backlog that fits into one answer
  (`BacklogFits`), or no deletions, excludes it.
- `CursorNeverRegresses` needs one pull at a time: of two, the one that began
  earlier can save last.
- `CatchesUp` needs that no page is full of cursors with one more digit than
  `maxCursor`: the pull would not end (`pull_endless`). The bound on cursors of
  `pull_serial` is one below the first such page.
- `NothingStale` needs calls of `sync()` that do not overlap (of two pulls, the older
  answer can be stored last), and a page that is not closed in one of them.
- `LocalIsQueued` and `DroppedIsNotDone` need calls of `sync()` that do not overlap and
  jobs that are awaited to their end. Any one of a lost answer to a push, polling
  given up and a closed page breaks both: two jobs then hold the operation, one
  applies it and the other is answered with a rejection, on which the operation is
  dropped. A page closed between the record's transaction and the queue's also leaves
  a change that is never pushed.
- `OnlyOverlapsAddUp` and `ReplayRejected` are what the code keeps of one active key per
  project and one use per token: keys that a request found active when it came in are
  inactive once it has issued one, and a token that was used, when a request with it came
  in, is refused. Requests that overlap are the exception, and `keys_two_active` and
  `token_reused` show it.
- `BoardShowsStore` compares the board with IndexedDB only while no replaced SDK
  object has written (`orphaned`), and only for a client that is online: creating a
  job offline refreshes nothing until the next event. Of what is stored it leaves out
  the records that are `overtaken`, which `demo_restored` shows to be needed; it does say
  that nothing on the board is missing from the store.
- `AgreesWithBrowser` is about the end: an old answer to a health check does set an
  offline client online until the next check.

Other behaviour of the code that the model has and no property judges: an
operation applied by the server ends as failed when the pull after its push fails
often enough, or its job fails after applying it; with a conflict handler the
rejected operation stays queued; the row that records a rejection
(sync.service.ts:117) is rolled back with the transaction that wrote it; the
`events` of a deleted record are removed by the foreign key.

### Fairness

- `SyncServer!Fairness`: weak fairness of each slot's `Step`, the statements of its
  transaction and the deadlock detector. The database executes a statement whose
  locks are free, and PostgreSQL checks for deadlocks after `deadlock_timeout`.
  `Deliver`, `Fail` and `DirectCreate` have none.
- `DeltaPull!Fairness`: weak fairness of each pull's steps and of its start (the
  timer of the SDK calls `sync()` while online), and of the end of each open
  transaction. Drawing a cursor, interrupting a pull and importing have none.
- `SdkClient!Fairness`: weak fairness of the writes of a call under way, of the
  steps of each `sync()` including its start by the timer, of each active job, and
  of the retry delay passing. Edits, faults, foreign changes and reloads have
  none.

- `KeysFairSpec`: strong fairness of each connection's statements: a lock is given
  to those who wait for it in the order they came, so a statement that is possible
  again and again is executed, although other requests keep taking the row.
- `MigrationsFairSpec`: weak fairness of the statements of a process, and of the
  start of an instance that has exited. The latter is an assumption about the
  deployment (a restart policy), not about the code. Faults are bounded, and a
  process that fails over a duplicate name does so because a file was applied.
- `JobsFairSpec`: weak fairness of each slot, of BullMQ's timers and of the client's
  polling. Lapsing locks, deaths of slots and failures have none, and the last two
  no bound but that of the attempts.
- `NetworkFairSpec`: weak fairness of dispatching events and of the health check,
  whose timer fires and whose request ends.

`MCParts!PartsFairness` conjoins the last four, each for the behaviours in which its
component runs. Elsewhere weak fairness is enough: a request or statement that can proceed keeps
being able to until it does, apart from lock waits, which end because the holder's
own transaction is fair.

## 4. The proofs

All theorems are of `Spec`, for every value of the constants that satisfies the
named assumptions (`SyncServerAssumption`, `CursorFeedAssumption`,
`DeltaPullAssumption`, `SdkClientAssumption`, and those of the components below):
distinct model values, bounds that are
naturals, a page size above zero, finitely many records. TLC evaluates the same
assumptions in the runs.

### SyncServer_proofs

| Theorem | States |
|---|---|
| `TypeCorrect` | `[]TypeOK` |
| `LockingCorrect`, `VersionsCorrect` | `[]VersionsMatchRecords` and what it rests on |
| `ChecksCorrect` | `CheckedWritesReplaceTheirBase` |
| `Implements` | `ImplementsStore`: the processor implements `VersionedStore` |
| `CursorsCorrect`, `CursorsUniqueCorrect` | `[]CursorsUnique` and what it rests on |
| `ChangesAnnounced` | `ChangesAreAnnounced` |
| `ImplementsTheFeed` | `ImplementsFeed`: the processor implements `CursorFeed` |
| `InductiveCorrect` | `[]Inductive`, the invariant they rest on |
| `NeverReappliedCorrect` | `[]OperationsApart => NeverReapplied` |
| `NoUncheckedOverwriteCorrect` | `[]RecordsApart => NoUncheckedOverwrite` |
| `ImplementsSerialStoreCorrect` | `[]OperationsApart /\ []RecordsApart => ImplementsSerialStore` |
| `OneSlotKeepsPromises`, with one slot | `NeverReapplied`, `NoUncheckedOverwrite` and `ImplementsSerialStore` |

`VersionsMatchRecords` is not inductive: a worker about to commit writes a version
it computed earlier, so the invariant has to say that it still fits. `Inductive`
adds, per worker, `StageOK` (what the locals hold at each statement), `RowHeld`
(an uncommitted write holds the row's lock and was computed from the committed
row), `CheckHeld` (a row found by the version check is still locked and unchanged)
and `VersionsHeld` (a worker at its commit has locked the `versions` row it will
write); and for cursors `CursorFresh`, `CursorDrawn` and `DrawnCursorsUnique`:
a drawn cursor is nobody else's and above that of the row it replaces, because the
row was locked before the cursor was drawn or, for an insert, there was no row.
Both refinements are then one step per action: all actions stutter except
`Commit` and `DirectCreate` (the store), and those that draw, release or commit a
cursor (the feed). The action properties follow from the invariant at the commit.

The three before the last are of the behaviours in which certain transactions do not
overlap, for any number of slots: the code does not ensure it, and the findings are
what happens when they do. An operation with an open transaction has not been applied
(`OpenIsNotApplied`), because the look-up that opened it said so and another
transaction would have to be of the same operation; and an update or delete past its
check either found the `versions` row, which `CheckHeld` then keeps at the client's
version, or the record still has none (`PassedUnchecked`), because another
transaction would have to be of the same record. For the refinement there is
also what a transaction about to commit knows of the record (`CommitsTruly`): it has a
`versions` row to write if it inserted the record, and an update that did not has one
only if the row is there; a delete that found no record still has none before it. Each
commit is then an application that was due (`CommitIsDue`), and leaves compared the
records `SerialStore` says. A single slot satisfies both
conditions (`OneSlotApart`), hence `OneSlotKeepsPromises`.

### DeltaPull_proofs

| Theorem | Under | States |
|---|---|---|
| `TypeCorrect` | | `[]TypeOK` |
| `CursorNeverRegressesCorrect` | one pull at a time | `CursorNeverRegresses` |
| `NothingMissedCorrect` | one writer, one pull at a time, `Workload = {}` | `[]NothingMissed` |
| `CleanPullConvergesCorrect` | one pull at a time, no "revive" in `Workload`, `[]NothingSkipped` | `[]CleanPullConverges` |
| `PagedStoreConverges` | one pull at a time, `Workload \subseteq {"import"}` (nothing deleted) | `[]CleanPullConverges` |
| `SmallBacklogConverges` | one pull at a time, no "revive", `[]BacklogFits` | `[]CleanPullConverges` |
| `SmallStoreConverges` | one pull at a time, no "revive", no more records than `PageSize` | `[]CleanPullConverges` |

The cursor does not go back because `maxCursor` is never below the saved cursor:
the first comparison is between numbers, and a later one as text moves it only to
cursors of the same answer, all above. `NothingMissed` is strengthened by three
facts about every cursor the client has seen, that is its saved cursor, the cursor
and the maximum of its pull, and those of its page (`Exact`): no open transaction
can still commit below it (`Settled`), each record of the page is current or was
replaced above it (`PageCurrent`), and what lies below it is stored or on the page
(`Covered`). A page of `ORDER BY cursor LIMIT` has no holes (a lemma about
cardinalities), which is what keeps `Covered` true when a page is fetched. The
comparison as text never matters to safety: the proof uses only that the maximum
is one of the cursors seen. The conditions are
those of `pull_serial`; without them the statement is false (see above).

For `CleanPullConverges` the invariant (`Converging`) says what a pull has left to do
while the server is quiet, over however many pages: the copy of a live record is
current, or its row is on the page or beyond it (`RecordDue`, `Beyond`); the copy of a
deleted one is gone, or its tombstone is (`RemovalDue`). At the start this is what
`clean` asks for, and at the end nothing is left to do. Four facts carry it.

- A record with a tombstone has no row (`GravesFinal`, which needs "revive" excluded,
  since a client removes after it stores).
- No two changes have one cursor (`CursorsDistinct`), so an answer has one entry for
  each.
- A list that is shorter than a page is all there is above the cursor (`ShortPageIsAll`):
  the code ends the loop on `length < limit` (syncra-sdk.ts:801), and that the rest is
  empty then is a statement about cardinalities. Were something left out, the least of it
  would have a full page below it; that there is a least one follows from the library's
  well-founded order of the naturals, whose theorem about minimal elements takes a set
  and not an operator, so it can be cited where induction cannot.
- What a list leaves out lies above everything on both lists (`NothingSkipped`), so the
  maximum, as numbers or as text, passes nothing by. It is a hypothesis because
  two lists with a `LIMIT` each and one cursor for both do not ensure it. Without
  deletions there is one list, and `PagedStoreConverges` has no hypothesis about states
  at all; with them `SmallBacklogConverges` asks that the backlog fits, and
  `SmallStoreConverges` puts a condition on the constants in its place, that of
  `pull_quiet`: an injection of the backlog into the records bounds it.

### SdkClient_proofs

| Theorem | States |
|---|---|
| `InductiveCorrect` | `[]Inductive`, the invariant they rest on |
| `TypeCorrect` | `[]TypeOK` |
| `AppliedIsDoneCorrect` | `[]AppliedIsDone` |
| `SettledIsFinalCorrect` | `SettledIsFinal` |
| `ImplementsSerialStoreCorrect` | `ImplementsSerialStore`: the server the client works against |
| `NothingStaleCorrect`, when `OneSync` and no page is closed | `[]NothingStale` |
| `LocalIsQueuedCorrect`, when `OneSync` and `JobsAwaited` | `[]LocalIsQueued` |
| `DroppedIsNotDoneCorrect`, when `OneSync` and `JobsAwaited` | `DroppedIsNotDone` |

The first five hold for any number of overlapping calls, jobs and faults of every kind,
which `sdk_overlap` explores for two calls and one fault. "Applied" in the queue
is true because every answer that says so, in a job (`JobOK`) or held by a
`sync()` (`SyncOK`), is about an operation in `sync_operations`, and operations stay
there. `SettledIsFinal` rests on two facts of the invariant: an application call
under way owns an operation that has no entry in the queue yet (`CallOK`), and an
entry exists only for an operation that was made (`QueueOK`), so neither a call nor
a conflict handler can reset an entry; and the retry logic, which does write from
what it read before its requests, sets no status but "failed". Of the refinement, a
step of a job is an application (`ApplySerial`) or nothing, and the operation is one
that was made (`JobOK`); the application's calls and the conflict handler are the steps
in which an operation is made (`NewEditAsks`).

The last three are about a client that makes its calls of `sync()` one after the other
(`OneSync`), with any number of records, application calls, changes of other clients,
retries and, where they are not excluded, faults; with and without a conflict handler.
Their conditions are hypotheses of the theorems because the code does not ensure them;
TLC finds each of the properties violated when one of its conditions is dropped.

- `NothingStale` rests on `Known`: a copy that is not the server's row is explained
  (`Explained`), by a pull that is still to bring the record (`Behind`) or by an
  operation on it that is not settled (`Unsettled`). What makes this inductive is what
  every answer under way, in a job or held by the `sync()`, is known to say: an applied
  one speaks of a row above the client's cursor (`AppliedAhead`), a rejected one of the
  server's row or of one above the cursor (`RejectedAhead`), and a pulled change is the
  row or older than one above the cursor about to be saved (`SyncKnown`). Most steps
  change rows only above the last cursor drawn (`Steady`), and one lemma per part of
  the invariant follows from that alone.
- `LocalIsQueued` and `DroppedIsNotDone` rest on `Kept`: every applied operation is in
  the queue, and data that the server shows as an operation's was applied as it
  (`Genuine`); a job is the one the `sync()` waits for, and holds its batch (`JobHeld`); a
  rejected answer is about an operation that is not applied (`AnswersGenuine`), so to
  drop it is right; and a copy that shows an operation has an entry for it, or the
  call that is to queue it (`CopyKept`).

### The proofs of the smaller components

| Theorem | States |
|---|---|
| `ApiKeys_proofs`: `KeysTypeCorrect`, `OnlyOverlapsAddUpCorrect`, `NeverWithoutKeyCorrect`, `RotationRevokesCorrect` | the type invariant and the three invariants of `ApiKeys` |
| `Requests_proofs`: `TokensTypeCorrect`, `ReplayRejectedCorrect` | the type invariant and `ReplayRejected` of `RefreshTokens` |
| `Requests_proofs`: `LimiterTypeCorrect`, `BurstBoundCorrect` | the type invariant and `BurstBound` of `RateLimiter` |
| `Migrations_proofs`: `MigrationsTypeCorrect`, `MigrationsInOrderCorrect`, `ServesMigratedCorrect` | the type invariant, `MigrationsInOrder` and `ServesMigrated` |
| `JobQueue_proofs`: `JobsTypeCorrect`, `CompletedDidAllCorrect` | the type invariant and `CompletedDidAll` |
| `Browser_proofs`: `NetworkTypeCorrect`, `TimerFollowsNetworkCorrect` | the type invariant and `TimerFollowsNetwork` of `NetworkState` |
| `Browser_proofs`: `AppTypeCorrect`, `BoardShowsStoreCorrect` | the type invariant and `BoardShowsStore` of `DemoApp` |

Each has its strengthening in the proof module, a definition whose name ends in `IInv`.

- *ApiKeys*: a generated key is nobody's row yet (`NewKeysUnused`), a row that an
  UPDATE has changed is still active for everybody else (`HeldAreActive`), and the
  rows an UPDATE has still to look at, with those it has changed, are all the active
  ones that were there when the request came in (`UpdateCovers`). The last one is why
  none of them is active beside the key that is issued (`FoundExist` says that a new key
  is none of them), and why the rotation's answer is true.
- *RefreshTokens*: a request whose token was used up when it came in stops at the look-up
  (`ReplaysStop`), because a row that is revoked or expired stays so; and a request that
  presents a token presents one that exists (`PresentedExists`).
- *Migrations*: the rows of the table are a prefix of the files. A process at a file
  has seen all files before it recorded (`FilesBeforeDone`), and the one whose
  INSERT has gone through holds the first that is not (`CommitsNext`); the
  invariants follow for any number of processes and however they die.
- *JobQueue*: what a slot has done of its job is processed (`SlotsDidTheirPart`),
  and a completed row, or the first read of a status request that saw one, means
  all of it (`CompletionIsReal`).
- *NetworkState*: types (`Listening`), and a check in flight belongs to an object
  that was made (`CheckedWasMade`); a destroyed one has no listener left.
- *RateLimiter*: a window lets through its count, at most the limit, and at least one
  request at its first instant (`WindowCounts`). A stretch as long as a window meets at
  most two that let anything through, and of the earlier one, which began before the
  stretch, the first request is not in it: less than the limit passed in the part of
  the stretch before the open window (`LastWindow`). `Rested` says the same of a bucket
  that was pruned or never opened, and `NothingNow` that at the instant a window is
  over nothing has passed yet.
- *DemoApp*: the board is what its SDK has in memory, or something is under way after
  which it is refreshed: an edit about to be queued or a call of `sync()` by that SDK,
  or the SDK is offline (`BoardFollows`); and that memory is what is stored, even in
  the middle of edits and pulls, but for records that were overtaken, unless a replaced
  SDK has written (`MemoryFollows`). The write of a push's result keeps the latter,
  because its record is stored or was overtaken since it was read (`WritesKnown`).
  The step that could break the first is the one after which `NewJobForm` does not
  refresh: it leaves a call of `sync()` under way, whose end, failed or not, refreshes.

### Only model-checked

Liveness (`OperationsFinish`, `CatchesUp`, `OperationsSettle`, `KeyCallsEnd`,
`InstancesMigrate`, `JobsEnd`, `AgreesWithBrowser`), which is out of the prover's reach.
Every other property of the passing runs is a theorem, under the conditions listed
with it. The runs check the type invariants of the two modules with the largest state,
`SyncServer` and `SdkClient`; that of every other module is a theorem and of no run.

## 5. Not modelled

- The data in the in-memory maps of the SDK: they are displayed and never pushed.
  `DemoApp` has which records they hold.
- The collection of records, users and projects: rows of one user, and the SDK
  pulls all collections.
- Redis losing jobs, and the lengths of delays, windows and timers, which are
  nondeterministic or small numbers.
- Audit, metrics, health and logging only read; formatting, password hashing, token
  signing, configuration and the pure functions of `packages/core` have no state.
- Of the demo application, filters, dialogs, an edit begun while another is being
  stored, and the second mount of React's StrictMode; the landing page.
- The names callers are rate limited under: a pure choice among headers.

## 6. Plan

Order: the processor first, because everything else relies on its tables; then the
feed and the pulls; then the client, which ties them together; then the smaller
components.

1. `VersionedStore`, `SyncServer`, `SyncServer_proofs`: done.
2. `CursorFeed`, `DeltaPull`, `DeltaPull_proofs`: done.
3. `SdkClient`, `SdkClient_proofs`, and `SerialStore`, which ties the client to the
   processor: done for the properties above.
4. `ApiKeys`, `RefreshTokens`, `RateLimiter`, `Migrations`, `JobQueue`, `NetworkState`,
   `DemoApp` and their proofs: done.
5. Worth adding: a refinement of `SdkClient`'s jobs by `JobQueue`, for which the client's
   model would have to count attempts and stalls.
