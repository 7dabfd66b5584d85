# A TLA+ model of zed-sync

zed-sync keeps a local copy of server rows on every device. Writes are applied
locally at once, queued, and sent to the server; the server stamps and commits
them, appends them to an outbox, and every replica reconciles the outbox's
changes with its rows by hybrid logical clock (HLC) order. This directory holds
TLA+ modules translated from the code, TLC configurations that check them, and
TLAPS proofs of what holds for all values of the constants.

All paths below are relative to the repository.

## The system

| part | state | operations | hard part |
|---|---|---|---|
| HLC (`src/hlc.rs`, `sdk/src/hlc.mjs`, Dart) | last stamp: wall, counter, actor | `tick`, `observe` | wall clocks that jump, drift clamp, counter saturation, restarts |
| reconciliation core (`src/lib.rs`, `sdk/src/core.mjs`, Dart) | none | `reconcile`, `resolve_conflict`, `on_ack`, `settle_queued_ack`, `is_echo_of` | must not depend on the order of deliveries |
| lifecycle reducer (`src/lifecycle.rs`, JS, Dart) | phase, operation, generation, active token, intent, connectivity, failure | `dispatch` of nine events | completions of old sessions arriving at any later time |
| its observers (`sdk/src/lifecycle.mjs`, `sdk/src/rxjs.mjs`) | listeners, the calls under way | `subscribe`, `#commit`, `observeLifecycle` | listeners that dispatch, subscribe and unsubscribe while being called |
| JS client (`sdk/src/client.mjs`) | clock, key counter | `write`, `applyChange`, `flushQueue`, `hydrate` | every call is suspended at each await |
| stores (`sdk/src/store.mjs`) | rows with version and dirty flag, write queue with coalescing and a cap, cursors | `putRow`, `removeRow`, `enqueue`, `pending`, `retire`, `settleAck` | one transaction per call, none across calls; crashes |
| server (`postgres/zed_sync.sql`; simulated in `sdk/test/e2e_harness.mjs`) | rows, outbox, write keys, fence registry | stamping and recording triggers, `assert_fence`, `prune_outbox`, `changes` | concurrent transactions, retried requests, tombstones, fencing |
| lease (`sdk/src/lease.mjs`) | handle, heartbeat timer, failure count | `acquire`, `_beat`, `release` | renewals returning after the lease is gone, paused holders |
| session (`sdk/src/start.mjs`, `sdk/src/transports/backend.mjs`) | lease, stoppers, lifecycle | `startSync`, `onLost`, `stop`, stream callbacks | takeover between instances, calls in flight when authority ends |
| Dart session (`dart/zed_sync/lib/src/session.dart`) | lifecycle, pending stop | `start`, `stop`, `failRuntime`, `setOnline` | platform effects that come up or go down late |
| Dart client and storage | like the JS ones | `write`, `applyChange`, ... | - |
| decode, policy, merge, telemetry, WASM | none | pure functions, bindings | - |
| Quint models (`formal/*.qnt`) | - | the repository's own specifications | - |

How they interact. `startSync` waits for the lease, starts the transports,
hydrates, and flushes the queue it inherits. Transports call `applyChange` for
every change, without awaiting it. `write` stamps with the clock, stores the row
as dirty, enqueues, sends, and settles the acknowledgement; `flushQueue` sends
every queued write again under its key. The server commits a key once, behind
the fence of the lease, and its triggers stamp the row and append to the outbox.
The lifecycle's phase gives the client the right to write and to receive;
`startSync` and the Dart `SyncSession` are its owners, listeners follow it.

What makes each part correct:

- HLC: stamps are totally ordered, the local clock passes everything it saw, and
  no remote stamp drags it further than the drift bound.
- Core and client: a queued write is retired only when the server has it or a
  newer change displaced it; queue and dirty rows agree; a clean row is a version
  and the fields of one commit, and the server's row once its echo was applied;
  replicas end at the newest change.
- Server: no commit fills in behind a catch-up cursor; versions follow the
  commits; a reader that has caught up has the table, whatever was pruned.
- Lifecycle: every snapshot is coherent; a revoked token never acts again; a
  listener ends up with the current snapshot.
- Lease and session: only a lease holder runs transports, no heartbeat outlives
  its lease, fenced commits are in the order of the grants, leases, crashes,
  retries and takeovers lose no queued write, and a successor drains what it
  inherits. (A conflict or a queue at its cap does drop a write: the client's
  part, above.)
- Dart session: it is online only after its own `activate()`, nothing is left up
  when it ends, and a running session has its effects.

## Modules

| module | models |
|---|---|
| `Hlc` | the stamp order, `tick` and `observe` of the Rust core, and the JS versions |
| `HlcClock` | one device's clock: wall clock values in any order, arriving stamps, restarts |
| `SyncCore` | the reconciliation core, as operators |
| `SyncClient` | one replica: client, store, network, server and the other replicas' commits |
| `AppLifecycle` | the lifecycle reducer, one action per event |
| `LifecycleObservers` | the machine with its listeners and streams; extends `AppLifecycle` |
| `SyncSession` | the Dart session that drives a machine; extends `AppLifecycle` |
| `SyncLease` | the lease object of each instance, the lock service and the server's fence |
| `StartSync` | several `startSync` sessions of one actor over one durable store; extends `SyncLease` |
| `WriteLedger` | what the sessions of an actor promise together; `StartSync` implements it |
| `PgOutbox` | the triggers, the outbox, the fence and the pruning under concurrent Postgres transactions |
| `ChangeFeed` | what the commit path promises a reader: one atomic commit after the other; `PgOutbox` implements it |
| `HlcProofs`, `AppLifecycleProofs`, `LifecycleObserversProofs`, `SyncSessionProofs`, `SyncClientProofs`, `SyncClientRowProofs`, `StartSyncProofs`, `PgOutboxProofs` | theorems |
| `MCHlcClock`, `MCSyncClient`, `MCStartSync`, `MCLifecycle` | instances for TLC |

`SyncCore` and `PgOutbox` extend `Hlc`, `SyncClient` extends `SyncCore`.
`PROJECT.json` maps each definition to the lines it models.

### SyncClient

A `write`, `applyChange` or `flushQueue` in flight is a *task*; each of its
actions is the code between two awaits: `WriteStart`, `WritePut`,
`WriteEnqueue`, `WriteAck` are one optimistic write, `DirectAck` ends a
`server_first` or `server_only` one, `ApplyStart`, `ApplyDecide`, `DropList`,
`DropRetire` are one delivery, `FlushStart`, `FlushSend`, `FlushAck` one flush.
`rows` and `queue` are the store; `srv` and `outbox` the server. A payload is
the set of keys of the writes whose fields it holds, so a merge is a union. The
server does not keep it as sent: `Normalized` replaces the columns it sets
itself (id, created_at, updated_at, sync_version) by those of this commit,
`Column(key)`. A row that is clean by an acknowledgement therefore differs from
the server's until its echo refreshes it. A removed row is a stored row with an
empty payload, as in both stores.

- The two stores are two settings of two switches. IndexedDbStore: another task
  may run while one awaits a *store* call (`Overlap = TRUE`), and `pending()`
  copies the queue (`SharedQueue = FALSE`). MemoryStore: its calls are settled
  before the next event is handled, so tasks that separate events start
  interleave only at network awaits (`Overlap = FALSE`), and `pending()` hands out
  the queue's own objects (`SharedQueue = TRUE`). What is checked and proved
  without overlap is said of MemoryStore, and not of IndexedDbStore, nor of an
  application that starts several calls from one event without awaiting them:
  those interleave in MemoryStore too. Of such calls only what `client_overlap`
  checks is claimed, and of MemoryStore not `AckRetiresCommitted` (`client_shared`).
- The ranks of the actors are the repository's: a device's `dev-*` sorts below
  the server's `pg` in every client run. The device's clock is behind the
  server's by a millisecond in `client_core` and `client_echo`, ahead of it by
  one in `client_liveness`, and level with it in the others.
- The order of `enqueue` at a cap of zero follows MemoryStore.
- The server is the simulated one of the end-to-end tests, which follows the
  SQL triggers: a commit has a millisecond of its own, a known key is not
  committed again, a delete's tombstone is one counter past the deleted row.
- A merge reads its row when the write starts: the read is at the await right
  after the stamp. The capability check and the table allowlist are left out.

Ghosts: `seen` (changes whose delivery has completed), `settled` (keys of slots
that acknowledgements retired), `rejected` (slots that conflicts retired).

### AppLifecycle, LifecycleObservers and SyncSession

`AppLifecycle` has one action per event; events carry any token from 0 to one
past the generation, so completions of old, current and unallocated sessions all
occur at every moment. `outcome` is what `dispatch` returns; `revoked` is a
ghost.

In `LifecycleObservers` a dispatch that is applied pushes a *frame*, the commit
under way with the copy of the listeners it loops over; `Call` calls the next
one and `Return` ends the loop. Whoever is being called may dispatch, subscribe
or unsubscribe, so frames nest (to `MaxDepth`). A stream of `observeLifecycle`
publishes its first snapshot before it subscribes, which is a frame of its own
that joins the listeners on return. `overtaken` is a ghost: who was still
waiting, or not yet subscribed, when a nested transition was committed.

In `SyncSession` a call of `start`, `stop` or `failRuntime` is suspended at the
platform's `activate()` or `deactivate()`, whose effect (`ComesUp`, `GoesDown`)
takes place at any moment of the call, and which may throw before or after it.
`Dispatching` marks a call between two statements of one synchronous piece:
nothing that awaits resumes then, but the application calls from its listeners.
So `start` may find, after its own dispatch, the token of the stop a listener
asked for, or none. `Confirm`, `Cleaned`, `StopDone` and the others dispatch the
events of `AppLifecycle` itself. Ghosts: `leaked`, `alone`.

### SyncLease, StartSync and WriteLedger

The lock service is external: it grants one token at a time, increasing; a grant
lapses. `SyncLease` has the handle, timer, failure count and the renewal in
flight. A renewal may be answered, refused because the grant lapsed, or fail on
the network; its completion finds the lease as it was or released meanwhile
(`BeatReturns`, `BeatQuiet`, `BeatRetries`, `BeatLost`).

Each instance of `StartSync` is one `startSync` call. `ctl` is where it stands
(`stop()` is "reconciling" after a failure, else "stopping"), `lc` the phase of
its lifecycle (the session's events apply exactly in the running phases, which
`AppLifecycle` shows), `stream` the transport, `call` the
`write` or `flushQueue` in flight, `queue` the store shared by the instances, as
a set of write keys. What one client does to its own slots is `SyncClient`'s
business and left out here: coalescing, overflow, the conflicts met while
hydrating that drop a queued write, and acknowledgements that are superseded and
retire nothing. Here an "ok" answer retires its write (`Acked`), and nothing
else does. So what `NoWriteLost`, `TakeoverDrains` and the ledger say is that
leases, fences, retries, crashes and takeovers lose nothing; which edit of a row
survives a conflict is said by `SyncClient`. The sender reads the lease when a
request is made and omits the headers when it is not held. One call of the
application is in flight per instance.
`log` is the outbox with the token of every commit. Ghosts: `grant`,
`inherited`, `broken`.
`WriteLedger` is the promise the documents make to the application: an accepted
write stays pending until it is committed, is committed once, and is forgotten
only then. `StartSync` implements it with `pending` as the shared queue and
`commits` as the keys of the log (`ImplementsLedger`): leases, takeovers,
retries and crashes are all stuttering steps or steps of the ledger.

`StartSync` keeps only the phase of each lifecycle machine. `Machine(i)` is the
whole snapshot that goes with it: a `startSync` call makes one session, so its
token is 1 and its cleanup's is 2, and operation, failure and connectivity follow
from `ctl`, `lc` and `stream`. `DrivesLifecycle` says that every change of this
snapshot is a transition of `AppLifecycle`, with two exceptions that are named: a
stop whose stopper throws is two transitions with nothing in between
(`StopAndFail`), and a machine dies with its process (`MachineDies`).

### PgOutbox

A transaction issues statements of one row each (an INSERT, UPDATE or DELETE,
or `assert_fence`) at READ COMMITTED. `Issue` sends one, `InsertRow`,
`UpdateRow`, `DeleteRow`, `NoRow` and `Passes` are its effect once the lock it
waits for is free, `Record` is the AFTER trigger, which takes the outbox's
advisory lock and the next sequence number. `Commit` makes the rows and the
transaction's outbox entries visible together; `Abort` rolls everything back but
the sequence. `work` is what the holder of a row's lock sees, `stored` what is
committed. `clock_timestamp()` returns any value of `Walls`, so it steps back.
Locks, waits, the deadlock detector and rollback are Postgres's and modelled as
external, from what the SQL relies on. `life`, the number of inserts of a row's
id, is a history variable. The catch-up reader reconciles each change with what
it has (`Takes`, by `SyncCore`'s `Reconcile`), as `hydrate` does through
`applyChange`: it keeps the tombstones it has seen, and refuses what sorts below
them.

`ChangeFeed` is what remains for a reader: a table, a feed of numbered changes, a
fence, and a cursor with a replica. A commit changes the table and appends to the
feed in one step, past every number committed or read, under one token; pruning
keeps each row's last change; reads are in order, and what a reader makes of a
change is a constant operator, `Takes`. `PgOutbox` implements it with
`stored` as the table and `outbox` as the feed (`ImplementsFeed`): statements,
waits, rollbacks and broken deadlocks are stuttering steps.

Abstracted: `now()` of a retention run is any set of old entries in `Prune`;
`created_at` only enters through the maximum the INSERT trigger takes; a page of
`changes` with LIMIT n is n single reads; `write_key` and the setting that
carries it are `SyncClient`'s and `StartSync`'s business.

## Runs

| run | instance | shows |
|---|---|---|
| `hlc_clock` | wall values and remote stamps around the drift bound, a counter limit of a few ticks, one restart | the clock properties |
| `client_core` | MemoryStore; one hydrated row, two tasks, 2 local upserts or deletes, 1 remote upsert, 3 deliveries, a clock 1 ms behind | that queue and dirty rows agree, convergence, that echoes are shown, and the order of versions |
| `client_overlap` | IndexedDbStore; one row, two tasks, 2 merges or server-first and server-only writes, 1 remote upsert or delete, 1 store fault or restart | types, queue and acknowledgement properties, and clean rows, under every interleaving |
| `client_liveness` | MemoryStore; two rows, upserts, a queue of one slot that throws, a clock 1 ms ahead | the cap holds, and an application that keeps flushing is left only with superseded writes |
| `app_lifecycle` | generations up to 3; one listener and one stream, two nested levels; then a Dart session with three calls | the reducer, its observers, and the Dart session |
| `session` | two instances, two calls, one fault (crash, failed call, failed renewal, pause) | lease, fence and takeover, the refinement of `WriteLedger`, and the transitions of the lifecycle |
| `pg_outbox` | two transactions of two statements over two rows, one of them older than the attachment, two tokens, clock values 0 and 3 with 2 ticks to a millisecond | the commit path, the refinement of `ChangeFeed`, and that statements finish |

Why the bounds are enough. In the client, the races are between two tasks (a
write and a flush, a delivery and a write, two deliveries): two tasks, two local
writes and one remote make every pair meet, with a stale response, an echo and a
conflict in any order. A third delivery allows one change to be delivered twice.
In `session`, two instances, two calls and one fault reach a superseded holder
with a request in flight while the successor writes. In `pg_outbox`, two
transactions of two statements are enough to deadlock (row and row, row and
advisory lock, row and fence), to overlap between sequence number and commit,
and to insert, delete and insert again a row; two clock values make the clock
step back, and with 2 ticks to a millisecond two edits fall into one
millisecond. In `app_lifecycle`, three generations are a session, its stop and
the next session: everything late comes from one generation back; a listener and
a stream, each called inside the other's commit, are the two kinds of observer;
three calls are two that are late and one that is current. Each mutant in
`PROJECT.json` is a bug the instance catches, and the safety properties are also
proved without the bounds (below).

`MCLifecycle` explores the two owners of a machine one after the other, never
together: an application with listeners that dispatches any event, and a Dart
session. The properties of `AppLifecycle` are checked of both.

Symmetry is used on tasks, instances and calls, in invariant runs and for
`VersionMonotone`, `NoResurrection` and the ledger, which treat them alike;
never with liveness.

Deadlock is not checked in the client, session and `pg_outbox` runs: all bounds
used up is a legal end. It is checked in `hlc_clock` and `app_lifecycle`.

Runs that show a disagreement between the code and what the repository says of
it (details under `findings` in `PROJECT.json`):

- `client_shared`: with MemoryStore, a write coalesced while a flush awaits its
  response is retired by the response to the older write.
- `client_echo`: the echo of an own earlier write drops a later queued edit. It
  is taken for a conflict because `applyChange` looks at no write key; comparing
  it with the key of the later edit's slot would not save the edit either.
- `client_delete`: a delete's tombstone sorts below the deleter's own stamp, so
  the acknowledgement never retires it and the queue does not drain.
- `session_unfenced`: a call in flight when its session loses or gives up the
  lease goes on without fencing headers and commits after the successor.
- `session_reconnect`: nothing flushes the queue on reconnect.

Other things met while modelling, listed as hazards:

- With overlapping store calls an older delivery can overwrite a newer one, and
  on a replica that never saw a row a delete delivered before its upsert leaves
  nothing behind to order the upsert out: `Converges` is said without overlap,
  and on a replica that started empty not of rows whose newest change is a delete.
- A device clock a millisecond ahead of the server's stamps an upsert above the
  version the server gives it. The acknowledgement is then `Superseded`
  (`sdk/src/core.mjs:37-41`), so is that of every resend, and the slot stays
  queued until a later write or change of the row displaces it. With deletes this
  happens whatever the clock, on a device that has observed the row's last change
  (`client_delete`). `OnlySupersededStay` says that nothing
  else stays.
- An acknowledgement's version is stored without `clock.observe`
  (`sdk/src/client.mjs:244-254`), so on a device level with the server or behind
  it the next write of the row may sort below the version it replaces, until the
  echo arrives. `VersionMonotone` allows this one step and no other.
- A `server_first` response stores the payload as sent without reconciling it: it
  can overwrite a newer change, and hide the server's columns an echo has already
  brought. The properties this breaks are checked without `server_first`.
- A Dart `start()` that was superseded, or a `failRuntime()` that waits, runs its
  `deactivate()` late and takes down the effects of the next session, whose phase
  stays online. `formal/README.md:33-34` calls the effects "serialized through
  the same reducer"; only the dispatches are. `RunningIsUp` therefore speaks of
  sessions started with nothing else in flight. A `stop()` in the moment between
  the end of a cleanup and its callback gets the old future and stops nothing.
- An INSERT is stamped before it waits for its key: a row inserted again after a
  delete, under a clock that stepped back, can sort below the tombstone of its
  previous life, and a reader that has the tombstone refuses the new row.
  `CaughtUpIsCurrent` names this as the one way a reader stays behind.
- A row that predates `zed_sync_attach` cannot be deleted before it was updated
  once: its tombstone's version is NULL.
- A stopper that throws leaves the lease held and `stop()` unrepeatable; while an
  instance waits for the lease `startSync` has not returned a client, although
  `docs/leases.md` says the others queue writes locally; a `getToken` that rejects
  (`sdk/src/transports/backend.mjs:77`) ends the chain of reconnects.

## Fairness

`client_liveness` and `client_delete`: calls end (weak fairness of every task's
steps); a response that keeps being possible is eventually taken, and a request
of a key that keeps being sent eventually reaches the server (strong fairness).
Nothing makes the application flush, and the SDK does so by itself only when a
lease is acquired (`session_reconnect`). That the application keeps calling
`flushQueue` while writes are queued is the antecedent of both properties
(`KeepsFlushing`), not a fairness of the model.

`session_reconnect`: promises settle, timers fire, the server answers and a
closed stream reconnects (its `onclose` schedules `connect`). Nothing makes the
application write, flush or stop, or an `acquire()` succeed.

`pg_outbox`: Postgres gives a free lock to a statement that waits for it and
runs its effect, its deadlock detector runs, and a caller goes on with the
transaction it opened or commits it (all weak fairness). Nothing makes a
transaction roll back.

## Theorems

For every value of the constants that satisfies the named assumptions:

- `HlcProofs`: stamps are strictly and totally ordered; `tick` and `observe`
  advance; `observe` passes an in-drift stamp; the JS versions agree with Rust's
  below saturation; `TypeOK`, `PastEverySeen`, `WithinDrift` and `NeverBack` of
  `HlcClock`. The invariant adds to the properties that a clock's counter is
  within its limit, and that the clock is *past* each stamp seen rather than the
  last one: each step then needs only transitivity.
- `AppLifecycleProofs`: `TypeOK`, `Valid`, `RevokedForGood`, `NoResurrection`.
  `RevokedForGood` is not inductive: the invariant adds that revoked tokens were
  allocated, hence are at most the generation, and that only the newest
  generation is ever active.
- `LifecycleObserversProofs`: `ObserversTypeOK`, and `HearsCurrent` for any number of
  listeners and any nesting. Its invariant `CatchUp` says that a frame delivers
  the current snapshot or everyone still in it was overtaken
  (`NewestOrOvertaken`), that a listener shows the snapshot or waits in a frame
  that delivers it (`HearsOrWaits`), and the same of a stream about to join.
- `SyncSessionProofs`: the Dart session implements `AppLifecycle`; for that the
  invariant carries that calls hold allocated tokens only. `NothingLeftUp`:
  while effects are up and no `deactivate()` has thrown, the session runs or some
  call *answers for them*, one that awaits `activate()` or a `deactivate()` that
  has not had its effect. `RunningIsUp`: a session started alone is in the hands
  of exactly one call with the current token, or runs with its effects up.
  `StopJoinsCleanup`. `OnlineAfterItsActivate`, from `OwnInv`: at most one call of
  `start` is between its request and its completion for the current session, so
  whatever puts the session online is that call's own completion.
- `SyncClientProofs`: `TypeOK`, `OneSlotPerRow`, `QueueBounded`, and
  `AckRetiresCommitted` when `SharedQueue = FALSE`. Type correctness needs a
  type for the entries of every task (`Typed`). One slot per row needs that seqs
  in the queue are at most `lastSeq` (`QueueOK`). Acknowledgement safety needs
  that a waiting flush settles with the key it sent, which is exactly what
  shared queue objects break; the response then implies a commit of that key.
- `SyncClientRowProofs`, what the rows show:
  - `CleanIsCommitted`, for a store that copies its queue, under every overlap,
    fault and restart, if client and server are different actors and the
    device's clock does not run behind the server's or nothing restarts. A clean
    row has the version and the domain fields of one commit, although the server
    stores another payload than it was sent; its own columns may lag. The
    invariant `TrueInv` follows a write from the call that makes it to the
    outbox: no two writes share a key or a stamp, every stamp in use is *spent*
    (the clock, even restarted, cannot hand it out again), and so a row, a
    request or a log entry that carries a write's key or stamp shows that write.
    A restart with a clock that went back hands stamps out twice, which is why
    the last assumption is there.
  - `QueuedIsDirty` and, when the queue has room for every row, `DirtyIsQueued`,
    without store overlap, store faults or `server_first` writes. `PairInv` says
    what a call may rely on after an await inside its store section, and that a
    queued write shows in its row or its row is in the hands of a call.
  - `EchoNotHidden`, `Converges` and `VersionMonotone`, without store overlap and
    `server_first` writes, for different actors in either order, either store's
    queue, and a clock ahead of the server's, level with it or behind it by no
    more than the drift bound (beyond it a stamp is clamped on arrival, and a
    local write may sort below a change already shown). `EchoNotHidden` and
    `VersionMonotone` hold with faults too, and with restarts unless the clock
    runs behind; `Converges` needs no store fault and room in the queue, and holds
    of hydrated and empty replicas.
    The argument: the server stamps the changes of a row in order
    (`ServerOrdered`); the clock is past every stamp delivered (`SpentInv`); and a
    row is at or past every change delivered for it, strictly past it when it is
    dirty, and shows the change's contents when it is clean at its version
    (`SeenInv`). So an echo that arrived before its acknowledgement has already
    displaced the write the acknowledgement is for, one that arrives after it
    refreshes the row, and a row at rest is at the newest change. For
    `VersionMonotone`, `MonoInv` adds that a write about to be stored was stamped
    above its row, unless the row shows a version no delivery has brought yet.
  - `PoliciesAgree`: each conflict the core reports is decided alike by both
    resolutions. `DeliveriesIdempotent` and `DeliveriesCommute`, on what
    `applyChange` makes of a row with no call in between: a change twice is a
    change once, and two changes of a stored row, clean or dirty, leave the same
    row in either order. A row never stored is the exception, the delete of it is
    ignored.
- `StartSyncProofs`: every invariant of the session, for any number of instances,
  calls and faults: `TypeOK`, `TimerHeld`, `TransportsHeld`, `FencedInOrder`,
  `NoWriteLost`, `TakeoverDrains`. `Known` carries the types through: a call that
  is not idle has a batch, waits for at most one request, and that request is the
  one for the first write of its batch. On top of it, one strengthening each:
  a heartbeat awaits its renewal for a real token (`TimerHeld`); a session that
  left `acquire()` and is still starting holds the lease (`TransportsHeld`); no
  token in the outbox is above the fence (`FencedInOrder`); a call is answered
  "ok" only after its write was committed (`NoWriteLost`); and while `startSync()`
  flushes, what it inherited is committed or still in the batch
  (`TakeoverDrains`). `ImplementsLedger`: each step of the sessions accepts,
  commits or retires at most one write, or stutters. `DrivesLifecycle`, step by
  step: `Staged` says which phases and streams each stage of `ctl` allows, so the
  event a step dispatches finds the machine in a phase from which the step's
  phase is the reducer's; the reducer's token tests hold because the session's
  token is current exactly in the running phases.
- `PgOutboxProofs`, for any number of rows, transactions, statements and clock
  values: `TypeOK`; `NothingBehindCursor`, from `LogInv` (only the holder of the
  advisory lock has entries to commit, and they lie past every committed one and
  every cursor); `FencedCommits`, from `FenceInv` (a transaction whose token
  passed keeps the fence row to its end); `EditOrder`, from `EditInv` (a row's
  states, its pending entries and its committed entries are one ascending
  sequence along the row's lock); `CaughtUpIsCurrent`, from `LatestInv` (the last
  entry of each row, which pruning keeps, is the row in the table) and
  `ReaderInv` (what a reader has of a row is the last entry it read of it, unless
  it refused that one as below what it has of an older life). The four together
  give `ImplementsFeed`: `EditInv` and
  `LatestInv` say that the rows a transaction has locked by its commit are those
  it has entries for, with the last entry's contents (`CommitIsWhole`); `LogInv`
  numbers the entries; `FenceInv` gives them the fence's token.

Model-checked only: the liveness properties `OnlySupersededStay` and
`StatementsFinish`. Liveness under fairness, ENABLED and what a recursive
definition computes are out of the prover's reach. Every other property of a
passing run is a theorem.

## Plan

What is left, in this order:

1. The Dart client over `SyncStorage`: it follows `client.mjs`; its storage calls
   and its outbox differ.
2. A single client as an implementation of `WriteLedger`, per row and key, so that
   `StartSync`'s abstraction of slots and coalescing is itself a theorem.
3. The reconnect chain of the backend stream: `getToken`, timers and `stop()`
   racing `connect`.

Not modelled and why:

- Decoding, the enumerations of policies, telemetry and the WASM bindings hold no
  protocol state. Sharing and replaying among several observers of one stream is
  the RxJS library's.
- The Supabase transport is a second source of the deliveries `SyncClient`
  already makes in any order and any number of times; sync cursors only choose
  which changes are delivered, and every choice is allowed here.
- `StartSync`'s `stream` stands for `connect`, its timer and its wait for a token
  together, as open, closed or stopped.
- `tryAcquire`, and a second `acquire()` on one lease object: `startSync` makes
  one.
- Statements of several rows, savepoints and isolation levels above READ
  COMMITTED: the SQL's guarantees rest on locks, and a statement of several rows
  is several of the model's in one transaction. `next_hlc`'s counter is an int4
  in the outbox; its overflow needs 2^31 edits of a row in a millisecond.
- The order of versions across the lives of a row that is deleted and inserted
  again: the SQL gives none.
