# TLA+ models of VGI for Rust

VGI lets a database engine call functions, scans and catalogs that live in
worker processes. This directory holds TLA+ specifications of the Rust
implementation (`src/`), the TLC configurations that check them on small
instances, and TLAPS proofs that carry the most important results to every size.

Paths below are relative to `src/`. `PROJECT.json` lists, for each definition,
the source lines it models (`map`), and for each part of the system whether and
where it is modelled (`components`).

## 1. The system and its parts

**Client side** (`vgi-client`, linked into the engine):

| part | source | state it shares | module |
|---|---|---|---|
| worker pool | `pool.rs` | idle connections of all callers of a process | `WorkerPool` |
| launcher | `launcher.rs` | a lock file and a socket path, processes of a machine | `Launcher` |
| HTTP calls | `retry.rs`, `auth/` | a token and its refresh, threads of a process | `HttpCall` |
| in-memory result cache | `cache.rs` | results and their caps, threads of a process | `ResultCache` |
| persistent result cache | `disk_cache.rs` | a directory, threads of several processes | `DiskCache` |
| split planning | `scan.rs` | a plan and the splits its readers claim | `Splits` |
| scans and exchanges | `scan.rs`, `exchange.rs` | a stream with a worker | `TableStream`, `TableInOut` |

**Worker side** (`vgi`, with the functions of `vgi-example-worker`):

| part | source | state it shares | module |
|---|---|---|---|
| socket serve loop | `transport.rs` | the socket path, with the launcher | `Launcher` |
| stream dispatch | `dispatch.rs` | continuation tokens, work queue, flush rows | `TableStream` |
| filters | `pushdown.rs`, `pushdown/` | snapshot, deltas, compacted history | `FilterHistory`, `Predicates`, `FilterScan` |
| table functions | `table_function.rs`, worker's `table/` | a producer, or the token that rebuilds it | `ProducerFunctions`, `ScanFixtures`, `Producers` |
| split tokens | `split_token.rs`, worker's `table/splits.rs` | what a token binds a split to | `Splits` |
| table-in-out functions | `table_in_out.rs`, worker's `table_in_out/` | continued replies, the execution's log | `InOutFunctions`, `TableInOut` |
| window partitions | `window_cache.rs`, handlers in `dispatch.rs` | stored parts, decoded copies | `WindowCache` |
| aggregates | handlers in `dispatch.rs`, worker's `aggregate/` | group states in the storage | `Aggregation` |
| buffering, COPY TO | `buffering.rs`, `copy_to.rs`, `dispatch.rs` | sunk rows in the storage | `Buffering` |
| accumulated collections | worker's `accumulate/` | a directory, several processes | `Accumulate` |
| registries, overloads, scalars | `worker.rs`, `dispatch.rs`, `overload.rs`, `numeric.rs`, worker's `scalar/` | the catalogs' functions | `Dispatch`, `Overloads`, `ScalarCalls` |
| function storage | `storage/` | values, logs, queues of pooled workers | `FunctionStorage`, `FsStorage`, `HttpStorage` |
| stored catalogs | `stored_catalog.rs`, `catalog_contents.rs` | a session's event log | `StoredCatalog` |
| published catalogs | `catalog_snapshot.rs`, `catalog_snapshot_s3.rs` | manifests in an object store | `CatalogSnapshot` |

**Storage server** (`vgi-storage-server`): one process with SQLite behind one
mutex and a reply cache in memory; in `HttpStorage`.

How they meet at run time: the *launcher* finds or starts a worker, the *pool*
keeps connections to it, a *scan* opens streams over a connection or HTTP; the
worker *dispatches* the stream's turns, and over HTTP gives the whole state of a
stream away in a token after each turn; what a token cannot hold (work queue,
flush rows, partitions, group states) is in the *function storage*, because the
next turn may reach another pooled worker; complete results go into the two
*result caches*, from which later scans are answered without a worker.

## 2. Modules

A component's module has its state, one action per operation and its properties.
`MC*.tla` gives values to constants and puts components side by side:
one variable (`part`, or `store` in `MCStorage`) says of which component a
behaviour is, and the variables of the others stand still. That keeps the number
of runs down without multiplying state spaces.

| module | models | granularity of a step |
|---|---|---|
| `WorkerPool` | `acquire` (hit, miss, connect), `poison`, drop of a `PooledClient`, `flush`, `reap`, drop of the pool | a section under the pool's mutex; `connect` is outside it |
| `Launcher` | `ensure_worker` with `flock`, probe, unlink, spawn, discovery; `serve_unix` | a system call |
| `HttpCall` | `RetryTransport` around `AuthenticatedHttpTransport`, one `OAuthAuth` for all threads, refresh, device flow, `clear` | a request, a wait, a section under the auth mutex |
| `ResultStore` | abstract: what a cache of results promises its readers | publication, drop, read |
| `DiskCache` | capture, commit, lookup, lease, revalidation, flushes, eviction, sweeps of `open` and `reap`, crash, damage | a section under the exclusive lock; a commit is split at its crash points and clock readings |
| `ResultCache` | eligibility, insert, get, slide, remove, flushes, reap, `set_limits` | a section under the inner mutex; the `RwLock` of the limits is held across steps |
| `CatalogSnapshot` | find, validate, renew, publish, invalidate a manifest; gates of a process | a conditional write or read of the repository, a section under a gate |
| `WindowCache` | `window_cache.rs` and the window handlers | one storage call, or one section under the cache lock |
| `FunctionStorage` | abstract: the trait's promises about one scope, which `MemoryStorage` more than keeps | an operation takes effect at one instant, a scan at two |
| `FsStorage` | `storage/fs.rs` | a system call |
| `HttpStorage` | `storage/http.rs`, the server's `rpc`, SQLite behind it | a message, a step of the handler |
| `StoredCatalog` | DDL against the replayed log, its append, `catalog_contents` and its validators | a storage call |
| `FilterHistory` | `DeltaHistory` of `pushdown.rs` as operators | – |
| `TableStream` | `handle_init`, producers and exchanges, tokens, the client's turns | a request and its reply |
| `Producers`, `ProducerFunctions`, `ScanFixtures` | the example worker's table functions, as descriptors and as scans | a turn |
| `Splits` | `plan` page by page with its checks, tokens, redemption, the walk of a split | a page, a turn |
| `Predicates`, `FilterScan` | parsing limits, three-valued evaluation, domains, bounds; a scan whose filters change | a tick |
| `InOutFunctions`, `TableInOut` | the example worker's table-in-out functions; the turns, continued replies, finalisation, the caller's kept answers | a turn |
| `Overloads`, `Dispatch`, `ScalarCalls` | argument binding and scoring; registries and listings; bind and batches of a scalar | a call |
| `Aggregation`, `Buffering`, `Accumulate` | the sink side of the worker | a storage call or a file operation |

Composition inside a module: `Launcher` joins the client's launcher with the
worker's serve loop, which meet at the socket path; `HttpCall` puts the retry
policy around the credential recovery; `WindowCache` joins handlers, cache and
stored parts; `HttpStorage` joins client and server; `TableStream` builds on
`FilterHistory`, since a scan's token carries the compacted filter history.

A definition has the name of the code where TLA+ allows it. An operator `Mut_X`
before `X` is `X` with a plausible fault. For every property of a passing run
`PROJECT.json` names at least one such fault that TLC finds through that
property.

### What a state variable stands for

* `WorkerPool`: `conn[c]` is a connection and where it is; `auth[k]` numbers the
  auth objects that have lived at the address that key `k` carries, since the key
  knows the object by its address only.
* `Launcher`: `path` is the worker whose socket the path names; `wk[w]` has the
  worker's accept queue, in which a probe takes a slot like any connection; `env`
  says what may befall the processes (nothing, stops, kills) and never changes.
* `HttpCall`: `auth` is the state under the mutex of `OAuthAuth`; `th[t]` a call
  with its attempt and, when the thread leads an exchange, what it has in hand;
  `grant` the refresh token the provider takes; `fault` what has gone wrong (at
  most one of: a lost answer, a refused token, a logout).
* `DiskCache`: `refs[k]` is the file `refs/<k>.ref` (`Bad` when unreadable),
  `obj[g]` the directory of generation `g` under `tmp/` or `objects/`, `mutex`
  the `operations` mutex of a handle, `shared`/`excl` the advisory lock on
  `.operations`. A lease is the pair of the file lock (`LeaseLock`) and the
  entry in the handle's map (`InLeaseMap`), which `Lease::drop` gives back in
  two steps.
* `ResultCache`: `slots`/`order` are the map by recency, `entries`/`total` the
  counters the caps are enforced by.
* `WindowCache`: `store[k]` holds the three parts of a partition, each known by
  the initialisation that wrote it; `cache[w]` the decoded copies of a worker
  and its generation counter; `life` what the engine has asked for; `doomed` in a
  handler is history, the copies that were dead when its prune began.
* `FsStorage`: files are inodes with contents, so that a truncated, half-written
  or renamed file is what a reader sees; `age` is the time since each directory,
  or a file in it, was modified; `env` says which part of the scope is in use and
  whether operations overlap, system calls fail and processes are killed, or time
  goes by and workers that start sweep.
* `Accumulate`: `segs` are the segment files by name, `Torn` between the two
  halves of `fs::write`; `schema` is `schema.ipc`, `dir` the existence of `seg/`;
  `hist` the collection as the calls that have returned make it.
* `TableInOut`: `exchange[s]` is the client's `Exchange` with what it latched
  (cache directives) and whether the connection under it is alive.
* `Aggregation`: `fn.engine` says which group ids and executions the engine's
  threads use, which the worker does not decide.
* `HttpStorage`: `requests` are attempts on their way or in the server's hands,
  `idem` the reply cache, `applied` the history of what each call did.
* `TableStream`: `state[s]` is the live handler over a byte stream and the token
  over HTTP; `queue`, `log` the shared store; `got` what the client received.

## 3. Runs

Seven passing runs, and five that show a disagreement.

| run | components | instance | checks |
|---|---|---|---|
| `pool` | `WorkerPool`, `WindowCache` | 2 callers, 3 connections, 2 keys (one with an auth object), 1 idle slot, 3 acquisitions, idle timeout 1; 2 handlers of a worker, another worker outside, 2 partitions, 3 initialisations, room for 1 copy, 3 addresses | `SoleOwner`, `RightScope`, `PoolBooks`; `WindowSound`, `WithinBudget`, `PrunesJustified` |
| `disk` | `DiskCache` | 2 processes, 1 key, 3 generations, 1 crash or damaged file, clock 0..1; or 2 threads of one handle, 2 keys, sizes 1 and 2 in 2 bytes | `LeasedObjectStays`, `RefsResolve`, `CaptureKept`, `LocksComeBack`, `LookupSparesReplacement`, `OpenRecovers`, `RefinesStore`, `BoundsKept` |
| `client` | `Launcher`, `HttpCall` | 2 starters, 2 workers, accept queue of 1, 1 re-probe; 2 threads, 2 attempts, one reissued token | `CalmLaunch`, `AtMostOnce`, `OneExchange`, `CallsReturn` |
| `caches` | `ResultCache`, `CatalogSnapshot` | 2 threads, 3 keys, two sets of caps; 2 threads of one or two processes, 2 revisions, 2 or 3 calls, 1 fault | `ResultBooks`, `RemovalsJustified`, `SnapshotsExact` |
| `storage` | `FsStorage`, `HttpStorage`, `StoredCatalog` | 2 processes, ids 0..2, batches of 2, with overlaps, with faults, or with sweeps of ttl 1; 2 clients, 3 calls, 2 attempts; 2 workers, 12 DDL statements, logs of 3 | `GcSparesActive`, `RefinesContract`, `ReplayExact`, `NoOldValue`, `CatalogsSound` |
| `scans` | `TableStream`, `Producers`, `Splits`, `FilterScan`, `TableInOut` | 2 streams, 5 kinds of function, 3 batches, 3 chunks of 2, deltas; every table function; plans of up to 4 pages and 12 splits, 2 readers, 1 loss; filter documents of depth 4; 2 exchanges of 2 inputs | `StreamExactDelivery`, `StreamFiltersSurvive`, `StreamAllEnd`, `ScanFaithful`, `SplitsExact`, `PruningSound`, `RepliesExact`, `FinalizeExact` |
| `functions` | `Dispatch`, `ScalarCalls`, `Aggregation`, `Buffering`, `Accumulate` | 3 of 13 functions; every scalar over small values; 2 threads, 2 groups, 3-bit integers, 3 engines; 2 sinks, 1 failed store call; 2 processes, 3 collection calls | `NamesResolve`, `BoundAsWritten`, `RowsExact`, `EvaluationsAgree`, `BufferingExact`, `CollectionSound` |
| `launcher_stop_race`, `result_cache_lock`, `storage_http_late`, `table_stream_hints`, `retry_ddl` | | | *violations*, see section 6 |

**Why these bounds.** Each races at least two actors over one contended thing,
and leaves one more of what is used up than a single success takes. Three
generations are a current entry, its replacement and a capture under way; two
sizes that together exceed `MaxBytes` make an eviction necessary while a lease
forbids it. One idle slot for two returns and three connections makes the pool
full and lets a third connection be opened. An accept queue of one is full with
one client. A cache with room for one copy and two partitions evicts; two
initialisations of one of them make a copy stale, and three addresses are one for
the entry and one for what each prune still remembers. Three chunks of two
batches for two streams leave a chunk half read in a token while the other stream
takes the next. Three deltas over two advisory predicates are what it takes to
supersede, remove and revive a predicate in one history. Clocks run just far
enough for an entry, a lifetime or a grace period to end while something is under
way. Every bound is a constant (`Max...`) or named at its guard. Two bounds are
in `MC` modules: `Afford` (`MCCaches`) allows a third snapshot call only where
the threads share a process and nothing failed, and `Telling` (`MCStorage`)
leaves out pairs of fault and store part that no property distinguishes. The
engine with an execution per thread, of whose answers no property speaks, runs
two of the aggregates.

Symmetry is declared over sets whose members the specification does not tell
apart (connections, callers, generations of equal size, processes, clients,
threads), and in no run that checks a liveness property.

**Deadlock** is checked in `disk`. It is off where a bounded number of
calls is used up (`pool`, `client`, `storage`, `functions`), where a query is
over (`scans`), and in `caches`, whose real deadlock is the subject of
`result_cache_lock`. In `client` the property `CallsReturn` says that no caller
is stuck.

**Fairness.** Assumed of running code only, never of the environment:

* `Launcher`: a starter inside `ensure_worker` goes on, and a waiter in
  `flock(2)` gets the lock if it is free again and again (strong fairness; the
  kernel wakes waiters in turn). Nothing is assumed of workers.
* `HttpCall`: a thread that computes, sleeps between attempts or waits for
  another thread goes on: the waits are bounded by the code (180 s for a leader).
  Nothing is assumed of requests: the requests to the provider have no deadline,
  and an RPC has one only if its client was given one. So `CallsReturn` says that
  a call returns *if its own thread's requests are answered*; a leader whose
  provider never answers does not keep the others.
* `ResultCache`: a call whose lock is free goes on.
* `TableStream`: the client keeps asking until its stream ends and the worker
  answers; deltas, lost replies and cancellation are not assumed to happen.

The disk cache needs no fairness: `LocksComeBack` says of every reachable state
that whoever holds the exclusive lock, the shared lock or the mutex of a handle
can take its next step, so that no error path leaves a lock behind.

`CallsReturn` and `StreamAllEnd` are stated as "again and again not inside a
call": the same as "every call returns" for callers that begin only what they
are not in.

## 4. Properties

Each property states in a comment what it says and which code it is about. The
ones a reader should know first:

* **`RefinesStore`** (disk): whatever the processes do, a lookup returns the
  entry that is current when it reads the reference, a commit that fails, expires
  or dies is never seen, and a removed generation does not come back. Between the
  write of the reference and the end of the commit the abstract entry is still
  the old one: readers need the lock the commit holds, and a rollback may follow.
* **`LeasedObjectStays`, `RefsResolve`, `CaptureKept`** (disk): what a reader
  leased, a reference names, or a capture owns, stays in place.
* **`OpenRecovers`** (disk): opening after any crash leaves no unreferenced
  object but leased ones, no dangling reference, and the bounds hold unless
  leased objects alone exceed them.
* **`RightScope`** (pool): although a key knows the auth object by address, a
  caller gets a connection made with its own object, because a pooled connection
  keeps its object alive.
* **`CalmLaunch`, `CallsReturn`** (client): while no worker stops of itself and
  no starter is killed, concurrent starters share one worker whose socket stays;
  and, with such stops and kills, no wedged worker holds a starter or the lock
  for ever.
* **`AtMostOnce`, `OneExchange`** (client): a method that moves session state or
  folds input into an accumulator runs at most once per call although attempts
  are repeated and a refused token makes the call be sent again (of methods that
  change a catalog this is not so: `retry_ddl`); and, unless the user logs out in
  between, one thread at a time talks to the provider, with the refresh token
  that the provider still takes.
* **`WindowSound`, `PrunesJustified`** (windows): a call over a live partition
  gets the three parts of one initialisation, the worker that destroys a
  partition keeps no copy although loads were running, the prune, which asks the
  storage without the lock, never takes the copy of a new initialisation, and
  what was dead when it began is gone when it ends.
* **`RefinesContract`** (storage): the operations of the filesystem backend, a
  handful of system calls each, are single steps of the `FunctionStorage`
  contract (two for a scan), for callers that keep that contract (section 7). The
  contract is as weak as the code makes it: a scan may return an entry empty
  while its append is going on, and where system calls fail or processes are
  killed values may be missing or cut short, since no operation reports an error.
  What remains: nothing is returned that was not stored, whole entries are
  returned whole and in order, and an item is popped once.
* **`GcSparesActive`** (storage): a sweep, which walks the scope directory by
  directory with the clock it read at the start, removes no scope that anything
  was modified in within the ttl.
* **`SnapshotsExact`** (published catalogs): a client gets contents that were the
  catalog's while it waited, and a manifest is replaced only by its renewal or by
  a tombstone put for that very manifest, whatever processes write between each
  other's reads.
* **`StreamExactDelivery`, `StreamFiltersSurvive`** (streams): on whichever
  workers the turns of a stream are served, every batch comes exactly once, a
  stream does not end short without an error, and the filters rebuilt from a
  token are the ones all deltas amount to, order and revisions included.
* **`SplitsExact`** (splits): redeeming a plan gives the rows of the unsplit
  scan, each once and in order, and no row under a token minted for another bind
  or catalog version. Two plans of the example worker are shorter than their scan
  (section 6); of these it gives the planned rows.
* **`RepliesExact`, `FinalizeExact`** (table-in-out): every reply an exchange
  accepts holds the rows of its own input, although turns are refused, answers
  are lost on the way and a caller sends again after a failed turn, which nothing
  stops it from doing; cache directives are those of the last reply that had any.
* **`PruningSound`** (filters): no domain, bound or partial-row test rules out a
  row that the filters accept, with NULL, NaN, negation and empty lists.
* **`NamesResolve`** (registries): what is listed can be called under the name
  and schema it is listed with, whatever was registered, renamed, adopted or
  hidden around a cached listing, unless its name is shared with a kind that a
  bind looks at first.
* **`RowsExact`** (scalars): an addition that answers a number answers the exact
  sum, over any mix of types, unless a column has more digits after the point
  than the bound type; it answers NULL only for the reasons its comment lists. Of
  the other scalars binding, batches and revalidation are modelled, not values.
* **`EvaluationsAgree`** (aggregates): merged, windowed and streaming evaluation
  give what a reference definition gives over all the rows, for an engine that
  names one execution and does not let two updates of one group id overlap. The
  worker enforces neither; the model has the engines that do otherwise, and
  their groups are exempt from the property, not from the model.
* **`BufferingExact`** (buffering, COPY TO): all that was sunk is drained, or
  written, once and in order. The store reports no failure, so a failed append or
  scan costs its batches silently, and no other row.
* **`CollectionSound`** (collections): calls one after the other make the
  collection they ask for; of overlapping ones each fails or returns, of every
  call it saw, all rows up to the last, and no file is left mixed or torn.

Two observations. `DeltaHistory` keeps the predicate order beside the deltas and
restores it after a replay; in the model the restored order is always the order
the replay has already produced, because an upsert moves its predicate to the
end. And two gate leases of `catalog_snapshot.rs` dropped at the same time leave
the gate in its map, where the next lease of the key finds it.

## 5. What is proved

TLAPS checks these for every value of the constants. Each rests on the named
assumption about constants of its component, no more than types, finiteness of
what is counted, and `None` being no member of the sets it is an alternative to:
`PoolAssumption`, `DiskAssumption` and `RecordAssumption`, `LauncherAssumption`,
`HttpConstants`, `StoreConstants`, `WindowAssumption`. `StoreConstants` says
more, and the two theorems on windows have a premise, `ReuseStaysHome`; both are
discussed below. TLC evaluates the assumptions on the instances of section 3.

| theorem | module | statement |
|---|---|---|
| `PoolTypeCorrect` | `WorkerPoolProofs` | `Spec => []TypeOK` |
| `PoolScope` | `WorkerPoolProofs` | `Spec => [](RightScope /\ SoleOwner)` |
| `PoolSoleOwner` | `WorkerPoolProofs` | `Spec => []SoleOwner` |
| `PoolBooksKept` | `WorkerPoolProofs` | `Spec => []PoolBooks` |
| `WindowsSound` | `WindowCacheProofs` | `ReuseStaysHome => (WindowsSpec => []WindowSound)` |
| `WindowPrunesJustified` | `WindowCacheProofs` | `ReuseStaysHome => (WindowsSpec => PrunesJustified)` |
| `DiskTypeCorrect` | `DiskCacheProofs` | `Spec => []TypeOK` |
| `DiskLeases` | `DiskCacheProofs` | `Spec => []LeasedObjectStays` |
| `DiskRefs` | `DiskCacheProofs` | `Spec => []RefsResolve` |
| `DiskCaptures` | `DiskCacheProofs` | `Spec => []CaptureKept` |
| `DiskLookupSpares` | `DiskCacheProofs` | `Spec => LookupSparesReplacement` |
| `DiskOpenRecovers` | `DiskCacheProofs` | `Spec => OpenRecovers` |
| `DiskRefinesStore` | `DiskCacheRefinement` | `Spec => RefinesStore` |
| `LauncherCalm` | `ClientProofs` | `Spec => []CalmLaunch` |
| `HttpAtMostOnce` | `ClientProofs` | `HttpSpec => []AtMostOnce` |
| `HttpOneExchange` | `ClientProofs` | `HttpSpec => []OneExchange` |
| `HttpOwnResult` | `HttpStorageProofs` | `StoreSpec => []ReturnsOwnResult` |
| `HttpReplayExact` | `HttpStorageProofs` | `StoreSpec => []ReplayExact` |
| `HttpNoOldValue` | `HttpStorageProofs` | `StoreSpec => NoOldValue` |

TLC checked every inductive invariant on the instances above before it was
proved.

**Pool.** `RightScope` alone is not inductive: when a caller takes an idle
connection, nothing says whose auth object that connection was made with. The
invariant `Scoped` adds `ScopeRetained` (a connection that is not closed, and a
call that is connecting, keep their object at its address, so the address cannot
be given to another object) and `SoleOwner` (a return by one caller changes
nobody else's connection). `PoolBooks` then follows step by step: what is idle is
clean and within the cap, and each counter moves with the cardinality it counts.

**Windows.** The invariant (`WindowCacheInvariant`) follows who has a partition
in hand. A partition being initialised, destroyed or ended has exactly one
handler doing it (`Owned`), so what storage holds of it follows from its state
and from how far that handler is (`Stored`, `Programs`). A copy in a cache, and
a load under way, are of the current initialisation as long as the partition
lives (`Copies`, `Programs`). Once a worker has removed its copies, a load that
began earlier carries an older generation and is not admitted, and one that
begins later finds no batch in storage (`Clearing`): nothing brings the copy back. And the
victim of a prune, known by its address, can still be in the cache only if the
partition has not come back to life (`Prunes`): a `Weak` keeps the address from
being used again. Every step is a frame lemma (`StayStep`, `ChangeStep`) applied
to what that step changes.

`ReuseStaysHome` says that a partition id is initialised once, or that one
worker serves the execution, and it is a hypothesis about the caller, not about
the code. A copy in another worker is known by the id alone; if the id is used
again while such a copy lives, that worker serves the old partition, and TLC
shows it when the hypothesis is dropped. The model also takes it from the engine
that it awaits its calls before it uses an id again.

**Disk cache.** The invariant `IInv` (`DiskCacheInvariant`) is
`TypeOK /\ Programs /\ Locks /\ Places`:

* `Programs`: where a thread's program uses its key, generation or record, it
  has them.
* `Locks`: a thread in a commit past admission holds the exclusive lock and the
  mutex of its handle. So two such threads are one, and whoever gets the lock
  finds no commit between its rename and its end.
* `Places`: the three properties, and what they rest on. `Minted` and `OneOwner`
  (a capture's name is used once), `OneRef` (no two references name one object,
  so removing the object of one does not break the other), and `Publication`, the
  window in which an object is in place and its commit undecided: the reference
  is the old record before the write and the new one after it, the old object is
  still there and nobody else refers to it, so both ways out, success and
  rollback, leave references that resolve.

The proof has one idea for all removals: the relation `Cleaned(R, O, R1, O1)`
says that references only disappear and that an object that disappears is neither
leased nor referenced afterwards. It is transitive, each primitive removal
satisfies it, so sweeps, flushes, evictions and the admission of a commit, which
are sequences of removals, do, and a `Cleaned` step keeps `Places`.
`DiskCacheProofs` treats the steps that place something: rename, publish,
rollback, revalidation and the lease. `DiskOpenRecovers` follows the sweeps of
`open` in their order. `DiskCacheRefinement` maps the directory to `ResultStore`:
a key shows the old record until its commit ends (`Shown`), the generations that
are gone are spent (`Spent`), and every step is a `Put`, a `Read`, or a `Drop`,
which may be of nothing.

**Launcher.** What the lock holder has found out is the invariant: after its
second failed probe no worker is alive, and until the discovery line is read the
only one is its own child. A worker that is not the child of a waiting starter
serves on the path, so a probe under the lock finds it. All of it is under the
condition `env = "calm"` that is part of `CalmLaunch`: where workers stop, it is
false, as `launcher_stop_race` shows.

**HTTP calls.** `AtMostOnce` is proved for the methods that
`method_is_retryable` calls deliberately absent, together with where a call of
one is once it ran: at the decision that ends it. `OneExchange` needs that the phase under
the mutex says whether some thread leads, and what the leader has in hand at each
step of its exchange.

**HTTP storage.** `HttpOwnResult` and `HttpNoOldValue` assume only that the
number of calls is a natural number, and hold whatever is lost, late, restarted
or cleared (`NoOldValue` itself excludes late attempts). `HttpReplayExact` needs
`StoreConstants`: all the calls fit into the reply cache, so that it is never
cleared. There is one request of a call at a time, an application is known to the
cache or to the request about to tell it, and the cache has room because its keys
inject into the calls other than the one being answered.

**Model-checked only**, and why:

* Liveness (`CallsReturn`, `StreamAllEnd`) and `LocksComeBack`: fairness and
  `ENABLED` are out of the provers' reach.
* Sums over data: `WithinBudget`, `BoundsKept`, `ResultBooks` compare a
  counter with a sum over a set; the facts about such sums are induction over
  data.
* Modules built on recursive operators: `CatalogsSound`, `PruningSound`,
  `NamesResolve`, `BoundAsWritten`, `RowsExact`, `BufferingExact`, and with them
  the algorithms checked against reference definitions over bounded inputs
  (`ScanFaithful`, `SplitsExact`, `RepliesExact`, `FinalizeExact`,
  `EvaluationsAgree`, `CollectionSound`).
* `RefinesContract`, `GcSparesActive`, `SnapshotsExact`, `RemovalsJustified`,
  `StreamExactDelivery` and `StreamFiltersSurvive` are not proved yet. The first
  needs the contents of files related to the abstract log through every
  interleaving of two writers.

## 6. Disagreements between code and words

The five runs marked *violations* check one sentence of the repository each; the
counterexample is a behaviour of the code. Details are under `findings` in
`PROJECT.json`.

1. `launcher_stop_race`. `serve_unix` closes its listener, then removes whatever
   is at its path. A starter in between finds the socket dead, unlinks it and
   spawns a successor, whose live socket the old worker removes. The launcher's
   comment: a live listener's socket "must never be unlinked".
2. `result_cache_lock`. `eligibility` reads the limits with one read guard inside
   another; a `set_limits` queued between the two waits for the first and makes
   the second wait. The comment: `set_limits` "Returns the number of entries
   evicted by the update."
3. `storage_http_late`. The server looks the idempotency key up, applies the
   operation and stores the reply with the lock released in between, so a retry
   of an attempt still being served is applied as well. The comment: "a retried
   request can't double-apply".
4. `table_stream_hints`. The token of a scan has no field for the `TABLESAMPLE`
   hint. The comment: the blob "Carries everything needed to rebuild the handler".
5. `retry_ddl`. `method_is_retryable` allows every method whose name begins with
   `catalog_schema` or `catalog_table_`, the ones that create, alter and drop
   included, so one of these is sent again when a gateway fails after it ran.
   The comment: the methods listed "leave no state behind".

In each case the neighbouring property that does hold is checked by a passing
run: `CalmLaunch`, `ResultBooks` and `RemovalsJustified`, `ReplayExact`,
`StreamFiltersSurvive` with `StreamExactDelivery`, and `AtMostOnce`.

Other things met while modelling, which the models contain and the properties
allow for, each in its comment:

* a `scan` of `fs.rs` that lists an entry between its creation and its write
  returns it empty; a stored catalog read in that moment reports a corrupt DDL
  log. A write, read, claim or listing of `fs.rs` that fails is not reported;
* an aggregate update reads, folds and stores a group's state without a lock, and
  `combine` finds states of one execution only, while
  `vgi-client/src/aggregate.rs` describes an execution per thread;
* an exchange whose turn failed takes another `send`; its cache directives stay
  those of the last reply that carried any;
* COPY TO empties its destination when `close` opens it, so a failure in `close`
  leaves a part of the file;
* a bind looks for a buffering and then for a table-in-out function of the bare
  name before the kind that was asked for; registering a name that is shadowed
  in this way is not refused;
* a window partition id that is used again is served from an old copy by a
  worker that had one (section 5);
* integer arithmetic and `list_contains` in a predicate pass the parser and fail
  in evaluation; the accessors of `pruning.rs` report a struct field's value for
  its column;
* `sum_values` takes the promoted type of its first column; `add_values` of an
  unsigned 64-bit and a signed column gives NULL for large values, a decimal
  beside an integer is added as `Int64` and drops its fraction, decimals of
  different scales may sum to NULL, and at the largest precision `add_values` may
  answer a number that has more digits than its type; `hash_seed` and
  `random_bytes` begin again with every batch;
* a streaming sum keys rows of other types than integers and texts by their row
  index, and `listagg` drops the empty strings at the head of each thread's text;
* a split sequence with `splits := 0` plans no split, whatever `n` is, and a
  skewed one with one split plans its first part only;
* a nested schema created below a parent spelled in another case makes
  `catalog_contents` refuse the session's catalog (`CatalogsSound` says that
  this is the only way); a snapshot retried after a version change fails in
  `cache_key`, which compares with the version of the request;
* the COPY handlers of the example worker share one name.

## 7. Assumptions and abstractions

* Crashes are process crashes: what was written stays. Loss of unsynced
  directory entries at a power failure is not modelled.
* `DiskCache` has one clock for the wall clock and the process-local one;
  statistics are left out, and the order of eviction is any order.
* `Launcher` has no durations: a probe may pause for any time, an idle timeout
  may fire whenever the queue is empty. `connect` is that of Linux.
* `HttpCall`: durations are counted from the beginning of a call; at most one of
  a lost refresh answer, a token refused early and a logout happens.
* `CatalogSnapshot`: the revision of the catalog's source only grows. One call to
  the repository, the identity hook or the collection may fail, before or, for a
  conditional write, after its effect.
* `Buffering`: entries of the sink's init and one later store call may fail.
* `Accumulate`: a file is created or cut in one step and written in another; calls
  one after the other are at least a microsecond apart.
* `TableInOut`: the answer to a turn may be lost on its way, and the connection
  may be gone before a turn reaches the worker; an exchange does not reconnect.
* `FsStorage` assumes of its callers what the trait and the dispatcher promise:
  one writer of a key at a time, a queue is filled before it is drained, a scope
  is cleared when nobody uses it, and an execution that goes on changes its scope
  within the ttl. Where calls fail, a log has one writer. A log may be read while
  others append to it. A walk of `gc` takes at most one unit of time (`MaxWalk`),
  and the metadata it asks for can be read.
* `HttpStorage`: a `kv_get` stands for the reads and a `kv_put` for the writes
  without an idempotency key; a late `kv_put` may undo a later one, which
  `NoOldValue` excludes.
* `WindowCache`: the destructor may also run on a worker outside the model
  (`DestroyElsewhere`); addresses are the ones no entry and no prune remembers.
* `TableStream`: a batch is its number, a predicate its id, revision and value.
* `Producers`, `Splits`, `TableInOut`, `ScalarCalls`, `Aggregation`, `Buffering`:
  a function of the example worker is a descriptor of what its behaviours differ
  in; sizes that decide a branch are those of the source, integers are narrow and
  wrap, texts are sequences of parts.
* `Dispatch`: names are compared without regard to case and stand in one case.

## 8. Not modelled

Conversions, parsers, codecs and generated code (SQL reader, Arrow codecs,
protocol records, statistics, constraints), sealing of tickets and tokens,
header parsing, service registration, the browser entry points and the examples
have no interleaving and no state to check; `components` in `PROJECT.json` lists
each with the reason. Of the modelled parts, these stay out: streaming HTTP
calls and the parsing of token answers, tensor aggregates, geometry and list
predicates, the SQLite backend's own orphan collection, and `serve_tcp`, which
is the loop of `serve_unix` without a path.
