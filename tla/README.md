# Project Sentinel: specifications

TLA+ specifications of the parts of Project Sentinel in which several actors,
failures or a long history decide whether the code is right, the TLC
configurations that check them on small instances, and TLAPS proofs, for every
instance, of what matters most. `PROJECT.json` is the index: components, runs,
the source lines behind every definition, hazards and theorems.

## 1. The system

Sentinel runs a simulated company of LLM agents. One `sentinel-daemon` per node
ticks an ECS world, keeps hot state in redb and an append-only event store in
SQLite, and starts agents in sandboxes with a content-addressed filesystem.
LLM calls go through `cortex-gateway` (Go). Projections build read models from
the event store; a publisher sends its outbox. Several nodes form a cluster:
one node, the *chef* (seed), decides which node may write which *scope* (the
world, or one agent's container).

| part | state | operations | talks to |
|---|---|---|---|
| handoff saga (`handoff.rs`) | locals of `run_handoff` | prepare, build, install, replicate, commit, abort | peers by control RPC, own metadata store |
| owner RPC handlers (`owner_handler.rs`) | none of their own | PrepareHandoff, ReplicateOwnerSnapshot, OwnerCommit | metadata store, owner registry |
| owner metadata (`cluster_meta.rs`) | installed snapshot and marker, retirement overlays | install, put overlay, complete overlay | redb |
| owner registry (`fencing.rs`) | terms, base states, overlays, readiness latch | rebuild, close, retire, issue, validate | every store that writes |
| control plane (`sentinel-cluster-control`) | idempotency cache | request with an idempotency key | peers over QUIC |
| block gossip and resolver | block map, gates, remembered failures | republish, merge, resolve, pull | peers, blob store |
| event store, outbox (`sentinel-limbo`) | events, outbox, offsets, dead ranges | append, poll, mark, prune, restore | publisher, projections |
| projections (`sentinel-projection`) | views and watermark, mirrored offset | batch, mirror, rebuild | event store |
| gateway (`cortex-gateway`) | forward queue, rooms, tick buffer, breakers | one pipeline per request | providers |
| filesystem (`sentinel-fs`) | blobs, chunks, reference counts, pins, roots, trash | write, snapshot, restore, retention, two collections | FUSE, redb, directory |

What makes these hard: the operator API runs requests concurrently; a node may
die between any two transactions; an RPC may be executed and its reply lost, or
be executed after its sender has given up; old snapshots are delivered again;
handlers run outside the lock under which they were looked up; one operation
writes two databases and a directory. The hazards of `PROJECT.json` list these
by source line, with the property that would catch each.

## 2. Modules

A component's module has its state, its actions and its properties. `MC...`
modules and the `.cfg` files instantiate it for TLC. `...Proofs` modules extend
it with theorems. Definitions named "Mutant" in a comment are plausible bugs;
no specification uses them, and each property is shown to fail with one.

Several components share a run where that is cheap: `MCIdempotencyCache`,
`MCNode`, `MCAdmission` and `MCAnswers` put components with disjoint state side
by side. In each behaviour only one of them moves (variable `part`), so their
states add up instead of multiplying.

### ScopeOwnership, OwnerHandoff

`ScopeOwnership` is the abstract specification: one authoritative term per
scope, only its owner writes, and it advances only while nobody writes.
`OwnerHandoff` is the protocol.

| variable | code |
|---|---|
| `store`, `conflict` | `CLUSTER_OWNER` and the install marker of `ClusterMetaStore` |
| `overlay` | `LOCAL_OWNER` saga states: the epoch a node has retired a scope at |
| `terms`, `retired`, `ready` | `OwnerRegistry`: terms, `saga_states`, `readiness` |
| `saga` | the locals of each running `run_handoff`, and the fate of its RPC |
| `draft` | the snapshot `materialize_config_owner_scopes` has computed and not installed |
| `published` | every snapshot the chef has installed, so any that may be delivered |
| `late` | requests given up on that a peer may still run |

A handler is one step, because each one that changes ownership runs under the
node's `owner_tick_barrier`: `HandlePrepare`, `HandleReplicate`, `HandleCommit`
for peers, `HandleChefInstall` and `HandleChefCommit` for the chef's local
calls, which differ (a stale install reopens a peer's registry and leaves the
chef's closed; the chef's commit does not look at the installed term).
`run_handoff` is a sequence of steps from `BeginHandoff` to `Committed`, with
`Abort` and `Fail` for its error returns. For every RPC the handler at the peer
and the arrival of the reply are separate steps, so a reply may be lost after
execution. `Crash` forgets registry and sagas and keeps the store.

Abstracted: aliases, wire names and checksums; the coordinator generation, a
constant of the code; the recipient-local half of a snapshot, a function of the
snapshot; the payload of a scope. Assumed: operator requests name an existing
node under its own alias and use fresh idempotency keys. Two constants choose
the environment. `Serial`: the operator sends one ownership request at a time
(nothing in the code enforces it). `LateExecution`: a peer may run a request
after the chef has given up on it.

### FencedWrite

One node of the above, lock by lock: `store` and `overlay` are durable;
`terms`, `base`, `retired`, `ready` are the maps and the latch of the registry,
each behind a lock or atomic of its own; `hpc` and `draft` are the handler
under the barrier, `recovering` the unresolved config apply. A writer issues a
guard, begins and commits (`stage`), and every `validate` is four reads (`pc`).
`since` and `whole` are history. `ReopenStale` lets the recovery task open the
latch without looking at a handler, as the code does.

### IdempotencyCache

`entries` is the map under the mutex, `cellState` and `cellValue` the shared
`OnceLock`s, `pc`, `req`, `cell`, `outcome` the callers. `Lookup...` are the
branches of the critical section (purge by TTL, then conflict, hit, insert with
eviction, or exhaustion). `RunHandler`, `FinishHandler`, `TakeResponse` and
`PanicHandler` happen outside it, as `OnceLock::get_or_init` orders them.

### BlockGossip

One reading node with its disk, block map, resolver gates and reader threads,
and the disks and republish rounds of its peers. `StartRound` and `SendPage` are
`run_cas_gossip_republish`; `Read` to `Return` follow `CasStore::read` and
`BlockResolver::guarded` through the gate (`TakeGate`, `LockGate`), the block
map and the peers in turn. Faults: lost connections, crashes, changed and
damaged blobs, a restart of the reader. The daemon only sends `Add`
advertisements at incarnation 0 without expiry, so a slot of the block map is a
set of peers.

### EventLog

`events`, `pending`, `dead` are the tables; `queue` and `sent` the publisher's
batch; `snaps`, `cutoff`, `asked` the snapshots and the three ways a prune
starts; `rpc`, `anchor`, `pre`, `top` a restore under way, step by step through
its two databases; `shown`, `wm`, `offset`, `taken` the projection beside it;
`line` the events the world has lived through, and `delivered` what was sent.
Four constants let in what the code allows and its comments exclude: `SizeRule`
(a prune by the size rule, unguarded), `Undo` (a restore to a snapshot of a
discarded future), `LateFailure` (the closing event of a restore cannot be
appended), `RebuildBeside` (a rebuild during a restore).

### Projection

`head`, `views`, `wm`, `offset`, `request` are the log, the read models, the
watermarks, the mirrored offsets and the request file; `pc`, `batch`,
`rebuilding` the worker, and a rebuild from the command line if `Proc` has one.
One SQLite transaction is one action; `clear_all` is three. A view is the
number of times each row was counted. `Malformed` rows must be refused.

### ForwardQueue, ChatSequencing, TickSync, CircuitBreaker

- `ForwardQueue`: each critical section of `Manager.mu` is an action
  (`AcquireFast`, `Enqueue`, `CancelGranted`, `CancelWaiting`, `Release`,
  `SetMaxConcurrent`), `CloseReady` is what `SetMaxConcurrent` does after the
  unlock, `Enter`, `Refuse`, `Dispatch`, `ProviderReturns` are
  `queuedProvider.Send` around it.
- `ChatSequencing`: `rooms` holds the active P1 requests of each room; a
  listener takes the lock twice (`HasActiveP1`, `WaitForP1`) and waits for the
  oldest, until `Released` or `TimesOut`. `ReturnsIncomplete` is every return of
  the handler that skips `CompleteP1`.
- `TickSync`: the buffer (`pending`), its loops and their stop channel, handlers
  that ask `Enabled` and then `Hold`, and a toggler whose close of the channel
  comes after the unlock.
- `CircuitBreaker`: `Allow...`, `Record...` with window, ratio and consecutive
  count, and requests whose answers arrive in any later state.

### WorkspaceStore

| variable | code |
|---|---|
| `inodes`, `refs`, `trash`, `pins` | the metadata database of the layers |
| `files` | the blobs in the directory |
| `manifest`, `roots`, `chunks`, `counts`, `waste` | the chunk plane: objects, their roots, chunks, their counts and trash queue |
| `homes`, `orphans` | the objects running homes own (`owned_object_ids`); what `gc_chunks` has read |
| `saved`, `snaps` | world snapshots that can be listed |
| `writer`, `job` | a write through the mount; a snapshot, restore, retention or collection |

`PlaneStep`, `WriteStep`, `JobStep` and `Crash` interleave. Snapshots,
maintenance and restores exclude each other through the barrier and are one
`job`; a mount writer takes only the lock of the layers and runs beside it. In
the daemon a plane is always present, so writes create no legacy references.
Durability is immediate; `eventual` is not modelled.

## 3. What the runs check

| run | instance | shows |
|---|---|---|
| `handoff` | 3 nodes, 2 scopes, 1 saga at a time, revisions to 3, serial, fair; 52 356 states | `AtMostOneWriter`, `NoConflict`, `RetireBeforeServe`, `RetirementHolds`, `CommitServes`, the refinement of `ScopeOwnership` (`ImplementsOwnership`), and that handoffs end and peers converge (`HandoffsEnd`, `PeersConverge`) |
| `handoff_overlap` | 2 nodes, 2 scopes, 2 sagas, revisions to 3, overlapping and late requests | what survives any overlap: `RevisionNamesSnapshot`, `OpenOnInstalled`, `AuthorityAdvances` |
| `handoff_concurrent`, `handoff_late`, `handoff_abort` | 3 nodes, 1 scope | one documented statement each that does not hold; see below |
| `cache_safety` | 3 keys for 2 places, 2 payloads, 2 callers; 2 readers, 2 peers, 1 block | `SingleFlight`, `OwnResponse`, `WithinCapacity`; `OnePull` |
| `cache_live` | 2 keys for 1 place, 2 callers; 1 writer, 3 epochs, 1 restart; 2 blocks on a page each, 1 peer, 1 fault | `CallsReturn`; `AcceptedWasWhole`, `RefusesOldCache`, `OpenIsCurrent`; `ReadsServed` |
| `admission` | 3 callers, limits 1 to 3; 3 P1 and 2 listeners in 2 rooms; 36 807 states | `SlotsAccounted`, `NoIdleSlot`, `WaitersLeave`; `HearsWhatWasSaid`, `ListenersLeave` |
| `answers` | 2 requests; 2 responses, 2 loops, 1 toggler | `OpensOnFreshFailures`, `Recovers`; `OnePlace`, `InOrder`, `HeldIsWritten` |
| `projection` | 4 rows, batches of 2, 2 crashes, 2 rebuild requests, a malformed row | `EveryRowOnce`, `OffsetBehindViews`, `OffsetsFollow` |
| `event_log` | 3 ids, 3 snapshots, batches of 1 | `ReadableIsHistory`, `NoneLostUnpublished`, `ShowsNoDiscarded`, `PublishedOrDiscarded`, `DeadIsRemoved` |
| `files` | 2 files, 1 blob, 1 chunk, 2 objects, 2 snapshots; 826 512 states | `LiveIsReadable`, `SnapshotsRestorable` |

### Bounds

`MaxRevision` stops new requests: three revisions allow the first snapshot, a
scope added, a handoff, or a handoff and the way back. Three nodes give a
source, a target and a chef that is neither. Crashes, losses and repeated
deliveries of the handoff are not bounded. In `handoff_overlap` two sagas and a
config apply are enough for each pair of requests to overlap. The cache has as
many cells as calls that insert, and stops when cells and clock ticks are used
up, hence `CHECK_DEADLOCK FALSE`; the event log stops when ids and snapshots
are. Two blocks on two pages are the least for a block that is not on the first
page. Two files over one blob and one chunk share both; the second snapshot can
be the rollback point of a restore to the first.

Larger instances that were checked once: handoff with revisions to 4 (430 920
states); the invariants of `event_log` with 4 ids (780 589); `files` with 3
snapshots (3 535 551) or 3 objects (2 103 789); `BlockGossip` with 2 blocks,
1 peer, 1 reader, 2 faults (101 544) and 1 block, 2 peers, 2 readers, 1 fault
(254 094); the invariants and action properties of `answers` with 3 responses
(106 380). The inductive invariants of section 4 were checked before they were
proved, those of the second part of the handoff with 3 nodes, 2 scopes, 2 sagas
and late requests (49 322), `PeersStayOpen` with overlapping requests as well
(6 457 921), `PagesSkipNothing` (1 893 760), those of the event log with every
flag set and 4 ids (20 293 226). All passed. For what section 4 proves, the bounds do not matter.

`handoff_overlap` and the violation runs treat nodes other than the chef and
sagas as symmetric, `cache_safety` keys, payloads, callers and cells, `files` the
files; they check safety only. Runs with liveness use no symmetry.

### Fairness

- Handoff: `Progress` of a saga is weakly fair, a thread of the daemon whose
  RPC to a silent peer ends with QUIC's idle timeout; so is the delivery of the
  installed snapshot while the chef is up, which the reconciliation task repeats.
- Cache: a synchronous handler returns or panics, and a waiter on a `OnceLock`
  is woken. `CallsReturn` asks that handlers do not panic for ever.
- Block gossip: rounds and pages go on, reader threads run, failures expire.
  `ReadsServed` asks for one holder that stays reachable with a sound disk.
- Gateway: goroutines that can run do, provider calls end with their timeout,
  timers fire. Nobody is obliged to come, cancel or switch anything.
- Projection: the worker is restarted and goes on; the look at the request file
  and the mirror are strongly fair, as each is tried again and again.
- Event log: a restore ends; publishing and marking do not fail for ever
  (strong fairness); maintenance comes back, and a prune is not cut off by a
  restart every time.

Nothing is assumed of crashes, boots, faults or the operator.

### Where the code and its documentation differ

Three runs expect a violation, each of one documented statement.

- `handoff_concurrent` (`RetireBeforeServe`, V1 of `handoff.rs:8`): two
  overlapping handoffs of a scope; the later one replaces a term whose owner has
  not retired, because the term is read at the start and the snapshot later.
- `handoff_late` (`RetirementHolds`, `fencing.rs:902`): an abandoned
  `OwnerCommit` of epoch E, run after the target has retired E, clears that
  retirement: `complete_handoff_overlay` compares with `>` only.
- `handoff_abort` (`AbortLeavesSource`, `handoff.rs:120`): a lost reply to
  `PrepareHandoff` aborts the handoff with the source durably retired.

The modules state further sentences of the repository that TLC refutes. They
have no run of their own; each is reproduced by checking the property with the
settings named here.

| property | settings | code | the sentence |
|---|---|---|---|
| `LimitedProbes` | `CircuitBreaker` | `circuit_breaker.go:144` compares the limit with successful answers, so any number of probes passes while none has answered | `:24`, `:126`: a limited number of probes |
| `ProbesProveRecovery` | `CircuitBreaker` | `:182` counts every success that arrives while half-open, also of requests from before | `:110`: successful probes in half-open |
| `HeldIsFlushed` | `TickSync`, `LiveSpec` | `pipeline.go:1571` asks `Enabled` and then holds; switched off in between, the response stays until tick sync is on again | `buffer.go:122`: "will be flushed when the tick's timeout expires" |
| `ContextOrTimeout` | `ChatSequencing` | `pipeline.go:988` looks at the room twice; a P1 that completes in between leaves the listener without its words | `queue.go:32`: listeners "get P1's response injected" |
| `StaleIsRemoved` | `ChatSequencing`, `LiveSpec` | `queue.go:203` removes only rooms without an active P1 | `:197`: "removes stale room states" |
| `NoMonotonicityConflict` | `Projection`, `Proc <- LiveAndCli` | `worker.rs:207` writes the offset at the end, beside a live worker that may be past it | `:205`: no risk of monotonicity conflicts |
| `RebuildCountsAll` | the same | `worker.rs:191` skips rows below a watermark that the live worker raises too | `:164`: a rebuild processes all events |
| `OffsetBehindViews` | the same | `store.rs:359`: views and watermarks are cleared before the offsets | `:7`: views commit before the offset |
| `ReadableIsHistory` | `EventLog`, `LateFailure = TRUE` | `orchestrator.rs:6465`: the dead range is committed before the closing event, and a rollback leaves it | CHANGELOG: "rollback does not mark" |
| `ReadableIsHistory` | `EventLog`, `Undo = TRUE`, `MaxId = 5` | `orchestrator.rs:6283`: a restore into a discarded future leaves that future's range | `:6469`: events up to the target "stay alive" |
| `NeverPublishesDiscarded` | `EventLog` | `outbox_publisher.rs:156`: a polled batch is published across a restore | `event_store.rs:5168`: "never publish a discarded-future event" |
| `NoneLostUnpublished` | `EventLog`, `SizeRule = TRUE` | `orchestrator.rs:9838`: the size rule prunes without `can_prune` | `event_store.rs:5170` |
| `PrunesWhatIsProjected` | `EventLog` | `event_store.rs:5341`: the minimum of the offsets that exist; a rebuild has deleted its own | `:5333`: whether pruning is safe |
| `ShowsNoDiscarded` | `EventLog`, `RebuildBeside = TRUE` | `orchestrator.rs:6465`: a rebuild between seeding and marking reads the discarded events as live | CHANGELOG: "never served, published, or replayed" |
| `OpenIsCurrent` | `FencedWrite`, `ReopenStale = TRUE` | `orchestrator.rs:8914` opens the latch beside a handler | `owner_handler.rs:265` |
| `RecoveryFences` | `FencedWrite` | a rebuild (`fencing.rs:840`) opens the latch that an unresolved recovery closed | `fencing.rs:597` |

Comments that describe something else than the code, without consequence for
what is checked: `cas_holder.rs:66`, `block_map.rs:26`, `anti_entropy.rs:158`
(what is advertised), `block_resolver.rs:181` (a gate may stay in the map when
two readers leave at once). A damaged blob makes `list_block_refs` fail as a
whole (`cas.rs:254`), so its holder advertises nothing until it is gone.

## 4. What is proved

TLAPS checks every theorem below for every number of nodes, scopes, sagas, keys,
callers, rows, ids, files and so on. The assumptions on the constants
(`HandoffAssumption`, `CacheAssumption`, `StoreAssumption`, ...) are facts about
their types that TLC evaluates in each run. Where a theorem also assumes
something of the environment, the hypothesis is in its statement and named here.

### Ownership, for any requests (`OwnerHandoffProofs`)

Overlapping handoffs and late executions included.

- `ChefOrdersRequests` (`RevisionNamesSnapshot`) and `OpensOnStore`
  (`OpenOnInstalled`). Invariant `AnyInv`: types; an open registry shows its
  store (`OpenInv`); every store holds a published snapshot, the chef's is the
  last, a revision names one snapshot, and only the chef can be in conflict
  (`StoreOrders`); sagas run only on a chef that is up, and install only real
  snapshots (`SagaOrders`).
- `StoresNeverGoBack` (`AuthorityAdvances`): no step lowers any epoch of a
  store. Needs `ChainInv`: published snapshots are ordered by revision in every
  epoch, and what is about to be installed was made on the installed snapshot
  (`MadeOn`) or is overtaken and will be refused.
- `PeersStayOpen`: the latch of a running peer with a snapshot is open after
  every handler. Only a conflict closes it for good, and `StoreOrders` keeps
  peers out of conflicts.

### Ownership, one request at a time (`OwnerHandoffProofs`, second part)

Assumes `Serial`; requests may still run after their sender has given up. With
overlapping requests all three statements fail.

- `NoNodeConflicts` (`NoConflict`) and `OneOwnerEach` (`OneOwnerPerEpoch`), from
  `AloneInv`: one request is under way, and what it has read or built is still
  made on what the chef has installed (`AloneAt`, `Follows`), so the chef accepts
  it as the next revision; a term that changes gets an epoch nobody has seen, so
  an epoch of a scope names one term (`EpochNames`).
- `CommittedServes` (`CommitServes`), from `ServeInv`: requests that may still run
  late are about terms the chef has given (`LateAt`); once a handoff has installed
  its term, those for its scope are older, so none can retire it at the target
  between the answer to `OwnerCommit` and the outcome (`StageAt`, `ServedAt`).

### Ownership, one request at a time and none late (`OwnerHandoffProofs`, third part)

Assumes `Serial` and no late execution (`Quiet`); the violation runs show that
the statements fail without either.

- `OneWriter` (`AtMostOneWriter`), `SourceRetiresFirst` (`RetireBeforeServe`),
  `RetiredStaysRetired` (`RetirementHolds`), and `ImplementsScopeOwnership`: the
  protocol implements `ScopeOwnership`.
- `SerialInv` adds to `AnyInv` that no node is in conflict (`NodesOpen`), that an
  epoch of a scope names one term (`EpochsOrdered`), that nobody has retired a
  term not yet given (`RetiredPast`), where the one saga is in the order retire,
  install, replicate, commit (`SagaAt`, `OneRequest`), and `Fenced`: whoever
  owned a scope at an epoch that is over has retired it or installed a later
  term. A writer owns the scope in its store without an overlay; by `Fenced` its
  epoch is the chef's, so two writers have one term, which names one node.

### One node (`FencedWriteProofs`)

- `ValidatesAtomically` (`AcceptedWasWhole`): although `validate` reads the term,
  base and overlay maps and the latch one after the other, a guard it accepts
  was good at one moment. `IInv` says what each read has already fixed.
- `OpensOnInstalled` (`OpenIsCurrent`), `NoGuardFromOldCache`
  (`RefusesOldCache`): assume `~ReopenStale`; `JInv` adds when the latch may be
  open and when a write that has begun can still be accepted.

### Control plane and blocks (`IdempotencyCacheProofs`)

- `CacheRunsOnce` (`SingleFlight`), `CacheAnswersOwn` (`OwnResponse`),
  `CacheBounded` (`WithinCapacity`), from `CellsInv`: one caller at most runs in
  a cell (`CellsHeld`); until the cell is filled, the caller's key stays in the
  map, bound to that cell and payload, so eviction and purge cannot take a call
  in flight (`CellsBound`); a filled cell holds the response of the payload its
  key is bound to (`CellsFilled`).
- `OneReaderPulls` (`OnePull`), from `GateInv`: who is past the gate of a block
  has the gate that is in the map and is alone there. The hard case is
  `Finish`, which may remove the gate only when nobody else holds it.
- `WaitersHaveARunner`: a caller parked on a cell finds it free or filled, or
  another caller is running in it; from `CellsWorked`, a cell that looks busy has
  its caller, also after a panic. `ResponsesStay`: a stored response is for good.
  These are what `CallsReturn` rests on besides fairness.
- `PagesSkipNothing`, on `Unsent`, the blocks a round has still to advertise:
  every page shrinks it and the reading node then knows what was taken off,
  unless the peer was not reachable; a new round starts with everything held when the one
  before is through. It is the safety half of `ReadsServed`. A page is a rank
  interval of the sorted blocks, so the argument takes the least block not yet
  sent (`FirstBlock`) and the cardinality of those before it.

### Event log and projections (`EventLogProofs`, `ProjectionProofs`)

- `ReadsServeHistory` (`ReadableIsHistory`), assuming `~Undo` and
  `~LateFailure`: what a read returns is what the world has lived through. From
  `LineInv`: the dead ranges hold exactly what is not in the history, up to what
  a restore under way has still to mark (`DeadInv`); a snapshot has all of the
  history up to its last event (`SnapInv`); a restore goes back along the
  history and reads the latest id after that (`RestoreInv`).
- `PrunedWasPublished` (`NoneLostUnpublished`), with `~SizeRule` as well, and
  `ReadModelFollows` (`ShowsNoDiscarded`), with `~RebuildBeside` as well.
- However restores go, undo, late failures and the size rule included:
  `OutboxForgetsNothing`, every row of the log is pending or was delivered
  (`EntryInv`: an entry leaves the outbox after it was sent or with its event);
  and `DeadRangesHoldRows`, every dead range holds a row, so each has something
  to be pruned for (`RowsInv`: the range a restore will mark ends at a row it
  has read as the latest). They are the safety half of `PublishedOrDiscarded` and
  `DeadIsRemoved`.
- With the live worker alone (`Proc = {"live"}`): `CountsNeverTwice`,
  `CountsEveryRow` (`EveryRowOnce`), `OffsetStaysBehind` (`OffsetBehindViews`)
  and `StopsAtMalformed`, through crashes and rebuilds at any point. The views
  count exactly the rows up to the watermark, and a batch continues where the
  watermark ends or is rejected by it.

### Gateway (`ForwardQueueProofs`, `AnswersProofs`)

- `NoSlotLost` (`SlotsAccounted`), `NobodyWaitsForNothing` (`NoIdleSlot`),
  `FirstComeFirstServed`, `LimitBoundsGrowth`, from: the queue holds exactly the
  waiting callers, once each; nobody waits while a slot is free; slots taken are
  callers who hold one or have been granted one.
- `ListenersHearTheirRoom` (`HearsWhatWasSaid`), for any assignment of requests
  to rooms, from `ChatInv`: a room lists only requests of that room, and one
  that is being sent is always listed, so the early return of `CompleteP1` is
  never taken.
- `OpensOnNewFailures` (`OpensOnFreshFailures`) and `HalfOpenNeverStuck`, from
  `BreakerInv`: what the window and the consecutive count hold against the
  provider was recorded since the breaker last closed, and the count `Allow`
  compares with its limit stays below it while half-open.
- `HeldInOnePlace` (`OnePlace`) and `FlushedInOrder` (`InOrder`), from
  `BufferInv`: a held response is pending under its own tick once or in one
  goroutine's batch, and two that have met stay together until the first is
  written. That a batch is sorted is shown by rank, the number of responses
  before one, instead of by induction (`SortedLists`).
- `LoopsStoppedOnce`, from `LoopInv`: a stop channel is held by the buffer or by
  the one request that switched it off, so it is closed once.

### Filesystem (`WorkspaceStoreProofs`)

- `FilesStayReadable` (`LiveIsReadable`) and `SnapshotsStayWhole`
  (`SnapshotsRestorable`), from `StoreInv`: the reference count of a blob is the
  number of rows that name it in the tables, in every copy of them and after
  every restore, and a blob is unlinked only at zero and unpinned (`BlobInv`);
  the count of a chunk is never below the number of manifest places that name it
  (`PlaneInv`); objects leave only without a root, and the roots of inodes are
  never taken away (`RootInv`); `ControlInv` says what a job half done, or cut
  off by a crash, has established.

### Only model-checked

- Liveness: `HandoffsEnd`, `PeersConverge`, `CallsReturn`, `ReadsServed`,
  `WaitersLeave`, `ListenersLeave`, `Recovers`, `HeldIsWritten`,
  `OffsetsFollow`, `PublishedOrDiscarded`, `DeadIsRemoved`. The prover does not
  reason about fairness. Every safety property of the passing runs is proved.

## 5. Not modelled

The components of `PROJECT.json` with status `not_modelled` give the reason for
each. The largest is the durable workflow core with what builds on it (delivery,
LLM bridge). Reading it showed where a model would start: completion evidence
dated before the creation or after the deadline of its invocation is refused on
every pass, so an invocation whose reply timed out stays pending; and an error
on one row ends a whole reconcile pass. Cluster membership decides no ownership;
a delayed heartbeat of an earlier boot reads as a restart there.

Left out of modelled components: redb I/O errors, the legacy overlay migration
and single-node mode (ownership); tombstones, expiry and digests (block map);
names, directories, extents, compaction and eventual durability (filesystem).
Modelled although the daemon seldom or never reaches them: agent homes in the
chunk plane (behind `cas_manifest_enabled`, off by default), and `gc_chunks`,
`gc_trash` and `restore_from_trash` of the plane (called by tests and benches).
The roots of inodes on the plane are never released by
the code, so the plane keeps every object a file ever had. `recently_pulled` of
the pull engine is consulted by nobody.

Hazards without a property: `fencing.rs:840` and `cas.rs:254`; their notes say
why.
