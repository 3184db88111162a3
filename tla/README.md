# Verification of SYNC_ENGINE

TLA+ models of the sync engine, their TLC configurations, and proofs checked by
TLAPS. Source paths below are relative to the repository root (`src/...`).

## The system

One Node.js process. JavaScript runs one callback at a time, so a method without
`await` is atomic; interleaving happens between callbacks (client messages, HTTP
requests, timers), at every `await`, and across crashes of the process.

| Component | State | Operations | Interacts with |
|---|---|---|---|
| StateManager (`src/core/state-manager.ts`) | entities, history per entity, global version, snapshot cache | create, update, delete, snapshot, load, clear | emits `entity:*` events |
| DeltaCompressor (`src/sync/delta-compressor.ts`) | none | compress | called by flushDeltas |
| ConflictResolver (`src/sync/conflict-resolver.ts`) | default strategy | resolve | called by handleRemoteDelta |
| StateSynchronizer (`src/sync/state-synchronizer.ts`) | pendingDeltas, peers | flush, remote delta, remote snapshot, state request | publishes on and subscribes to `sync:state` |
| WriteAheadLog (`src/persistence/write-ahead-log.ts`) | sequence, current file, stream | append, rotate, replay | fed by `entity:updated` |
| SnapshotManager (`src/persistence/snapshot-manager.ts`) | index of files | take, prune, load, recover | StateManager, log |
| SyncEngine (`src/index.ts`) | wiring | start, stop, client messages | everything |
| GameServerManager (`src/orchestration/game-server-manager.ts`) | servers, timers | create, stop, remove, add and remove player | called by the matchmaker and the API |
| Matchmaker (`src/orchestration/matchmaker.ts`) | queue per mode, matches, timers | enqueue, dequeue, pass, end match | GameServerManager |
| MessageBroker (`src/core/message-broker.ts`), RingBuffer (`src/utils/buffer-pool.ts`) | subscriptions per channel, recent messages, sequence | subscribe, unsubscribe, publish, publishSync, destroy | StateSynchronizer, ClusterCoordinator; in-process only |
| EventBus (`src/core/event-bus.ts`) | listeners, dead letters | emit, emitSync | everything |
| NodeRegistry, ClusterCoordinator (`src/cluster`) | nodes, leader, term | announce, heartbeat, goodbye, health check, election | MessageBroker, EventBus |
| WebSocketServer (`src/network/websocket-server.ts`) | clients by session, counters | connect, packet, authenticate, heartbeat check, stop | SyncEngine |
| ConnectionPool, BinaryProtocol (`src/network`) | pooled connections | acquire, release, encode, decode | WebSocketServer |
| RateLimiter, AuthService (`src/security`) | a window per client; users, tokens | check, clean up; register, log in, verify | API middleware and routes |
| AlertManager, MetricsCollector (`src/monitoring`) | rules, active alerts, history; gauges | evaluate, acknowledge; collect | timers of SyncEngine, API |
| REST API, dashboard, config, utilities | none of their own | | |

What is hard here, and which property would notice it going wrong, is listed in
`PROJECT.json` under `hazards`. In short: the node is a subscriber of its own
sync channel; a snapshot cache is keyed by a number that can come back; versions
of three kinds (entity, global, log sequence) are compared with each other; the
log is buffered and its numbering restarts; snapshot files are named, sorted,
rewritten, pruned and torn; timers are never cancelled; a matchmaking pass can be
ended by an exception half-way; publish and createUser await in the middle of
what they do; an election runs in the middle of a health check; a rate limit, a
cooldown and a gauge are each read a while after they were written.

What makes each modelled component correct:

* StateManager: history is an unbroken chain to the present version; versions are
  bounded by the global one; a cached snapshot is the present state.
* Compression and synchronisation: a compressed batch means what its deltas meant;
  a node that hears its own batches does not change what its clients wrote.
* Snapshot files: the last completed snapshot stays readable on disk, unless a later
  write to its file fails or an unchanged state completes it more than maxSnapshots
  times in a row; a restart loads it when, besides, no file is torn and all versions
  on disk have equally many digits.
* Persistence: a checkpoint on disk has a readable snapshot at least as new, a clean
  restart brings back the same entities, and the version is not behind the snapshots
  on disk, all under the conditions of the previous point: in the cases it excludes
  the code loads an older snapshot or none.
* Game servers and matchmaking: counts agree with statuses, nothing is revived by
  a late timer, no request is lost, none is matched twice unless a pass is aborted
  or a player queues twice, and everything settles.
* Clients: open sockets are registered and within the limit, counters and reports
  follow them through timeouts and shutdown, silent and rejected clients leave.
* Broker: a lasting subscriber gets every message once, nobody gets one after
  unsubscribing, the first subscriber gets them in order.
* Cluster: the leader is a node in touch, stays while it is, and is replaced when
  it is not; late and repeated messages do not make anybody offline in haste.
* API: the limit and the promised retry time hold over any window, a name is taken
  once, alerts follow lasting conditions and their history is consistent.

## Modules

| Module | Models | Extends |
|---|---|---|
| `EntityOps` | `applyOperation`, `applyOperationToData` as operators on path functions; what a path, a value, an operation and a data object are | |
| `DeltaCompressor` | `compress`, `mergeEntityDeltas`, `collapseOperations` | EntityOps |
| `DeltaBatch` (`MCDeltaBatch`) | batches as clients fill them, for checking the operators | DeltaCompressor |
| `StateManager` (`MCStateManager`) | the versioned store, one action per method | EntityOps |
| `StateManagerProofs` | its inductive invariant and theorems; lemmas about untyped sequences and about what operations do to data | StateManager |
| `StateSync` (`MCStateSync`) | synchroniser, resolver and broker around the store | StateManager, DeltaCompressor |
| `StateSyncProofs` | the queue of deltas, and what a batch does to data, proved | StateSync, DeltaBatch, StateManagerProofs |
| `LastWritesProofs` | the clients' last writes through flush, compression, resolution and replay, proved | StateSyncProofs |
| `Persistence` (`MCPersistence`) | log, recovery, crash, clean restart around the store and the snapshot directory | StateManager, SnapshotFiles |
| `PersistenceProofs` | crashes and restarts, proved | Persistence, StateManagerProofs, SnapshotFilesProofs |
| `SnapshotFiles` | the snapshot directory: names, index, pruning, failed and interrupted writes, restarts | |
| `SnapshotFilesProofs` | the directory and what a restart finds in it, proved; the order of numerals as strings | SnapshotFiles |
| `GameServers` | life cycle and player counts | |
| `Matchmaker` (`MCMatchmaker`) | queues, passes, matches on top of the servers | GameServers |
| `MatchmakerProofs` | the servers, then the matchmaker that drives them, proved | Matchmaker |
| `Clients` | WebSocket sessions, sockets, heartbeats, authentication, shutdown | |
| `BoundedQueue` | abstract: a queue that refuses items beyond its capacity | |
| `RingBuffer` | RingBuffer, shown to implement BoundedQueue | |
| `Broker` | MessageBroker on one channel | RingBuffer |
| `Cluster` | NodeRegistry and ClusterCoordinator as one node sees its cluster | |
| `MessagingProofs` | leader and failure detection; the ring buffer's refinement and the delivery of messages, proved | Cluster, Broker |
| `RateLimiter`, `AuthService`, `Alerting` | the three components behind the API | |
| `Api` (`MCApi`) | middleware and routes that compose them | RateLimiter, AuthService, Alerting |
| `InterfaceProofs` | the two front doors, proved: sockets, and requests with limits, accounts and the alert history | Clients, Api |

Variables carry the names of the fields they stand for; what differs is said at
the head of each module. `PROJECT.json` maps every definition to its lines.

Decisions worth knowing:

* **Data.** An object is a function from the paths present in it to tagged values
  (number, array of numbers, object). `Number(v) || d` is modelled with its falsy
  zero. Values are immutable in the model: an array that an operation sets is, in
  the code, the same object in the entity, the history and the pending delta.
* **One message at a time.** `broker.publish` calls the only subscriber before
  anything else runs, so `StateSync` keeps the rest of the message in `inbox` and
  every other action waits for it. The broker is in-process and the repository has
  no transport that would carry a message of another node, so the only messages on
  the sync channel are the node's own.
* **Resolution.** Only a merge returns `mergedOperations`; for the other strategies
  `handleRemoteDelta` applies the remote operations whoever won. The entity and the
  `deepMerge` that `resolve` computes are never used by its caller.
* **Log.** A file is a part on disk and a buffer; each file is written out at its
  own pace and a crash loses buffers. The log's sequence starts at 0 in every
  process. In the phase `closing` the event bus is destroyed, so requests that are
  still served are not logged.
* **Snapshot files.** A name is the pair (version, time); the order of names is the
  order of strings, with the digits of the version spelt out in base `Base` (10 in the
  code; a smaller one brings the digit boundary within reach of few versions).
  `takeSnapshot` is one action with its write, push, pruning and index; a crash may
  come in the middle of the write, or after it when some of the files to prune are
  gone. A write may fail before the file is opened (`SnapshotOnly`, which also stands
  for createSnapshot called for a client or a node) or half-way (`SnapshotFails`).
  `repeats` and `spoiled` are history variables: how often in a row the last completed
  snapshot was completed, and whether a later write to its file failed. Unlinking and
  statting a file that exists is taken to succeed (the code ignores errors there).
* **Persistence.** What concerns the snapshot directory is an action of
  `SnapshotFiles`, instantiated with the store's version, so that a snapshot is loaded,
  lost or pruned as there. `InOrder`
  says that a start will load the last completed snapshot; `lapsed` remembers that
  some start did not find the directory so. An `expected` set of entities is known
  after a stop whose last snapshot was completed, and as long as nothing changes.
* **Sockets.** A socket is open, closing or closed and its close event comes once.
  `client.authenticated` is not modelled: nothing reads it. The auth handler may
  answer at any time; the one SyncEngine installs answers at once. Heartbeat checks
  are counted instead of milliseconds, assuming that the event loop is not blocked
  for a whole interval.
* **Broker.** Subscriptions are numbered in the order of the Set, an iteration under
  way skips what is deleted and visits what is added, and a Set that became empty is
  replaced while publish calls hold on to the old one. A handler's promise settles
  at any time, with or without an error.
* **Cluster.** The repository has no transport between nodes, so peers and their
  messages are external and as bad as they can be: a copy of anything a peer has
  sent may arrive at any time until the peer is forgotten. lastHeartbeat of an
  announcement comes from the sender's clock and may be long ago. Term, load and
  connection figures decide nothing and are left out. The leader answers an
  announcement with its own, which it receives itself and answers again, until the
  stack overflows (`cluster-coordinator.ts:103`); the registry does not change
  after the first round, and the model stops there.
* **API.** A request is one step up to its first await. Time is counted in ticks:
  those left of a window, those since a rule fired. An alert is listed under an id
  of its own and kept under the id of its rule, so acknowledging takes both kinds
  of id as input.
* **Shutdown.** SyncEngine.stop is part of the modules it touches (`EngineStops` in
  Matchmaker, `Stop` in Clients, Cluster and Persistence), not one composed step.
* **Matchmaking pass.** `processQueues` is split into steps for readability; only
  its own steps can happen until it is idle. Age is counted in matchmaking
  intervals. Which of several equally empty servers is taken is left open. The array of
  a mode is only pushed to and filtered, so it is a set of requests ordered by their
  numbers; the sorted array is a set ordered by `Before` (skill, then number: the sort
  is stable), from which splice takes the first few.
* **Alert loop.** The entries that one run of evaluateRules adds are listed in the
  order of the rules (`InOrder`); a run that finds nothing changed is a stutter.
* **Faulty variants.** Operators whose comment starts with "Faulty" are not part of
  any specification: each is a plausible mistake in the definition it precedes,
  and with it in place TLC finds the property named in `PROJECT.json` violated.

## Runs

`tlc -config X.cfg Module`. All bounds are CONSTANTS of the cfg.

| Run | Shows | Bounds and why they suffice |
|---|---|---|
| `delta_batch` | `CompressionLossless`, `PreApplyAbsorbed` | 2 entities, batches of 3, 13 operations on the paths a, a.b, b: collapsing looks at the last operation of a path and one earlier |
| `state_manager` | `TypeOK`, `HistoryChain`, `EntityVersionBounded`, `SnapshotIsCurrent` | 2 entities, history of 2 (so that it overflows), 4 changes, 2 saved snapshots, loads and clear at any time |
| `state_sync` | `PendingChain`, `LastWritesKept` for all three strategies | 2 entities, 7 versions, a history of 3, batches of 3, at most 6 deltas pending; a flush always takes all that is pending, as one that leaves deltas behind would need more versions (theorem `PendingIsChain` covers those, for all bounds); updates that set a path, set another, or delete the one and set the other |
| `persistence` | `CheckpointCovered`, `CleanRestartKeepsEntities`, `VersionBeyondSnapshot` | 1 entity, 4 versions, 4 log files of 1 entry, shared between rotation and up to 4 starts; 2 snapshots kept of 3 made, so that pruning happens both by new versions and by repetition; names in base 2, where 4 ("100") sorts before 3 ("11") and a restart loads the older one |
| `snapshot_files` | `NewestKept`, `RestartLoadsNewest` | 2 snapshots kept of 4 made, each completed any number of times; versions 0, 5, 10, 15 (the digit boundary, and two versions beyond it) |
| `matchmaker` | `MatchedOnce`, `NoRequestLost`, `NothingReturns` | 2 modes, 2 servers, 4 players, 4 requests, groups of 2: two groups in a pass, leftovers that are matched later, a group of a later mode that ends the pass |
| `matchmaker_wait` | `CapacityRespected`, `NoRevival`, `ServersAsSpecified`, `NobodyWaitsForever`, `MatchesSettle` | 1 mode, 2 requests, 2 server ids with a limit of 1, servers created, stopped and removed by the administrator, shutdown |
| `clients` | `ClientsTypeOK`, `OpenWithinCapacity`, `CountsAgree`, `DisconnectReported`, `UnwantedLeave`, `StopCompletes` | 3 sessions, 2 connections: refusal, a place freed by a timeout before its socket is closed, shutdown at any time |
| `cluster` | `LeaderPresent`, `NoHastyOffline`, `LeaderKept`, `DeadLeaderReplaced` | Local between 2 peers in the order of ids, timeout of 1 tick, 2 start times: older, equal and younger peers, restarts, a leader in front of and behind others in the Map |
| `broker` | `DeliveredToAll`, `FirstInOrder`, `SilentAfterUnsubscribe`, `BufferIsQueue` | 3 subscriptions, one with a filter, 3 messages, a buffer of 2 (so that it is full) |
| `api` | `AtMostTwice`, `RetryAfterKept`, `NamesTakenOnce`, `HistoryAlternates`, `AlertsFollow` | 1 client, a window of 2 ticks with 1 request, 2 registrations of one name, 2 rules that exclude each other on a metric of 0 or 1, cooldowns of 2 and 1, a history of 2 (so that it overflows) |

Deadlock is checked except where the system really stops: `persistence` (a process
that is down may stay down), `clients`, `matchmaker`, `matchmaker_wait` and `cluster`
(after shutdown) and `broker` (when the bounded messages are delivered). `matchmaker`
uses the symmetry of servers, modes and players with equal ratings; runs that check
liveness use none.

Two refinements are checked and not only invariants. `BufferIsQueue` says that
RingBuffer, inside the broker, implements `BoundedQueue` under the mapping of queue to
what toArray returns. `ServersAsSpecified` says that the matchmaker, its callers and
the shutdown drive the servers only as `GameServers` specifies, with the fairness of
the servers' timers: so what is proved of `GameServers` holds of the composition,
the server limit included.

`LastWritesKept` is about operations that set and delete unnested paths, and about
histories in which no flush found more than batchSize deltas (`overflowed`) and, under
"merge", no full sync replayed the retained deltas (`replayed`): without these
conditions a stale half of a batch, or an old retained delta, overwrites newer values. `CompressionLossless`
names in `Collapsible` the sequences it holds for: the compressor is lossy for a
delete followed by an increment, increments whose sum is 0 or whose amount is
missing, repeated equal appends, and nested paths. `MatchedOnce` excludes duplicate
requests and aborted passes, and `NamesTakenOnce` overlapping registrations: those
are the cases in which the code behaves differently. `NewestKept` excludes nothing:
it says in which cases, and only in which, the last completed snapshot is gone.
`RestartLoadsNewest` is about restarts with equal digits, no torn file and no
repetition beyond maxSnapshots, and so, by way of `InOrder`, are
`CleanRestartKeepsEntities` and `VersionBeyondSnapshot`. `CheckpointCovered` needs it
of all earlier starts, and that the newest snapshot is neither spoiled nor pruned by
repetition when it is looked at. The bounds of `matchmaker_wait` hold one match of
two requests: a group that is larger than the places left on its server is covered by
theorem `GroupsFit` only.

One run ends in a violation: it states what the repository says and finds that the
code differs (`findings` in `PROJECT.json`). `state_sync_increment` checks
`UpdatesAppliedOnce`: the node applies an increment again when it handles its own
batch.

What the models also show, and no run states:

* under last write wins an older delta is applied over a newer local value
  (`state-synchronizer.ts:136`): the resolver names the winner and the caller
  applies the remote operations whoever won;
* under "merge" the newest retained delta wins over every delta replayed, path by path,
  but a path it does not write gets the older value (`conflict-resolver.ts:137`,
  `state-synchronizer.ts:189`): a full sync brings old values back; nothing in the
  repository calls requestFullSync;
* recoverState compares a state version with log sequences
  (`snapshot-manager.ts:145`): durable updates are skipped after a crash, and a clean
  restart may apply updates again that the snapshot contains;
* an index sorted by name makes an older snapshot the latest once the version gains
  a digit (hence `SameDigits`): a server stopped cleanly at version 10, with a
  snapshot of version 9 on disk, restarts with the entities of version 9, and makes
  versions again that are on disk already;
* snapshots of an unchanged state share one file: after more than maxSnapshots of them
  in a row pruning unlinks the file just written, while the index still lists it, and
  the checkpoint is logged all the same (`snapshot-manager.ts:83`, `:85`; hence
  `repeats`): an idle server that is then restarted loads an older snapshot or none;
* after a torn write no older readable snapshot is tried (`snapshot-manager.ts:133`;
  hence `torn`);
* a rate limit holds per window and not per any period of its length: twice the
  limit passes around the end of a window, and no more (`AtMostTwice`);
* two registrations of one name that overlap both succeed, and the second account
  can never log in (hence `beside` in `NamesTakenOnce`);
* acknowledging an alert by the id it is listed under, as the dashboard does
  (`dashboard/src/App.tsx:682`), finds nothing; one acknowledged by its rule is never
  resolved and keeps the rule from firing (hence "active" in `AlertsFollow`);
* nothing pops the message buffer: once full it refuses all newer messages
  (`message-broker.ts:81`);
* a node that has left is registered again in its own registry when it still leads
  and a peer announces itself.

### Fairness

* `Clients`: weak fairness of the heartbeat timer, of the close event of a closing
  socket (the ws library destroys it after its own timeout) and of the callback of
  close. Nothing is assumed of clients or of the auth handler.
* `GameServers`: weak fairness of both timers; `setTimeout` fires.
* `Matchmaker`: weak fairness of `ProcessQueues` (an interval timer) and of the
  steps of a pass (synchronous code), strong fairness of the timers of matches and
  servers, which can only run between passes and do get their turn there. Nothing is
  assumed of clients, administrators or the shutdown.
* `Cluster`: time passes, the health check's interval timer fires while it is set,
  the pending part of start runs, and copies of the messages of a peer that has
  ended do not stay under way for ever (without which late heartbeats would keep a
  dead node alive). Nothing is assumed of messages arriving or peers coming back.
* `Api`: time passes and the two interval timers of SyncEngine fire. Nothing is
  assumed of requests or of hashing.

## Proofs

`tlapm M.tla` for the eight modules below. They hold for every value of the constants
that satisfies the named assumptions. Each argument is an inductive invariant, shown
to hold at first, to be kept by every action (one lemma per action that disturbs it)
and to imply the properties; TLC has checked the invariants on the runs' instances too.
What concerns lists of any length is shown by the least counterexample (`UpToN`,
`ByAppending`): the library's induction theorems take an operator, a set of lengths or
of lists does as well. A recursive function is reached through a relation ("Run")
that says what its rounds do, which has exactly one solution.
Of the sequence operator Len the SMT translation states more than holds of functions
that are no sequences; every leaf about sequences was also proved by Z3 with that axiom
restricted to sequences.

* `StateManagerProofs`: `TypeCorrect`, `HistoryIsChain`, `VersionsBounded`,
  `SnapshotsCurrent`, from `MaxHistoryAssumption` (maxHistoryPerEntity is at least
  1) and `BoundsAssumption`. The inductive invariant adds to the properties
  `SavedSound` (what loadSnapshot will be given is itself bounded by its version,
  without which a load could break `EntityVersionBounded`) and `CacheCoherent` (a
  cache entry, if any, describes the present state; that its version equals the
  present one is not enough, because versions come back). `PushKeepsChain` is the
  lemma about push and shift.
* `StateSyncProofs`: `PendingIsChain`, `HistoryChainsKept`, `LiveEntitiesIntended`,
  from the same assumptions and a positive batchSize. `PendingChain` is stated by
  places: a delta starts where the last one before it of the same entity ends, and
  the last of a live entity ends at its version. It is inductive together with
  `PendingTypes` (only ids that were handed out are queued, so a creation starts no
  chain in the middle) and the store's invariant (the last retained delta is the one
  just pushed, which is what the listener queues). `QueueKeepsChain` is the push,
  `SuffixKeepsChain` the splice. Nothing is needed of the batch under way: whatever
  operations it carries, applying it is an update like a client's.
* `StateSyncProofs`, batches: `PreApplyIsAbsorbed`, `CompressionIsLossless`, for every
  data object and operation as `EntityOps` describes them (`BaseDataAssumption`,
  `OperationsAssumption`), paths nested in one another included, and batches of any
  length. The lemmas about data say pointwise what an operation leaves: at its path
  the new value, objects on the way to it, nothing below (`Leaves`). The early
  application of a batch changes only what its own operations write or walk through
  afterwards (`Agree`, `EarlyAbsorbed`). For collapsing, `Collapsed` describes the
  list after k rounds: one entry per path, or one per path and value for appends, and
  which operations each entry stands for; a later operation can be moved in front of
  the others into its entry, because operations on unnested paths commute and a set,
  or a delete after one, absorbs what came before (`CollapseLossless`). `CompressedOps`
  carries this through grouping, sorting and merging of the batch.
* `LastWritesProofs`: `WritesAreKept`, `LastWritesKept` for every set U of sets and
  deletes no two of whose paths are nested (`PlainWrites(U)`: all that clients send
  are lists over U, and entities start from data objects; the instance that the run
  checks is one). On such lists only the last write of each path counts: a list is
  `Settled` in a data object when performing those last writes changes nothing. The
  invariant, `WritesInv`, adds to `SyncInv` what travels (`Traffic`: deltas of clients'
  operations in the order of their times) and relates, per entity, what was meant,
  what it holds, what is queued, in flight and retained (`Consistent`). Without
  "merge" the rest of the message leads back to what was meant and settles what is
  queued and retained behind it (`Converges`): an old value that a batch brings back
  is overwritten within the same message. Under "merge" no message disturbs an entity
  at all (`Steady`): at most one delta per entity is in flight, and the newest
  retained delta either is that one or wins over it (`MergeReady`). Compression keeps
  the last write of each path (`CompressedSent`), so do mergeOperations
  (`MergedWrites`), the shift of the history, which drops the oldest (`PushedParts`),
  and getDeltasSince, whose stable sort keeps each entity's deltas in their order
  (`RetainedCollected`).
* `SnapshotFilesProofs`: `LastSnapshotKept` and `NewestLoaded`, from a positive
  maxSnapshots and a base of at least 2. The invariant, `FilesInv`, relates the index
  to the directory: every readable file is listed (`Lists`), copies of a name stand
  together (`Grouped`), and while the last completed snapshot is the cached one its
  copies are the last entries, as many as it was completed in a row (`Copies`). So a
  write and any number of unlinks leave a list that still describes the directory
  (`WriteLists`), and the file just written is unlinked exactly when its copies fill
  the list (`PrunesNew`). The second theorem compares names with numbers:
  `DigitsUnfold` shows that the recursive function Digits satisfies its equation,
  `DigitsTell` and `StringOrder` that between numbers of equally many digits the order
  of strings is that of the numbers, `MoreDigits` that a shorter number is less. The
  version a restart reads is that of the last name, which may be too low; `Behind`
  says what holds of the index then: a listed file that can be read comes before what
  would be written now, or stands before a file that is torn or has fewer digits. Where
  neither is on disk, the last snapshot completed is the greatest (`NewestGreatest`).
* `PersistenceProofs`: `CheckpointsCovered`, `RestartKeepsEntities`, `VersionsGrow`,
  from `KeepAssumption` and `NumeralAssumption`. `DirSteps` shows that every step of the
  process is a step of `SnapshotFiles` or leaves the directory alone, so that `FilesInv`
  holds here too. `CheckpointCovered` speaks of what is on disk; the invariant needs it
  of what is still buffered as well (`LogCovered`), because a buffer reaches the disk
  later, and relates every checkpoint to the last completed snapshot, which a newer
  one replaces only while the version is not behind it (`NewestBehind`, `NewerCovers`).
  A start with the directory in order loads that snapshot, whose version is the
  greatest (`StartLoads`). `ExpectedHeld` follows a clean stop through the exit, the
  load and the replay, with the contents of the file on the way.
* `MatchmakerProofs`, servers: `ServersTypeCorrect`, `CapacityAlwaysRespected`,
  `ServerLimitKept`, `NeverRevived`, from finitely many ids, positive capacities and
  a natural limit. The argument is per record (`Fits`): `JoinedFits` and `LeftFits`
  show that any number of joins or leaves keeps a record consistent, and the start
  timer relies on a starting server having no players.
* `MatchmakerProofs`, matchmaker: `RequestsKept`, `MatchedAtMostOnce`,
  `NothingComesBack`, from positive group sizes. The invariant says where the
  requests are in the middle of a pass (`PassState`: what is sorted is queued for the
  mode the pass works on), that ids are unique (`Identified`), and per request that
  it is queued, matched or gone (`AllKept`) and, while no pass was aborted and no
  player queued twice, in one of those places only (`OnceKept`). `ServersSafely` is
  the safety part of the refinement `ServersAsSpecified`, step by step; `GroupsFit`
  and `ServersStayDown` carry the servers' properties over to the composition.
* `InterfaceProofs`, sockets: `OpenSocketsRegistered`, `CapacityHolds`, `CountersAgree`,
  `DisconnectsReported`, from finitely many sessions and a positive maxConnections. A
  session that a heartbeat check gave up still closes later and is reported again:
  `ReportsExact` counts the reports by what has happened, `SocketsKnown` relates the
  map to the sockets, and the place in the map is what maxConnections limits.
* `MessagingProofs`, cluster: `LeaderAlwaysPresent`, `NobodyOfflineInHaste`, `LeaderStays`, from
  finitely many nodes numbered in the order of their ids and times that are natural
  numbers. The inductive invariant adds `LocalPresent` (an election without an active
  node falls back on Local, which must then be registered), `NoLeaderYet` and
  `HeardUnsuspected` (only a check suspects, and only suspects go offline).
  `ElectedIsActive` shows that the CHOOSE of startElection has a witness: the least
  start time and then the least id, by well-foundedness of the naturals.
* `MessagingProofs`, broker: `RingImplementsQueue` and, of the broker as a whole,
  `HistoryIsQueue`, the refinement, from a positive capacity; the invariant ties tail
  to head and count modulo the capacity, a push then misses every slot in use and a
  pop shifts the rest. `PublishReachesAll`, `FirstSeesOrder`,
  `UnsubscribedStaySilent`: the invariant says of a publish call under way that the
  subscribers that stay are in the Set it iterates (`CallsKept`), that a Set the
  channel has replaced is empty (`SetsKept`), that no handler gets a message the loop
  has not come to (`InboxKept`), and that those it has passed got it (`Delivered`).
* `InterfaceProofs`, requests: `RetryPromiseKept`, from a positive window and limit:
  the wait handed out by a refusal and what is left of the window run down together,
  through repeated refusals and cleanup (`WaitsForWindow`). `TwiceAtMost`, from the
  same: of the requests a client was allowed, those before the present window are
  older than that window, and all but maxRequests of them are as old as two, one that
  may have filled up at its end and the present one (`WindowsApart`). `NamesGivenOnce`, with no assumption: a
  registration that finds its name free can only meet one that is still hashing.
  `HistoryConsistent`, from a sequence of rules and a natural maxHistory: one run of
  the loop adds at most one entry per rule (`InOrderLists`: InOrder is a bijection,
  as places are distinct and as many as the elements), a new entry contradicts the
  rule's last (`LoopAlternates`), and the shift drops the oldest only
  (`ShiftAlternates`).

Only model-checked:

* all liveness, and with it the fairness part of `ServersAsSpecified`: fairness and
  ENABLED are outside the prover.

Every invariant and every action property that a passing run checks is a theorem.

## Not modelled

* ConnectionPool: the server starts and stops it and never acquires, releases or
  removes a connection, so it is always empty. Its own awaits would only matter to a
  caller.
* EventBus.emit with middleware, retries and dead letters: only tests call it. The
  server uses emitSync, whose synchronous dispatch is part of the actions.
* BinaryProtocol: one frame in, one out, no state; a frame is taken for what decode
  returns, an unreadable one included.
* Configuration, dashboard, logging, metrics that no decision reads, formatting; the
  checksum of a snapshot, which nothing verifies.
* Operations nothing calls: truncate, setModeConfig, custom resolvers, reset and the
  tiers of the rate limiter, revokeToken, updatePassword, deleteUser, removeRule.

## Plan

1. Theorems next: the liveness-free parts of `StopCompletes` and `MatchesSettle` (what
   a step towards them may not undo), and what `LastWritesKept` becomes when a flush
   leaves deltas behind.
2. An abstract register per entity that `StateSync` implements for idempotent
   operations.
3. A clock that steps back, for the order of a compressed batch, and values shared
   between entity, history and pending deltas, as a heap.
4. The shutdown of the whole engine as one composition.
