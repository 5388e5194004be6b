# TLA+ models of flow-go components

This directory holds TLA+ specifications of parts of the repository under
`src/`, the TLC configurations that check them, and `PROJECT.json`, which maps
every definition to the source lines it models and lists the runs, mutants,
findings and hazards.

## 1. Inventory

The repository is a slice of flow-go. Its central stateful, concurrent part is
the **epoch manager** of collection nodes, `src/engine/collection/epochmgr/engine.go`,
which `spec.md` calls the Epoch-Scoped Component Lifecycle Manager. Around it
sit the protocol-state epoch queries it reads, the epoch-state storage below
them, the epoch contract client used to vote, two access-node streaming
components, a checkpoint statistics tool, an authorization-fix generator and the
Cadence 1.0 ledger migration pipeline. The rest are generated mocks,
tests, metrics wrappers and command-line tools.

| Component | Source | State | Operations | Interactions |
|---|---|---|---|---|
| Epoch manager | `engine/collection/epochmgr/engine.go` | `epochs` map (counter -> bundle + cancel func) under `mu`; four channels of capacity 1 (`epochTransitionEvents`, `epochSetupPhaseStartedEvents`, `epochStopEvents`; `epochStartedEvents` is never made) | `Start`, `Ready`, `Done`, `EpochTransition`, `EpochSetupPhaseStarted`; worker loops for transitions, setup phase and stops; `startEpochComponents`, `stopEpochComponents`, `prepareToStopEpochComponents` | calls the factory, the root-QC voter, `heightEvents.OnHeight`, `pools.ForEpoch(c).Clear()`; bundles run on derived contexts whose faults are forwarded by `handleEpochErrors` |
| Height event registry | `events.Heights` (not in `src/`) | callbacks per height | `OnHeight` | fires `epochStopEvents <- counter` from the finalizer's goroutine |
| Epoch bundle | factory output (not in `src/`) | started / ready / cancelled / done | `Start`, `Ready`, `Done`, cancel | may throw through its signaler context |
| Protocol state queries | `state/protocol/badger/snapshot.go` | read-only view of epochs at a block | `Epochs().Current/NextUnsafe/NextCommitted/Previous`, `retrieveEpochHeightBounds` | read by the manager (`Final()`, `AtBlockID`) |
| Subscription streamer | `engine/access/subscription/streamer.go` | notifier, limiter | `Stream`, `sendAllAvailable` | broadcaster notifications, subscription `Next/Send/Fail/Close` |
| Tx-status data provider | `engine/access/rest/websockets/data_providers/transaction_statuses_provider.go` | `messageIndex` counter | `Run`, `sendResponse` | subscription, client send channel |
| Epoch contract client | `module/epochs/base_client.go` | none | `GetAccount`, `SendTransaction`, `WaitForSealed` (polling loop) | access node client |
| Checkpoint stats tool | `cmd/util/cmd/checkpoint-collect-stats/cmd.go` | counters, per-account format | producer goroutine, consumer loop, two writer goroutines | payload channel, stats channel, WaitGroup |
| Epoch protocol state storage | `storage/badger/epoch_protocol_state.go` | two read-through caches over badger | `StoreTx`, `Index`, `ByID`, `ByBlockID`, `newRichEpochProtocolStateEntry` | badger transactions, the generic cache, epoch setup/commit stores |
| Authorization fix generator | `cmd/util/cmd/generate-authorization-fixes/cmd.go` | `addressFilter`, reporter | `run`: flag parsing, input loading, `checkContracts`, `generateFixesForAllAccounts`, `maybeGenerateFixForCapabilityController` | report readers, registers, migration runtime, report writer |
| Fallback lookups | `network/p2p/hierarchical_translator.go`, `storage/store/chained/transaction_results.go` | none | first-success lookups | translators / storages |
| EVM block context | `fvm/evm/offchain/blocks/block_context.go` | none | `NewBlockContext`, its `GetHashFunc`, `UseBlockHashCorrection` | the block-hash index |
| Ghost gRPC engine | `integration/ghost/engine/ghost/rpc/engine.go` | conduit map, server, engine unit | `New` (`registerConduits`), `Ready`, `serve`, `Submit`, `process`, `Done` | the network's `Register`, the gRPC server, `engine.Unit` |
| Cadence 1.0 migrations | `cmd/util/ledger/migrations/cadence.go` | the list of named migrations; the ledger they rewrite | `NewCadence1Migrations`, `NewCadence1ContractsMigrations`, `NewCadence1ValueMigrations`, the type-conversion rules | account-based migrations run by workers over all accounts; `capabilityMapping` shared by the link and capability migrations |
| Others | mocks, tests, metrics, function values, REST metrics | | | |

**What is hard in the epoch manager.** Four goroutines (the `Start` caller and
three workers) share the map; the finalizer's goroutine delivers protocol events
and height callbacks with *blocking* sends into capacity-1 channels; starting and
stopping a bundle races its Ready/Done signal against a timeout; the stop of
epoch N-1 is scheduled by the transition to N and executed much later by
another worker; and the node may restart at any height, in particular inside a
setup phase or at the first block of an epoch.

**What makes it correct** (spec sections 3, 5 and 8): at most two epochs held;
one bundle per epoch counter; an epoch stopped only after its grace period
(`lastEpochMaxHeight + DefaultTransactionExpiry + 1`) and eventually stopped
after it; epochs added in order and never re-added; a root-QC vote for every
setup phase the node is up for; faults escalated, never half-applied.

## 2. Plan and status

1. **EpochMgr** (done): the whole manager except Ready/Done, with the finalizer
   and the height registry as environment; abstract spec **EpochLifecycle**,
   refined by EpochMgr.
2. **EpochQuery** and **SnapshotDescendants** (done): the epoch queries of a
   snapshot over a growing, finalizing chain; the recursive descendants walk.
3. **Streamer** and **TxStatusesProvider** (done): the two access-node
   streaming paths.
4. **CheckpointStats** (done): the producer/consumer pipeline of the tool.
5. **EpochStateStore** (done): the cached epoch-state storage under
   concurrent readers and a writer.
6. **BaseClient** (done): the epoch contract client's polling loop.
7. **EpochMgrShutdown** (done): engine shutdown racing the transition and
   stop workers, and the `Done()` snapshot, to show that shutdown
   completes.
8. **AuthorizationFixes** (done): the authorization-fix tool's run, with its
   exits and the per-controller decision.
9. **FallbackLookup** (done): the two first-success lookups as operators
   against a reference.
10. **BlockContext** (done): the EVM's BLOCKHASH for re-executed blocks,
    with the historical hash-list correction.
11. **GhostRPC** (done): the ghost node's gRPC engine, from `New` to `Done`.
12. **CadenceMigrations** (done): the migration list of `cadence.go` and
    its execution over two accounts.
13. **TxStatusesProvider close** (done): `Close` and a client that stops
    reading, to check that a closed provider's `Run` ends.

## 3. Modules

### EpochMgr.tla (src/engine/collection/epochmgr/engine.go)

Variables and what they stand for:

| Variable | Code |
|---|---|
| `epochs` | `e.epochs` (counter -> index into `bundles`) |
| `bundles` | every `*EpochComponents` ever started, with its lifecycle state |
| `trCh`, `setupCh`, `stopCh` | the three channels, capacity 1 |
| `regs` | callbacks registered with `heightEvents.OnHeight` |
| `st`, `tr`, `sw` | locals and program counter of `Start`, the transition loop, the stop loop |
| `votes` | calls of `voter.Vote` per epoch |
| `cleared` | epochs whose transaction pool was cleared |
| `fault` | a `ctx.Throw` happened (the node exits) |
| `final`, `outbox` | finalized height and the protocol events not yet delivered |
| `authorized` | epochs in which the factory does not return `ErrNotAuthorizedForEpoch` |

Actions: `StartWorkers` (`cm.Start`), `CheckShouldVoteOnStartup`,
`StartCreate` and `StartAwait` (the rest of `Start` and its
`startEpochComponents`), `TransitionReceive` (dequeue + `onEpochTransition` up
to starting the bundle, including the first `prepareToStopEpochComponents`),
`TransitionAwait` (Ready or timeout, store, second registration),
`StopReceive` / `StopAwait` (`stopEpochComponents`), `SetupReceive`,
`BundleReady`, `BundleDone`, `HandleEpochErrors`, and the environment:
`Finalize`, `DeliverEvent` (`EpochTransition`, `EpochSetupPhaseStarted`),
`FireHeightCallback`. A factory error, a timeout or a bundle fault sets `fault`
and the model stops (`Halt`), as `ctx.Throw` ends the node.

Abstractions: epochs have a fixed length and a setup phase from a fixed offset;
a header is its height; the transaction pool is the set `cleared`.

**Time.** The code bounds each wait for Ready/Done with a one-minute timeout
and the transaction expiry is 600 blocks. The model keeps that proportion
without clocks: `Timely` lets at most `TimeoutHeights` heights be finalized
while a wait is open, and an idle worker takes a queued event before the next
block is finalized. Timeouts themselves may fire at any moment.

### EpochLifecycle.tla (abstract)

The set of held epochs: `Begin(e)` when `e`'s first block is finalized and its
grace period has not ended, `End(e)` only after it has ended; removed epochs
never return. EpochMgr refines it with `running <- DOMAIN epochs` and
`ended <- cleared` (property `ImplementsLifecycle`).

### EpochQuery.tla (src/state/protocol/badger/snapshot.go, EpochQuery)

State: the chain's epoch schedule `starts` and per-height `phase` (chosen in
`Init` among valid ones: staking -> setup -> committed, or fallback; an epoch
switches only from committed), the node's `root`, `final` and `tip`, and the
finalized-only `index` of epoch first heights. Actions: `Extend`, `Finalize`
(indexes an epoch's first height when its first block is finalized). The
queries `Current`, `NextUnsafe`, `NextCommitted`, `Previous`,
`RetrieveEpochHeightBounds` and `EpochPhase` are operators, evaluated at
every known block, finalized or not, in every state.

### SnapshotDescendants.tla (snapshot.go `descendants`)

Blocks are added with any known parent; `LookupChildren` lists children in
insertion order; `Descendants` is the recursive walk with the `range` over the
children only (Go evaluates the range expression once). `DescendsFrom` is the
reference.

### Streamer.tla (src/engine/access/subscription/streamer.go)

`pc` follows `Stream` and `sendAllAvailable`: `StreamStart` (Subscribe, then
the initial `Notify`), `SelectDone` / `SelectNotified`, `SendAllAvailable`
(rate limit, `Next` with its nil/not-ready/end-of-data/response outcomes),
`SendOk` / `SendFails`, `NextFails`. The environment publishes heights
(`Publish`; the notifier's capacity-1 channel coalesces signals) and cancels the
context (`Cancel`).

### TxStatusesProvider.tla (websockets transaction statuses provider)

Arguments are abstracted to fields and value kinds; `Init` runs
`parseTransactionStatusesArguments` in the constructor. `Run` resets
`messageIndex`; `SendResponse` stamps, increments and sends on the client
channel of capacity `ChanCap`; the client drains it concurrently while its
writer reads (`ClientReceive`), and may stop reading (`ClientStops`, the
websocket writer ending on a closed connection). `Close` closes the base
provider's `done` channel: the run loop's select sees it, `sendResponse`'s
send does not. Weak fairness on the provider's steps and on the client
receiving while it reads.

### CheckpointStats.tla (src/cmd/util/cmd/checkpoint-collect-stats/cmd.go)

The producer goroutine (`ProducerLoad`, `ProducerSend`, `ProducerLoaded`,
`ProducerSendStats`, `ProducerClose` with the deferred closes in LIFO order),
the main goroutine (`Validate`, `Consume` with the account-format update,
`RangeEnd`, `ReceiveStats`, `WaitGroupAdd`, `Exit`) and the two report
goroutines (`WriteReport`). `log.Fatal` and panics set `fault`. Sizes, top-N
and JSON are abstracted away; a payload is an address and a register kind.

### CadenceMigrations.tla (src/cmd/util/ledger/migrations/cadence.go)

`NewCadence1Migrations(prune, pruneNil, burner)` is the list the code builds:
the prune migration when asked for and not nil, the burner deployment only for
`BurnerContractChangeDeploy`, the system and staged contract updates, the
contracts extraction, then the value, link and capability migrations, each in
its own account-based migration. `CompositeRules` and `InterfaceRules` are the
three type-conversion rules (`Convert` applies one set). The runner is not
under `src/`: `RunLedgerMigration` runs a whole-ledger step,
`MigrateAccount(a)` runs all migrators of an account-based migration on one
account (`MigrateAll`, recursive, in order), accounts in any order as the
workers take them, and `FinishAccountBased` starts the next migration. The
ledger is abstracted to what the migrations read and write: accounts with
updated contracts, the extracted `contracts`, each account's static types,
the accounts whose links are in `capabilityMapping`, and what each account's
value and capability migration saw.

### EpochStateStore.tla (src/storage/badger/epoch_protocol_state.go)

State: the committed `dbEntries` and `dbIndex`, the entry `cache` and the
`byBlockIdCache` (`idxCache`), one writer transaction `wtx`, and each reader's
call `rd` with its read snapshot. The writer: `BeginTx`, `IndexTx` (`Index` =
`PutTx`, whose cache insert is registered for after the commit), `CommitTx`,
`OnSucceed`, `FailTx` (`StoreTx`'s sanity check, another write or a conflict).
Readers: `ByIDStart`, `ByBlockIDStart` (a read snapshot), `LookupEntryID`
(`retrieveByBlockID` behind the cache), `RetrieveEntry` (`retrieveByEntryID`
and `newRichEpochProtocolStateEntry` behind the cache), `ByBlockIDReturn`.
`Evict` models the LRU limits. `Shape` fixes, per entry ID, whether it holds a
previous epoch and how far the next epoch is.

### BaseClient.tla (src/module/epochs/base_client.go)

The caller's path: `GetAccount` (key-index check), `SendTransaction`
(signature check, submission), then `WaitForSealed` as `Attempt` (one call of
`f` inside `retry.WithTimeout`, which overwrites `result`) and `CheckResult`
(the loop body). The network advances the transaction (`Progress`).

### EpochMgrShutdown.tla (engine.go shutdown and `Done()`)

Starts where `Start` has stored epoch 0's bundle and the transition to epoch 1
is queued. The transition worker's `select` is `TransitionReceive` (bundle
created on a context derived from the engine's, `NewBundleContext`),
`TransitionReady`, `TransitionTimeout` and `TransitionExit`; the stop worker's
is `StopReceive` (a missing epoch is a no-op), `StopDone`, `StopTimeout` and
`StopExit`. The stop callback is registered twice in `onEpochTransition`
(`engine.go:311`, `:335`), so `StopNotice` fires twice. `DoneCall` snapshots
`e.epochs` under the lock; `DoneClose` is `util.AllDone`. `Shutdown`,
`BundleReady` and `BundleDone` are the environment (node and component
lifecycle). `fault` is `ctx.Throw`.

### AuthorizationFixes.tla (src/cmd/util/cmd/generate-authorization-fixes/cmd.go)

`run` as a sequence of stages: `ParseAddressToken` (one `--addresses` entry;
`MapAssign` into `addressFilter`, which is declared but never made, so its
`isNil` is TRUE; `NextToken` stays at `parse` or moves on to `flags`),
`ValidateFlags` (the flag checks and `chainID.Chain()`, at `flags`), `LoadInputs`, `BuildRegisters`,
`BuildRuntime`, `CheckContracts`, then `VisitAccount` (one callback of
`ForEachAccount`) and `IterateController` (one `iterator.Next()` with the
`switch` of `FixFor` and the decision `MaybeGenerateFix`), and `Finish`. A
controller is reduced to the facts its handling reads (`ControllerFacts`),
chosen when the iterator returns it. `exit` is how the process ended: `fatal`
for `log.Fatal().Msg*` (which calls `os.Exit` and skips deferred calls) and
`panic` for a Go panic. A `log.Fatal().Err(err)` with no `Msg` does nothing in
zerolog, so those four checks only set `errIgnored`. When a nil value is used
later and that use is in code outside `src/`, the model lets it either panic or
carry on. The reference `ExpectedFix` is written from the code's comments
("Only fix the entitlements if the capability controller was migrated from a
public link"; the old and new members "should be the same").

### FallbackLookup.tla (hierarchical_translator.go, chained/transaction_results.go)

Pure operators with no variables: the properties quantify over every input
of the bounds (translator sequences, store contents, migration states). `GetPeerID` and `GetFlowID`
are recursive loops over the translator sequence. `GetPeerID` accumulates the
index of each failing translator, which stands for `multierror.Append`.
`ByBlockIDTransactionID`, `ByBlockIDTransactionIndex` and `ByBlockID` read the
`first` store and fall back to the `second` exactly as the code does. The
stores are in every state a copy-only migration leaves a block in (`StoreStates`):
- the first store is absent, copied, or failing;
- the second store is present or failing.

### BlockContext.tla (src/fvm/evm/offchain/blocks/block_context.go)

Constant-level. `GetHash` is the `GetHashFunc` closure: the empty hash at the
current height and above and more than 256 blocks back, otherwise
`UseBlockHashCorrection` (the list entry `queried % 256` for mainnet and
testnet blocks below their fix heights) or the indexed hash. A hash is a
tagged tuple (indexed, fixed list entry, empty); the code's height constants
are kept, and heights are checked around every boundary (`TestHeights`).

### GhostRPC.tla (src/integration/ghost/engine/ghost/rpc/engine.go)

`New` is atomic: the recursive `RegisterConduits` runs the loop of
`registerConduits`, which calls `net.Register(engine.CollectionProvider, e)` on
every iteration and stores the conduit under each engine ID. `netRefuses` is
the network's behaviour on a second registration of a channel (refused by the
real networks, accepted by stubs). `Ready` launches `serve`; `ServeListen`
(listen fails, or `Serve` runs, returning at once if the server is already
stopped) and `ServeReturn` are its goroutine; `Submit` launches a `process`
goroutine (`ProcessReturn`); `DoneCall`, `DoneStop` (`GracefulStop`) and
`DoneClose` (the wait group) are `engine.Unit.Done`.

## 4. Runs

The project is limited to twelve runs, so some components that share no state
are checked in one composite run. A composite MC module `INSTANCE`s each module
with its own variables. `MC_Snapshot` and `MC_ShutdownLookups` interleave their
steps and keep each module's own fairness. `MC_AccessStreams` and `MC_Tooling`
instead choose one program in `Init` (`program`): that program starts from its
module's `Init` and takes its module's steps under its own fairness, while the
others stay in one fixed initial state (`StreamerIdle`, `ProviderIdle`,
`FixesIdle`, `GhostIdle`, `StatsIdle`, `MigrationsIdle`). This keeps the state
space the sum of the parts rather than their product; a liveness property of a
part is stated for the behaviours in which that part runs
(`program = "stats" => ...`). Because no state is shared, each property holds in the composite
exactly when it holds for its module alone. The constant-level properties of
FallbackLookup and BlockContext are stated in `MC_ShutdownLookups` together
with `TypeOK`, so that TLC reports their failure as an invariant violation. The bounds of each part are the
ones listed below.

| Run | Config | Result | Shows |
|---|---|---|---|
| `epochmgr_safety` | `MC_EpochMgr.cfg` | pass (about 7,000 states) | `TypeOK`, `AtMostTwoEpochs`, `GracePeriodRespected`, `ImplementsLifecycle`, and the liveness `EpochsEventuallyStopped`, `VotedInEverySetupPhase` |
| `epochmgr_duplicate_bundle` | `MC_EpochMgr_dup.cfg` | violation | `AtMostOneBundlePerEpoch` fails |
| `snapshot_reads` | `MC_Snapshot.cfg` | pass (about 457,000 states) | EpochQuery and SnapshotDescendants together: the returned boundaries are the chain's and finalized (`HeightBoundsMatchChain`); NextUnsafe and NextCommitted split the phases (`NextEpochQueriesAgree`); every descendant is returned exactly once (`DescendantsExact`) |
| `access_streams` | `MC_AccessStreams.cfg` | pass (about 2,600 states) | Streamer and TxStatusesProvider together. Streamer: every published height is sent unless the stream fails (`AllAvailableDelivered`); a cancel ends `Stream` (`CancelEventuallyStops`); `Close` happens only after every height was sent in order (`ClosedOnlyWhenComplete`). Provider: exactly the well-formed arguments are accepted (`ArgumentsAcceptedExactlyWhenWellFormed`), and each run's messages are numbered 0,1,2,... (`MessageIndicesConsecutive`) |
| `epoch_state_store_reads` | `MC_EpochStateStore.cfg` | pass (about 104,000 states) | ByID/ByBlockID are linearizable with complete rich entries; the caches hold only committed data |
| `shutdown_and_lookups` | `MC_ShutdownLookups.cfg` | pass (about 69,000 states) | EpochMgrShutdown, BaseClient, FallbackLookup and BlockContext together. After cancellation `Done()` closes and every started bundle finishes, unless a timeout is thrown (`ShutdownCompletes`). WaitForSealed's polling loop always ends (`WaitForSealedTerminates`), by an answer or by the nil-result panic of the finding below, and success means a sealed transaction without an execution error (`SealedOnlySuccess`). The translator answers as its first knowing translator; the three chained reads agree with each other and with the data. BLOCKHASH answers as when the block was executed (`BlockHashAsExecuted`). |
| `tooling` | `MC_Tooling.cfg` | pass (about 21,000 states) | AuthorizationFixes, GhostRPC, CheckpointStats and CadenceMigrations, one program per behaviour: a normal exit has visited every controller and written exactly the expected fixes (`FixesExactOnExit`); once the ghost engine's `Done()` is called, its channel closes (`GhostDoneCloses`); the stats pipeline terminates (`Termination`), both reports are complete at exit (`ReportsCompleteAtExit`), account formats are classified as the first register kind seen (`AccountFormatClassified`); each value migration works from the contract updates, the extracted contracts and every account's links (`ValueMigrationsSeeTheirInputs`) |
| `authorization_fixes_dropped_errors` | `MC_AuthorizationFixes_dropped.cfg` | violation | `OkExitOnlyWithoutDroppedErrors` fails |
| `authorization_fixes_address_filter` | `MC_AuthorizationFixes_addresses.cfg` | violation | `AddressesParsedWithoutPanic` fails |
| `base_client_nil_result` | `BaseClient_nil.cfg` | violation | `NeverDereferencesNilResult` fails |
| `ghost_register_channels` | `MC_Tooling_ghost.cfg` | violation | `NewRegistersEveryChannel` fails |
| `access_streams_close` | `MC_AccessStreams_close.cfg` | violation | `CloseEndsRun` fails: a closed provider stays blocked in `sendResponse` |

### Bounds, fairness and mutants of the epoch manager

**Bounds** (`MC_EpochMgr.tla`): epochs 0..2 of 4 heights, setup phase from
offset 2, expiry 2, one height per timed wait, heights up to 10 (the stop
height of epoch 1), restarts at heights 0..4 (start of epoch 0, inside its
staking and setup phases, at the first block of epoch 1), every subset of
authorized epochs, and every subset of the restart height's events still in
flight. Three epochs are the fewest in which a third bundle could join two;
restarts cover both startup paths (vote check, current-epoch bundle).

**Fairness.** Weak fairness for every goroutine of the engine (they loop on
`select` with nothing else to wait for), for the finalizer, and for bundles
becoming ready and done (the spec makes this a contract of the bundle).
Timeouts and internal faults are not forced. Deadlock is checked: terminal
states are explicit (`Halt`: node failed, or height bound reached with all
work drained).

**Mutants.** Each property of the passing run is shown to depend on the code:
forgetting the map delete breaks `AtMostTwoEpochs`; dropping the `+ 1` of the
stop height breaks `GracePeriodRespected` and `ImplementsLifecycle`; passing
the new epoch's counter to `prepareToStopEpochComponents` breaks
`EpochsEventuallyStopped`; leaving out the startup phase check breaks
`VotedInEverySetupPhase`; channels of capacity 2 break `TypeOK`.

### Bounds, fairness and mutants of the other modules

- **EpochQuery**: epochs 0..2, heights 0..5, every schedule, phase sequence
  and root: enough for a previous, current and next epoch with known and
  unknown boundaries on both sides. No fairness (safety only). Mutants: the
  final height without `- 1`; the setup phase granted to `NextCommitted`.
  The run checks no type invariant: every variable of these two modules is
  the environment's chain, so a type invariant would say nothing of
  `snapshot.go`.
- **SnapshotDescendants**: every tree of up to 6 blocks (depth and breadth 5).
  Mutant: an index loop over the growing slice duplicates grandchildren.
- **Streamer**: 3 heights, end at 2. Weak fairness on the streamer's own steps
  (its goroutine always runs); `Next`/`Send` failures, publications and the
  cancel are not forced. Mutants: no initial `Notify`; retrying on not-ready
  instead of returning to the select; a swallowed `Send` error; publishing
  past the last height.
- **TxStatusesProvider**: 2 runs of up to 2 batches of up to 2 results,
  channel capacity 2, so a run's messages are still queued when the next Run
  resets the counter. Mutants: no reset; a lenient parser; a send past the
  channel's capacity. The close run uses the same bounds: one batch of two
  results fills the channel of two and blocks the second send; deadlock
  checking is off there, since a stopped client and a blocked provider is
  the state the property is about.
- **CheckpointStats**: 2 accounts, up to 3 payloads, payload buffer 1, every
  flag combination. Weak fairness on the producer, main and each report
  goroutine. The process ends: in `MC_Tooling` its end state (like the ghost
  engine's) may stutter (`Stopped`), so deadlock is still checked for the
  states before it, and `Termination` is the liveness property. Mutants: an unbuffered
  stats channel deadlocks; `wg.Add(1)` exits early; a domain register
  overwriting the format; a send past the buffer.
- **CadenceMigrations**: two accounts (so a capability may point at another
  account's link, and workers may take the accounts in either order), every
  combination of the prune flag, a nil prune migration and the three burner
  changes, so every shape of the list is run; every account starts with every
  type a rule names and one it leaves alone. Safety only: the runner always
  ends. Mutant: the link and capability migrators joined in one account-based
  migration, so the first account's capabilities are migrated before the
  second account's links are in `capabilityMapping`.
- **EpochStateStore**: 2 blocks, 2 entries of different shapes, 2 readers,
  symmetry over blocks and readers. Safety only. Mutants: the index cached
  before the commit; a failed retrieve cached; the lookup error ignored; the
  next epoch's commit looked up for a ZeroID.
- **BaseClient**: 3 attempts per retry, accounts of 0..2 keys with key index 1.
  Weak fairness on the caller and on the transaction's progress (a submitted
  transaction is sealed or expires). Mutants: the execution error not checked;
  sealed not ending the loop; one retry attempt too many.

- **EpochMgrShutdown**: two epochs (the running one and the next), two stop
  notices. Weak fairness on each worker's loop, on each timer (a timer fires
  once its wait is over), on `Done()` being called and closing, on a cancelled
  bundle finishing and on a non-cancelled bundle becoming ready; nothing
  guarantees that a bundle cancelled while starting becomes ready, which is
  why `TransitionTimeout` can throw during shutdown. Deadlock checking is off:
  the engine's lifecycle ends, and `ShutdownCompletes` states what must have
  happened first. Mutant: the transition loop without its `ctx.Done()` case.

- **AuthorizationFixes**: three accounts (two controllers, one, none, so
  the nil storage-map return is taken), three controllers, one member name
  (so the old and new member sets may be equal or differ), at most one
  `--addresses` entry, and every combination of the flags. Safety only: the
  tool is sequential and always ends. Mutant: a non-controller value ends
  the iteration (`break` instead of `continue`).
- **FallbackLookup**: one flow ID, two peer IDs (so two translators can give
  different answers), chains of up to three translators, and two blocks of up
  to two transactions each, in every migration state of each block. There is no symmetry reduction: it would
  be unsound with the client's liveness property in the composite.
  Mutants: the translator loop keeps going after a success; the chained read
  falls back on any error.
- **BlockContext**: the three chains, heights around 0, 257, each fix height
  and the coinbase change, every queried height from 258 back to one above.
  Mutant: the window admits a height 257 blocks back.
- **GhostRPC**: three engine IDs (so a registration is repeated twice), one
  submitted event, both network behaviours. Weak fairness on the unit's
  goroutines (serve, process, Done's goroutine): the Go scheduler runs them.
  Mutants: `Done` without the `GracefulStop` action, so `Serve` never returns;
  a wait-group `Done` without a running goroutine breaks `TypeOK`.

## 5. Findings

**Duplicate bundle at startup** (`engine.go:103`, `:113`, `:304`). `Start`
launches the worker loops before it reads the current epoch and starts its
components, and stores them only once they are ready. If the node starts just
as the first block of an epoch is finalized, the `EpochTransition` event for
that epoch reaches the transition loop while `Start` is still waiting; the
exists check sees nothing, so a second bundle for the same epoch is created and
started. Whichever store comes last stays in the map; the other bundle runs on,
is never cancelled by the stop loop, and when the epoch is stopped its pool is
cleared while it still runs. TLC's trace: restart at height 4, `StartCreate`
for epoch 1, `DeliverEvent`, `TransitionReceive` creates a second bundle.

**Nil result in WaitForSealed** (`base_client.go:103`, `:105`).
`retry.WithTimeout`'s error is discarded. `f` assigns `result` on every
attempt, and a failed `GetTransactionResult` leaves it nil. When the last
attempt fails (node unreachable, timeout, cancelled context), `result.Error`
dereferences nil and the goroutine panics instead of returning an error. TLC's
trace: account and submission succeed, three failed attempts, `CheckResult`.

**Dropped fatal errors in generate-authorization-fixes** (`cmd.go:200`,
`:214`, `:240`, `:310`). `log.Fatal().Err(err)` has no `Msg` call. zerolog
sends the event, and exits for a fatal one, only in `Msg`/`Send`, so these four
checks neither log nor stop. TLC's trace: `gatherContractsFromRegisters`
fails, no contract is checked, every account is processed and the tool ends
normally.

**Nil address filter** (`cmd.go:110`, `:126`). `addressFilter` is declared and
never made. The first well-formed `--addresses` entry is written into the nil
map and the tool panics, so the flag cannot be used. TLC's trace: one
`valid` entry, `ParseAddressToken` panics while still at `parse`; the
panic of `chainID.Chain()` on an unknown chain happens at `flags` and is not
counted.

**Ghost engine registers one channel for every engine** (`engine.go:77`).
`registerConduits` loops over `allEngineIDs` but calls
`net.Register(engine.CollectionProvider, e)` each time. A network that refuses
a second engine on a channel makes `New` fail on the second iteration; a stub
network hands back conduits all on CollectionProvider, so the ghost node can
only send on that channel whatever engine ID is asked for. TLC's trace:
`New` with a permissive network, every entry of the map on CollectionProvider.

**A closed transaction-status provider can block forever**
(`transaction_statuses_provider.go:103`). `sendResponse` sends with a plain
`p.send <- &response`, with no select on the base provider's `done` channel,
although `Run` passes that channel to `run()` so that `Close` ends it. Once the
client's writer has stopped reading and the channel is full, a `Run` inside
`sendResponse` blocks for good: `Close` cannot end it, and its goroutine and
subscription leak. TLC's trace: `Run` starts and `Close` is called; the run
loop goes on receiving (its select sees `done` and a batch at once), sends one
message, then the client stops reading; a batch of two arrives, the first send
fills the channel of capacity two and the second waits forever.

## 6. Not modelled, and why

- `Ready()` aggregation at startup: it mirrors `Done()` (a snapshot under the
  lock) and is not modelled separately.
- The resumption of the previous epoch after a restart in its grace period is
  a TODO in the code (`engine.go:132`); the model, like the code, does not.
- The voter, factory, pools and `events.Heights` are external: modelled only by
  their contracts in the spec.
- Snapshot reads other than the epoch queries and descendants (identities,
  QCs, sealing segment) read without changing state.
- The ghost engine's `Ready()` closes before `serve` has listened, although
  its comment says it waits for the server; the model lets `Ready` return at
  once and says nothing of readiness. Its message handler and `process` body
  (which returns nil) are not modelled.
- `ChainedTransactionResults` reads the two stores without a snapshot; since
  the migration only copies, a read between two stores sees a state the
  model enumerates (`StoreStates`), so no interleaving is modelled.
- Mocks, tests and metrics wrappers carry no concurrent or protocol state.
  `function.go` defines interpreter function values (host and bound
  functions) whose only operations copy or wrap a value. `rest_api.go` fills
  configuration defaults and builds Prometheus vectors; its `Registry`
  default is never used to register them, which the code shows directly.
- The partial write of generate-authorization-fixes when a fatal error exits
  after some fixes were written (`cmd.go:334`) is listed as a hazard without
  a run: its writer is outside `src/`, and the twelve runs are taken.
