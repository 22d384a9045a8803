# A TLA+ model of the embedding server

The repository is a local embedding server: it installs models into an on-disk
cache, loads them into a native engine, batches embedding requests over bounded
queues, and serves them over HTTP, gRPC and MCP. Almost all of what can go wrong
in it is concurrent or survives a crash: permits counted in two places, futures
dropped at an await, tokens composed of tokens, a shutdown with a deadline, a
repair journal of renames. The rest is sequential and meets what it does not
control: manifests, servers, files, configurations and clients. This directory
models both, model-checks them with TLC, and proves with TLAPS what matters most of
every part.

Sources below are relative to `src/crates/`. `PROJECT.json` maps every definition
to the lines it models.

## The system

| Part | State | Operations | Module |
| --- | --- | --- | --- |
| Work admission, shutdown (`impossible-server/src/runtime.rs`, `impossible-server-core/src/shutdown.rs`) | `draining`, `admitted`, the `admin` mutex, `ShutdownCoordinator`, the shutdown flight, its shared deadline, a `Notify` | `admit_work`, the permit's destructor, `shutdown` (first and joining callers), `wait_for_drain`, `force_stop`, `Inner::drop` | `WorkAdmission`, `DrainContract` |
| Model registry (`runtime.rs`, `health.rs`) | `models`, `loading`, `schedulers`, `retired_schedulers`, health entries, leases, `force_stop` | `load_with`, `register_engine`, `lease`, `unload`, `delete`, `finish_shutdown` | `ModelRegistry` |
| Installation lifecycle (`runtime.rs`, `impossible-models/src/install.rs`) | the spawned task, `InstallCommitGate`, `installs`, the caller's guard | `run_install_transaction`, `request_cancel`, `begin_commit`, abort, drop | `InstallLifecycle` |
| Embedding requests (`runtime.rs`, `impossible-embedding-core/src/lib.rs`) | queue permits, channel, scheduler deque, worker pool, controls, replies | `embed`, `execute_preflight`, `run_scheduler`, `execute_batch`, `await_controlled` | `EmbedPipeline` |
| Batch planning (`runtime.rs`) | the deque of one window, batches, vectors | forming, executing and distributing a batch | `BatchPlanner` |
| Cancellation tokens (`impossible-embedding-core/src/lib.rs`) | flag, waiters and dependents of each signal | `any`, `cancel`, `cancelled` | `Cancellation` |
| Model store and installer (`impossible-models/src/store.rs`, `install.rs`) | final, staging, backup and tombstone directories, the repair marker, file locks | `status`, `verified_model`, `import`, `install_transaction`, `delete`, `reconcile_repair` | `ModelStore` |
| Application service (`impossible-server/src/application.rs`) | `loaded`, `preload_pending`, `shutting_down`, the lifecycle mutex | `load`, `unload`, `delete`, `install`, `preload`, `embed`, `shutdown` | `Application` |
| Process host, gRPC health (`process.rs`, `grpc.rs`, `ShutdownTrigger`) | the trigger, two transport tasks, the handle's watch, `last_ready` | `start`, `run_until_signal`, `shutdown`, `track_health`, drop | `ServerHost` |
| Manifests, catalog (`impossible-models/src/manifest.rs`, `impossible-server/src/application.rs`) | manifests and aliases | `validate`, `semantic_fingerprint`, `trusts`, `resolve_owned` | `Manifest` |
| Download (`install.rs`) | the running installation, its staging files, the cache | `install_transaction`, `download` with its hops and chunks | `Provisioning` |
| ONNX engine (`impossible-embedding-onnx/src/lib.rs`) | `EngineState` (epoch, loaded), what every thread is doing | `load`, `unload`, `warm`, `resolved_model_contract`, `preflight_with_options`, `embed_with_options` | `OnnxEngine` |
| Configuration, credentials (`config.rs`, `security.rs`) | file, environment, command line, `ServerConfig` | `load`, `validate`, `load_credential`, `from_limits` | `Configuration` |
| Errors (`application.rs`, `http.rs`, `grpc.rs`, `mcp.rs`, `cli.rs`) | kinds, codes, statuses, exit codes | the conversions between them | `PublicErrors` |
| MCP (`mcp.rs`) | the phase of a session | `dispatch`, `initialize`, `call_tool` | `McpDispatcher` |
| HTTP, gRPC, MCP and command line (`http.rs`, `grpc.rs`, `mcp.rs`, `cli.rs`) | the process, its configuration and credentials, a call, a session | startup, guards, handlers up to their await and from there, `run_stdio`, the `models` client | `Adapters` |

How they interact. The host owns the application and the two transports. The
application owns one runtime and the store; its lifecycle calls become runtime
calls. Each runtime operation holds a permit of work admission. A request holds
a queue permit and a lease of a registered model and waits under a composite of
cancellation tokens. A shutdown starts at the host, goes through the
application's fence to the runtime's flight, which decides when admitted work is
over and then fences installs, models, schedulers, registry and health in order.
Below the runtime, an installation fills the cache from a manifest and the engine
loads from the cache. Above the application, the adapters turn clients' requests
into its calls and its errors into replies, under a configuration loaded once.

What makes it hard: permits taken and given back in two halves; critical sections
separated by native initialization; watch values that reach only current
subscribers; waiters that register, look and sleep in separate steps; callers
whose futures are dropped; tasks that outlive their callers; a commit gate
against cancellation; crashes, failing system calls and decaying files between
any two renames; a shutdown that does not take the mutex the other calls take;
files that change between verification and use; one failure told in four
vocabularies; one credential set by three keys in three sources.
`PROJECT.json` lists these as hazards, each at its line.

## The modules

A module has one action for each critical section, atomic access or await of the
code, named after the function it belongs to. Data is abstracted to what the
properties distinguish: a model is a model value, a directory tree is one of five
states, a vector is the input it was computed from.

* **`DrainContract`** is the abstract promise of a shutdown: work starts only
  while the service is open, "drained" is said only when nothing is live,
  "forced" only past the deadline, and the verdict is given once.
* **`WorkAdmission`** is the mechanism. `AdmitCoordinator`/`AdmitCount` and
  `ReleaseCount`/`NotifyZero`/`ReleaseCoordinator` are the halves of a permit;
  `ArmWaiter`, `CheckDeadline`, `CheckCount` and the three `Wake...` actions are
  `wait_for_drain`, with the `Notify`'s stored permit (`zeroLatch`) explicit. Time
  is a deadline that is absent, ahead or past. It implements `DrainContract`
  (`ContractSpec`).
* **`ModelRegistry`** and **`InstallLifecycle`** contain `WorkAdmission` as
  `INSTANCE`. Their actions are its actions joined with what the same step does
  to the registry or to the installs, and `AdmissionSpec` states that the
  composition still implements the component. `InstallLifecycle` also has, of what an
  operation does to the cache, whatever cancellation can race: the model's lock, the
  repair marker, the status checks and the reconciliation before the gate, by whomever
  (`StatusEnds`, `TakeLock`, `OtherReconciles`), and the promotion behind it.
* **`EmbedPipeline`** uses `DrainContract` instead of the mechanism: a request
  depends only on the promise. A scheduler's deque and a batch are sets there: the
  deque is sorted by arrival before anything is taken from it, so what is taken is
  the oldest request and some of the others. Which others, and in which order, is
  decided by **`BatchPlanner`**. `queue_depth` is a variable that is chosen once
  (`depth`): it limits the permits of a model, its channel and the pool that all models
  share, which may therefore be full at any time.
* **`Cancellation`** has one step per lock section and atomic access. The nested
  `cancel` of a dependent runs beside the loop that called it, which allows more
  orders than the code has.
* **`ModelStore`** has one model identity, any number of callers in any number of
  processes, and a file system whose unsynced changes may be lost: `possible` is
  the set of disks a power loss can leave.
* **`Application`** has the futures of lifecycle calls, which may be dropped at
  their awaits, a strict or best-effort preload, and a shutdown beside them. The
  runtime appears through its calls.
* **`Manifest`** has operators only: what `validate` accepts, identity and trust,
  the installer's limits, the names of the catalog. A path is a sequence of
  components, a URL its scheme, host and whether it has credentials. Sums are
  checked (`CheckedSum`): whatever exceeds `MaxU64` is an overflow, and stays one.
  `WellTyped` is what deserialization guarantees before anything is validated.
* **`Provisioning`** extends it with one installation at a time: `Send`,
  `Redirected`, `Accepted`, `Chunk` and `BodyEnds` are the loop of `download`, with
  servers that may answer anything. Staging holds case-folded paths, as a file
  system that ignores case does. The promotion is one step; its crash safety is
  `ModelStore`'s.
* **`OnnxEngine`** extends that with threads on one engine. The state mutex is held
  for single steps: a load reserves an epoch, verifies, reads, builds and publishes
  if no later transition was reserved, while files are altered and put back. A text
  is its number of tokens, a vector the positions it was pooled from and the widths
  it was cut to and normalised over. The native session is external.
  **`ModelSupply`** joins the two: what is installed is what can be loaded.
* **`Configuration`**, **`PublicErrors`** and **`McpDispatcher`** are operators:
  parsing of the three sources, merging, validation, credentials and policy; the
  taxonomy of failures; what the dispatcher answers to an item and its next phase.
* **`Adapters`** extends these with the process: `Load`, `Construct` and `Preload`
  are startup, then `serve` takes calls (`Receive` for HTTP and for the `models`
  client, `GrpcReceive`) and `mcp` reads frames. `Respond` and `ToolReturns` let
  the application return any of its results. Calls share nothing in the adapters,
  so one is in flight at a time. A listener that cannot be bound is in `ServerHost`.
* **`ServerHost`** has the trigger's futures (register, look, sleep), the two
  transport tasks, the health tracker and the host. axum and tonic are external:
  they serve until their shutdown future completes, then drain.

`MC...` modules instantiate these for TLC. The proofs are in `WorkAdmissionProofs`,
`ModelRegistryProofs`, `EmbedPipelineProofs`, `ApplicationProofs`, `ModelSupplyProofs`,
`AdaptersProofs`, in `InstallProofs` for the store and the installs, and in
`ComponentProofs` for the batches, the tokens and the host.

## The runs

Eleven runs pass; every property is also known to fail on a mutant of the code
(an operator defined just above the one it replaces and marked "Mutant").

| Run | Instance | What it shows |
| --- | --- | --- |
| `WorkAdmission_shutdown` | 3 operations (one detached), 2 callers | `DrainedIsQuiescent`: "drained" means quiescent, also between the halves of an admission. `ContractSpec`: the mechanism implements the contract. `ShutdownDecides`: a shutdown with a deadline ends though no operation does, and the last release wakes one without. |
| `ModelRegistry_safety` | 1 model, 2 keys, 1 lease holder, 1 caller | `RegistryConsistent`: reservation and registration exclude each other and health entries follow them. `LeasePinsModel`. `ServingIsBacked`: a serving model has a live scheduler, and files of a loaded model are not deleted. `StoppedIsClean`. `AdmissionSpec`. |
| `InstallLifecycle_commit` | 1 install, 1 other operation, 1 caller, with or without a repair left behind | `VerdictIsTruthful`: the tree of a cancelled install is not promoted and never will be, also by no reconciliation; a committed one is reported as it ended. `NoCommitBehindStop`. `ForcedStopReleases`: a waiting caller returns from a forced shutdown, an aborted task gives its permit back. `AdmissionSpec`. |
| `BatchPlanner_safety` | 3 requests of up to 2 inputs, lengths up to 3, integers up to 7 | `DispatchesGreedily`: every batch is the greedy one of a declarative definition, within both limits with checked arithmetic. `OwnAnswerOnce`: each request is answered once, with its own vectors. |
| `EmbedPipeline_safety` | 2 requests (one cancels, one expires), 1 slot, 1 worker, queue depth 1 and 2 | `RequestsAccounted`: a request has one owner and the queue counter is exact. `ErrorsAreOwn`. `GracefulKeepsWork`: a graceful shutdown fails no request. `AdmittedFindsRoom`: the counter stays within its limit, and who has a permit is not refused by the channel. |
| `Cancellation_wakeup` | 4 tokens in two levels, 2 waiters | `NoLostWakeup`, and `CancelledReturns`. |
| `ModelStore_safety` | 2 callers; 2 failing calls, 1 power loss, 1 kill, 1 decay, at most 3 of them together | `RepairIsRecoverable` on every disk a crash can leave. `PromiseIsDurable`: installed models stay, deleted ones stay deleted. `LeasePinsFinal`. `OnlyDeletionDisplaces` a verified tree. |
| `Application_transaction` | 2 models in the preload list, 2 lifecycle futures, 1 request | `PreloadIsAtomic`: reported models are the served ones, an uncommitted strict preload is hidden from requests, and its gate is lifted. `ClearIsFinal`. |
| `ServerHost_lifecycle` | 2 readiness changes | `TriggerReachesWaiters`: the trigger has no missed-wakeup window. `HealthFollows`: a gRPC task that ends has announced NOT_SERVING for both names, and health comes to report the readiness that lasts. |
| `ModelSupply_chain` | 17 catalogs (most to be refused), 2 installations, 2 threads, 3 transitions, 1 inference, 2 alterations | `DownloadIsBounded` in origins, requests and bytes, whatever servers answer. `StagingNeverCollides` for what a catalog accepted, with one exception it names. `LatestTransitionWins`. `LoadedIsIntact`: a session is built from the declared bytes and no others. `OutputIsOfOneModel`, the one it names. `PreflightPredictsRun`: the scheduler's cost is what the inference takes. |
| `Adapters_requests` | 6 files, 10 environments, 10 command lines, 3 commands; some 90 HTTP and gRPC requests, 12 uses of the client; sessions of 3 frames out of 19 | `StrongestSourceWins`, field by field. `ExposureIsGuarded`: who gets past a guard, against the configuration. `ConventionAuthenticates`: client and server agree on the conventional variables. `FailuresAgree` across HTTP, gRPC and MCP. `HandshakeFirst` and `AnsweredInOrder` of a session. |

One run shows a disagreement between the code and what it says of itself.
`ModelRegistry_forced`: `force_stop.send` (`runtime.rs:1576`) stores nothing
without a receiver. A load that has submitted its job and not subscribed yet then
waits for native initialization without end (`ForcedShutdownEndsLoads` fails),
although the comment at 949-951 says a forced shutdown terminates it.

### Bounds, and why they are enough

The operations of `WorkAdmission`, the futures of `Application` and the callers of
`ModelStore` start again after they end, so histories are unbounded although the sets
are small. A key, an install and a request live once, as in the code. Three operations
are what a stale `Notify` permit followed by two overlapping releases needs; two keys
are what a load racing a load, a registration or a reload of the same model needs. The
batch limits are small enough for every limit to be met exactly and passed by one, and
`MaxUsize` for a sum to overflow. A repair needs one decay, one failing rename and one
crash or failing rollback to reach every branch of `reconcile_repair`; that is three
mishaps. Two levels of tokens make a dependent of a dependent. Two readiness changes are
a change during the publication of another. With two requests, a queue of depth one is
full and refuses, one of depth two is full and does not. Two threads and three
transitions are two loads overtaken by an unload, or a load that finishes after both;
one inference crosses them, and `Epochs` is larger than the transitions as 2^64 is in
practice. Sizes, widths and `MaxU64` are small enough for a sum to reach, pass and
overflow every limit; an artifact's body comes in any division into chunks. Three frames
are a handshake and a use of it, or a batch in any of its places; `MaxBatchItems` is 3
so that a batch can be too long. The sources of a configuration are examples: every kind
of key, value and refusal occurs, and all combinations of file, environment, command
line and command are tried. Symmetry (keys, callers, processes) is used in runs without
liveness only.

Deadlock is not checked where the system may stop: a stopped runtime or host, a
token nobody cancels, a request set that is answered, an instance whose
installations and transitions are used up, a process that exited. It is checked for
the store.

### Fairness

Weak fairness on what the executor polls (futures that can move, destructors, the
flight, woken waiters), on tasks that run on without waiting for anything outside
(the durable phase of an install, a status on a blocking thread), and on timers. No fairness on callers, on
native initialization or inference, on the network, on requests in flight, or on
signals: nothing in the code makes them happen. `ModelSupply` and `Adapters` assume
none: their properties are invariants.

## What is proved

The theorems hold for every value of the constants that meets the assumptions named
here, whatever the number of callers, keys, tokens, requests, artifacts or texts. The
theorems about behaviours rest on an inductive invariant, with a lemma for each of its
layers and a step for each action. They cover safety and refinement without fairness.
Where a property is about a sum or a sequence, induction over the naturals is derived
from the well-foundedness of inclusion among finite sets (`LeastNatural` in
`ComponentProofs`, `Induction` in `ModelSupplyProofs`), as a fact about sets of numbers.

**`WorkAdmissionProofs`**, from `OpAssumption` (finitely many operations, since the
code counts them):

* `TypeCorrect` (every variable keeps its type), `DrainIsSound` (a graceful verdict
  means nothing is live), `ForceIsLate` (work is given up only past the deadline),
  `CoordinatorInStep` (the coordinator and the `draining` flag agree on admission);
* `VerdictIsStable`: a verdict never changes, whoever joins;
* `Implements`: `Spec => ContractSpec`, step by step under the mapping in
  `WorkAdmission`.

`DrainedIsQuiescent` is not inductive: the flight reads a counter, so one must know
that the counter is the number of permits in the counted states (`Accounting`), that
a permit between the halves of its admission is the owner of `admin` (`AdminOwner`),
and that `draining` is set under `admin` and nothing is between its halves from then
on (`Closed`). With these, a zero count in a closed runtime is quiescence
(`ZeroMeansQuiescent`). The invariant is `IInv` (`Invariance`).

**`InstallProofs`** is about the cache: the store on disk, and the installs that change
it. Of the store, from `StoreAssumption`, for any set of callers and any number of
failing calls, kills, power losses and decays: `RepairAlwaysRecoverable`,
`PromisesAreDurable`, `LeasesPinFinal` and the action property `DeletionAloneDisplaces`
(`OnlyDeletionDisplaces`). The exclusive lock makes the disk the business of one caller
at a time, so the invariant has two halves: `StateInv`, what all the disks have in
common that a power loss may leave, and `Own(p)`, what p's position says of p, of the
locks and, while p holds the lock, of the disk. A step of p keeps the first,
re-establishes its own and disturbs nothing that another caller's speaks of. What makes
the invariant more than the properties is that a marker whose replacement is still in
staging stands for a broken tree (`DiskInv`), and that a promise stands only while no
repair is open.

Of the installs, under `InstallAssumption` (finitely many installs and other operations,
which are distinct), which is what `InstallLifecycle` assumes of its constants:

* `ImplementsAdmission`: `Spec => AdmissionSpec`, so the invariant of `WorkAdmission`
  holds of the composition and is used here as it was proved there;
* `VerdictsAreTruthful`: the invariant `GateInv` says, for each place of caller and
  task, what the gate, the result and the cache can be. A marker that stands for an
  install's tree is set behind its crossed gate only, so whoever reconciles promotes no
  other (`ReconcilesCrossed`), and whoever reports a cancellation closed the gate first;
* `StopIsFinalForInstalls` (`NoCommitBehindStop`): an action property. It needs
  `FenceInv`: an install that may still commit holds its permit and is registered, so
  a shutdown that has gone past the installs either drained, and there are none, or
  closed their gates. This is where the proof needs the accounting of admission.

**`ModelRegistryProofs`**, from `RegistryAssumption` (finitely many keys):

* `ImplementsAdmission`, as above;
* `RegistryStaysConsistent`, `LeasesPin`, `ServingStaysBacked` and `StopCleansUp`.

`RegistryInv` has seven layers, each of which uses the ones before it: how far
`finish_shutdown` is (`StageInv`), what the place of a load says of its key
(`KeyInv`), whose the entries of `models` and `loading` are (`EntryInv`), leases,
slots, task registries, and the artifacts behind the engines (`LeaseInv`, `SlotInv`,
`TaskInv`, `StoreInv`). `StoppedIsClean` alone is far from inductive: it speaks of the
end of a chain of stages, each of which must leave behind what the next relies on.
What is used of admission is that there is a flight exactly when the runtime drains,
and that none runs once the runtime is gone.

**`EmbedPipelineProofs`**, from `PipelineAssumption` (finitely many requests and slots,
any positive depths): `RequestsAlwaysAccounted`, `ErrorsAlwaysOwn`,
`GracefulAlwaysKeepsWork`, `QueueIsBounded` and `AdmittedAlwaysFindRoom`
(`AdmittedFindsRoom`). A request is an object that moves between its future, the pool,
the channel and the deque while its future may be dropped under it. `PlaceInv` says for
each place what the future, the reply, the lease and the queue permit are then, and that
nothing holds a lease or a permit from nowhere; `CountInv` that the counter is the
number of permits; `ErrorInv` follows an error from where it is made, in the reply, to
where it is returned; `DrainInv` ties what is live to the contract's verdict.
`RequestsAccounted` is about places, so it follows from `PlaceInv` and not by itself.
`LimitInv`, that no counter exceeds `depth`, is inductive over these. A request that is
on its way to the channel and those already in it hold different permits, so by
`CountInv` the channel is shorter than the counter, which is the argument for
`AdmittedFindsRoom`: the branch of `embed_inner` for a full channel is never taken.

**`ComponentProofs`** is about three parts that share no state. Of the batches, from
`PlannerAssumption` (positive limits that the integers hold; a batch takes any one
request), for any number of requests, any shapes and any policy:

* `BatchesAreGreedy` (`DispatchesGreedily`): `run_scheduler` decides with running sums over
  the candidates it has seen, the property speaks of the members of the batch that are
  older than a request. `Scan` is a recursive function; an induction over its turns shows
  that the sums are those of the requests taken so far, that a candidate is in one of the
  two sequences, and that both keep the order of arrival;
* `RequestsAnsweredOnce` (`OwnAnswerOnce`): `BatchInv` says that the deque and the batches
  are sequences without repetitions that share no request (`QueueInv`, `JobInv`), and
  that a request has no answer exactly while it is in one of them (`AnswerInv`). That
  `publish_results` cuts the engine's output where the requests' inputs were joined is an
  induction over the members: what is left of the vectors after k turns is the output for
  the members behind the k-th.

Of the tokens, under `TokenAssumption` (a finite graph of tokens, cyclic or not),
which is what `Cancellation` assumes of its constants:

* `WakeupsAreNotLost` (`NoLostWakeup`). `is_cancelled` finds a cancelled constituent by
  recursion, the waiters are woken through lists. The proof relates the two: a token
  that is published is in the list of every constituent (`RegistrationInv`), a flag that
  has not reached a dependent is on its way to it (`PropagationInv`), and a future past
  its look at the flag is in the list, woken, or about to be (`Awaited`). When no thread
  is inside `cancel` nothing is on its way, so the set flags are closed under
  composition.

Of the host, for any number of readiness changes:

* `TriggerAlwaysReaches` (`TriggerReachesWaiters`): the property speaks of futures that
  sleep, and is inductive once it also covers those that have looked at the flag and are
  about to (`TriggerInv`);
* `EndedMeansNotServing`, the safety half of `HealthFollows`: `ClosingInv` follows the
  two publications at the end of `track_health` one by one.

**`ModelSupplyProofs`**, from the assumptions of `Manifest`, `Provisioning` and
`OnnxEngine` (the types deserialization guarantees, limits that `Installer::new` accepts,
fewer transitions than epochs, and tokenizers that add some number of tokens):

* `DownloadsStayBounded`: the bytes on disk are the checked sum of the artifacts before
  the present one and what was received of it (`ProgressInv`); that partial sums grow and
  never overflow once the total does not is an induction over the artifacts;
* `StagingStaysApart` (`StagingNeverCollides`): `StagingInv` says that staging holds the
  folded paths of the artifacts that were begun, and validation keeps these apart;
* `LatestAlwaysWins`, `LoadedAlwaysIntact`, `OutputsAreOfOneModel` and
  `PreflightAlwaysPredicts`: `Proper` says for each place of a thread which bytes,
  session, contract and cost it has then, of which model and of which transition, and
  `Holding` what the loaded model was built from. The last two need what padding,
  truncation, pooling and checked sums do to texts of any number and length, by induction.

**`ApplicationProofs`**, from `ApplicationAssumption` (a preload list without
repetitions; the constructor refuses others): `PreloadsAreAtomic` and `ClearsAreFinal`.
`Shape` says how far a call can be and who has the lifecycle mutex; `StopInv` orders
fence, flight and clear; `GateInv` and `TxInv` say what a transaction holds back, has
loaded and still has to undo; `ReportInv` relates `loaded` to what the runtime serves at
every intermediate point through `Due`, what `loaded` is going to be; `EarlyInv` says
which requests can be past the gate. They are needed because the property speaks of
states in which nobody has the mutex and a transaction passes through many in which
report and service differ.

**`AdaptersProofs`**, from `AdaptersAssumption` and `RequestAssumption` (a header is a
sequence, the client has five commands, a credential source has at most one content
and the two conventional variables are sources):

* `HandlersAreGuarded` (`ExposureIsGuarded`): no handler runs for a caller without the
  credential that the configuration asks for. `BootInv` carries the reason through
  startup: the configuration in use was accepted, and the credentials are the ones it
  names, present where they are configured, and different;
* `SourcesAreRanked` (`StrongestSourceWins`), from what parsing, `Patch` and `Apply`
  do to one field, and `SourceInv`: the sources are those of the configuration;
* `TransportsAgree` (`FailuresAgree`), by cases over the taxonomy of failures, and
  `FailInv`: a call fails at most once and its reply is made from that failure;
* `AnswersKeepOrder` (`AnsweredInOrder`): the n-th answer of a session is to the n-th item
  that asks for one, in sessions of any length. `AnswerInv` relates each answer written so
  far to the number of such items before it, across frames and within a batch;
* `ToolsFollowHandshake` (`HandshakeFirst`): `HandshakeInv` ties the phase of the
  dispatcher to the items that came before;
* `ConventionSuffices` (`ConventionAuthenticates`): the client that follows the
  conventional variables is let in by a server that does;
* `AcceptedConfigBuilds`: a configuration that `ServerConfig::validate` accepts gives a
  `BatchPolicy` that `BatchPolicy::validate` accepts, for every record of values. The
  two lists of checks are in different crates and are written down independently;
  that they agree is why startup cannot end in `InvalidPolicy`.

Only model-checked: liveness (`ShutdownDecides`, `ForcedStopReleases`, `CancelledReturns`,
the first half of `HealthFollows`), which is out of the prover's reach.

## Assumptions of the models

* Mutexes are not poisoned. The code maps a poisoned lock to a refusal.
* The file system journals metadata in order and renames atomically. A file decays
  only at rest, when no operation holds the exclusive lock.
* The manifest a caller passes to the store is the one of the identity.
* A panic is modelled where the code handles it: in an install's operation and in
  the transport tasks.
* The future of `ServerHost::shutdown` is not dropped between its branches.
* The engine starts when the installations of an instance are over; the two meet in
  the cache only, and their races there are `ModelStore`'s.
* A digest determines the bytes it was made from.
* The application returns any error it can build, at any time, to the adapters.

## Observations without a run

The models also show behaviour that a reader of the comments might not expect.

* When promotion and rollback both fail, the repair marker is kept for a later
  reconciliation that needs the complete staging tree (comment,
  `store.rs:1622-1624`), and `import` removes that tree (`store.rs:649`). The old
  tree can still be recovered from the backup, which `RepairIsRecoverable` says.
* The gRPC task is the join of its server and `track_health` (`grpc.rs:176`). A
  server that returns on its own leaves the task running and `run_until_signal` in
  its loop, although the latter's doc (`process.rs:168-169`) says that it waits for
  an unexpected termination too. `ServerHost` has this step.
* `credential_like_option` (`config.rs:765-772`) refuses every option that contains
  "token", so `--max-tokens` and `--max-batch-tokens`, which the command line passes
  on (`cli.rs:244-247`), are unknown keys. `Configuration` has it (`CredentialLike`).
* A scheduler started for a load that is refused at publication is aborted in its
  destructor and never joined (`runtime.rs:403`); its task may be alive when
  Stopped is published. `StoppedIsClean` therefore speaks of published schedulers.
* `await_controlled` looks at `force_stop` and then at its composite control
  (`runtime.rs:1807-1812`). A forced shutdown that fences the slot in between is
  reported as a cancellation.
* `embed_inner` takes the slot and then looks the model up again for its lease
  (`runtime.rs:1338`). After an unload and a reload in between, it holds the lease
  of the newer registration and works with the older, fenced one.
* `validate_artifacts` refuses an artifact named `manifest.json` (`manifest.rs:316-321`)
  and accepts one that lies in a directory of that name. Such a model is downloaded as a
  whole and then cannot be completed, since the manifest is written to that place last.
  `StagingNeverCollides` names the case.
* `CancelledBeforeCommit` is documented as "Cancellation won before any durable cache
  mutation began." (`install.rs:27`). A status (`store.rs:454`) and the transaction
  (`install.rs:271`) reconcile before the gate, so the repair that an earlier install left
  may be finished, or rolled back, after this one's cancellation won. `InstallLifecycle`
  has these steps; what holds, and is proved, is that this install's own tree is not
  promoted (`VerdictIsTruthful`).
* The rollback of a strict preload ignores that a model in use cannot be unloaded. Such a
  model, used by a request admitted before the gate, stays served and is reported as
  Unloaded, although "Strict policy rolls back models loaded by this call"
  (`application.rs:690-691`) and Unloaded means that "No runtime is registered"
  (`application.rs:201`). `PreloadIsAtomic` excepts these models (`orphans` in `Application`).

One smaller one is written into a property: a readiness change between the publication in
`spawn_grpc_server` and the first look of `track_health` is not published (`misread` in
`ServerHost`).

## Not modelled

* Telemetry, metrics and the doctor's report: counters and formatting that nothing
  in the program reads back.
* Bodies of successful replies, the layout of gRPC messages, the OpenAPI document,
  logging, and the texts of errors.
* Licences and descriptive texts of a manifest beyond "acceptable or not"; the store's
  containment and reparse checks; `discover`, which only reads.
* Readiness reasons; diagnostics and path helpers of the configuration.
* A tokenizer file that pads: every token of a text counts, so a row of the attention mask
  is one for each. A file that cuts is modelled (`cut` in `OnnxEngine`).
* `HEAD` requests apart from `GET`, which share the handlers; controls composed of
  controls (`ExecutionControl::composite`), which have no signal and are only looked at.
* Native inference: the session returns some tensor of a width its graph allows, or
  fails. Floating point is not modelled: a vector is where it comes from.
* TLS, HTTP/2 and the limits of axum and tonic. Calls that are in flight together
  meet in `EmbedPipeline` and `Application`, not in the adapters.

## Plan

Order of work, done and to come:

1. Done: the shutdown contract and its mechanism; the registry and the installs
   composed with it; requests over the contract; batches; tokens; the store; the
   application; the host; manifests, downloads and the engine; configuration,
   errors, MCP and the adapters. Proofs of the safety properties of all of them.
2. Model next: reload during a request in `EmbedPipeline` (two slots); liveness of a
   request and of a graceful shutdown over all stages; the application composed
   with `ModelRegistry` instead of its calls; `Provisioning` with the promotion of
   `ModelStore` instead of one step.
3. Prove next: what the models of step 2 add, and the safety half of the answers to
   requests across a reload.
