# Formal models of the eggwork node

This directory holds TLA+ specifications of eggwork: its node, the data the node
keeps, the runner and its sandbox helper, the client and the operator's commands.
TLC checks them on small instances, and TLAPS checks proofs of the central
properties for every value of the constants. Source references are to
`src/crates/eggwork-server/src` unless another crate is named.

## The system

A node executes commands for remote callers.

| part | source | module |
| --- | --- | --- |
| execution store and event journal | `store.rs` | `ExecutionStore`, `ExecutionContract` |
| execute, run loop, publish; lease monitor; renew and cancel; shutdown, wait, start | `lib.rs` | `ExecutionNode` |
| event streams; resuming client | `lib.rs`, `eggwork-client` | `EventStream` |
| routing, body limits, authentication | `lib.rs` | `Requests` |
| validation of requests, capabilities, launch | `lib.rs`, `eggwork-core`, `eggwork-runner` | `Admission` |
| client calls, look-ups by principal | `eggwork-client`, `lib.rs`, `store.rs` | `NodeClient` (on `Requests`) |
| framing of event responses | `eggwork-client` | `EventFraming` |
| blob store | `blob.rs` | `BlobStore` |
| workspaces, retained manifests, artifacts, collection | `workspace.rs`, `artifact.rs`, `lib.rs` | `DataPlane` (on `BlobStore`) |
| manifests and patches | `eggwork-core`, `workspace.rs` | `Manifest` |
| process runner, sandbox helper | `eggwork-runner`, `eggwork-sandbox-helper` | `Runner` |
| bounded output capture | `eggwork-runner` | `OutputCapture` |
| telemetry cache and refresh loop | `telemetry.rs` | `Telemetry` |
| drain marker, locks, update | `operations.rs`, `deployment.rs`, `bin/eggworkd.rs` | `Deployment` |

How they interact. A request is routed and authorized, an `execute` is validated
and checked against the capabilities of the host. It is admitted under the lock
of the executions map, activates its workspace, reserves a durable row, publishes
`Accepted`, and spawns two tasks: `monitor_lease`, which cancels the execution
when its lease passes, and `run_execution`, which runs the process and publishes
its output and outcome. Control requests renew the lease or cancel. `publish` is
the only writer of events: under `commit_lock` it commits to the store, installs
the snapshot and broadcasts. Streams replay the journal and then follow the
broadcast. Workspaces, manifests and artifacts pin blobs by references in the
blob store, and a collection removes what is expired and then what nothing pins.
`shutdown` drains and cancels, `wait` waits for the tasks. On start, `recover`
interrupts whatever has no outcome and retention is re-armed.

## Modules

* `ExecutionContract` is the abstract promise: the generations of an identity
  are accepted one after the other and each is concluded at most once.
* `ExecutionStore` models the tables `executions` and `execution_events`. Each
  operation of `store.rs` is one immediate transaction behind one mutex, so each
  is one action: `Reserve`, `CommitEvent`, `UpdateLease`, `Recover`. An event
  keeps the number of bytes appended before it (`from`), so that the retained
  bytes are a subtraction and trimming has a closed form, `Kept`; `TrimIsLoop`
  compares it with the deletion loop of `trim_events`.
* `ExecutionNode` extends the store with the tasks and handlers of a running
  node, cut into actions at their awaits: the executions map, the
  `ExecutionRecord` of each key, the holder of each `commit_lock`, the tasks, the
  control requests in flight and the stage of shutdown.

  | actions | code |
  | --- | --- |
  | `Execute*` | `execute` from the lock of the map on |
  | `Publish*`, `Install` | `publish` |
  | `Runner*`, `ReaderEnd` | `LocalProcessRunner::run` as its caller sees it |
  | `Run*` | `run_execution`, the biased `select!` included |
  | `Monitor*` | `monitor_lease` |
  | `Control*`, `Renew*`, `Cancel*` | `control` |
  | `Shutdown*`, `Wait`, `Restart`, `Crash` | `shutdown`, `wait`, `start` |
  | `OrphanEnds` | a process that outlived its node (external) |

  A crash ends the tasks of the node and not the processes they started: the
  runner has `kill_on_drop` and a process group, neither of which helps when the
  node itself is killed, and "a child that outlived its parent node is neither
  reaped nor adopted here" (`architecture/storage-journal.md:397`). `Start`
  therefore keeps any subset of the running processes in `orphans`.

* `EventStream` extends the store with one followed execution: `publish` in
  three steps, `event_response` in three (subscribe, load, read the snapshot),
  `event_stream_response`, the broadcast channel with lag, and a client that
  reconnects with its cursor.
* `BlobStore` models files, rows and references, with `put_stream`,
  `verify_existing` and `garbage_collect` cut where they give up the metadata
  lock, and `remove_stale_parts` on open. Faults are corruption of a file, an
  I/O error, a dropped request and a crash.
* `DataPlane` composes it with the tables of workspaces, manifests and artifacts.
  Rows and references live in different databases, so every pair of writes is
  two actions with whatever may come between. One process is one request, task or
  collection of the node.
* `Runner` models `run` with the helper and the processes of the target: what
  was requested, the steps of both sides of the handshake, pipes and readers,
  the signals and who they reach. `runs` records every start of a target with
  what really confined it.
* `OutputCapture` is `BoundedCapture::push` on a stream of numbered bytes.
* `Manifest` has `validate`, `apply_to`, `digest` and `materialize_tree` as
  operators, and submissions and patches as steps. A path is a sequence of
  components; a host either tells case apart or not.
* `Requests` has the three tables that decide from a path (`operation_for`,
  `request_body_policy`, `resource_for_path`), `dispatch`, and the handlers' own
  questions to the authorizer about what the body names (`authorize_resource`).
* `NodeClient` extends it with every method of the client, the handlers that
  answer them and what other clients change meanwhile.
* `Admission` follows a request through the validators of core, node, runner and
  helper to the environment and confinement of its target, while the host's
  abilities change after the node has probed them.
* `EventFraming` cuts a response into every sequence of chunks.
* `Telemetry` keeps time as distances (age of the sample, delay of the next
  attempt), so that it need not end.
* `Deployment` has the daemon, its `execute` handlers as far as draining is
  concerned, drain and undrain, offline collection and an update. The state lock
  is a field of `NodeServer`: an interrupted daemon drops it when `run` returns,
  while its handlers go on until the runtime is gone (`ServerDropped`,
  `ProcessEnds`), beside offline collection or the next daemon. The eggup
  transaction and the service manager are external: each of their steps may fail.
* The modules `MC*` instantiate the others. `MCExecutionStore`, `MCStorage` and
  `MCServices` have a variable `part` that never changes and selects an instance,
  so that one run covers several small state spaces instead of their product. A
  part restricts which steps are taken; every step it takes is one of the
  specification. In `MCExecutionNode` the digest of the first request plays this
  role, and an action constraint keeps a behaviour to its instance; in `lease` one
  (`CancelledOnce`) leaves out cancels of an execution that is already cancelled,
  which are under no fairness.
* `ExecutionStoreProofs` (store and event stream), `ExecutionNodeProofs`,
  `BlobStoreProofs`, `DataPlaneProofs`, `RunnerProofs` (admission and runner) and
  `ServiceProofs` (client, telemetry, deployment, captures) hold the theorems.
  `ExecutionNodeSteps` and `DataPlaneSteps` hold lemmas about single actions, and
  `StorageInvariant` the inductive invariant of blob store and data plane.

Every operator called `X_Y` directly above an operator `X` is a deliberately
wrong variant of `X`; no specification uses it. Substituted for `X`, it shows
that a property is able to fail.

### Abstractions

* A digest stands for canonicalization version and request digest, a lease for
  its hash; a renewal id is a value. A blob has size one, so that the quota
  counts blobs; a manifest in `DataPlane` is the set of its blobs.
* The wall clock (store) and the monotonic clock (tasks) advance together in
  `ExecutionNode`; `Telemetry` lets them drift apart.
* In `ExecutionNode` requests that are refused before they change anything are
  not told apart, and the runner returns a result, `CancelledBeforeSpawn`, a
  set-up error, or a reader error with or without another reader still open.
  One process of the node is there at a time; what a dropped server leaves
  running beside the next daemon is in `Deployment`.
* In `Requests` the authorizer goes by the grants, as `GrantAuthorizer` does, and
  besides denies the questions in `Withheld`, as one that overrides
  `authorize_request` may. A body names one or two things; that a body does not
  parse is not told apart from a refusal of the handler.
* In `Runner` output is counted in chunks. Limits and Landlock are in force once
  the helper has verified them; the kernel is trusted.
* In `Admission` texts have a length and a NUL flag, names belong to the classes
  the validators tell apart.
* In `NodeClient` other clients act while the request is handled or the client
  holds an answer: what they change while a request is only read and routed
  commutes with that. `cancel` and `renew` are two steps, the checks of the rows
  and the answer from the record.
* `BytesKept` is checked without corruption of files, which no reference protects
  from; corruption happens in the part `blobs`.

## Runs

| run | instance | distinct states |
| --- | --- | --- |
| `store` | a journal of 3 events and 5 bytes under output of 1, 5 and 6 bytes and two renewal ids; two identities with two generations each and room for three rows | 111,994 |
| `node` | two generations, a renewal, crashes; one execution with output, a cancel and every disturbance | 436,836 |
| `lease` | renewals under two ids, a cancel, a term of 2, clock to 3, failing set-ups and readers, crashes; fair | 223,492 |
| `wait` | two executions, a map with room for one, failing writes, shutdown; fair | 156,675 |
| `storage` | three digests, a quota of two, two processes, two workspaces, clock to 2, every fault | 392,984 |
| `runner` | nine requests that tell the paths apart, with failing set-up, slow or stuck processes and failing signals; fair | 357,512 |
| `services` | the remaining modules, one part each; fair where it says so | 600,475 |

What they show:

* `store`: the retained events are a gap-free run that ends at the newest one,
  within both bounds (`JournalIntact`), trimmed as the loop of `trim_events` does
  it (`TrimIsLoop`); a cursor gets exactly what follows it or a recognisable
  refusal (`PageContract`); a row is terminal exactly when its newest event says so
  (`OutcomeJournaled`); the store implements the contract (`ImplementsContract`),
  so that generations succeed each other and outcomes are final.
* `node`: no reader sees a state that is not durable (`SnapshotDurable`), two
  generations never run together in one run of the node, and a process that
  outlived an earlier run, which may run beside a newer generation, belongs to an
  execution that is `Interrupted` (`RunnersDisjoint`), a renewal reaches only its
  own generation (`RenewalFenced`), shutdown reaches every execution and leaves
  nothing running (`ShutdownReachesAll`, `StoppedIsQuiet`), and every step of the
  node is one of the store (`ImplementsStore`).
* `lease`, `wait`: no granted lease is cut short (`NoEarlyExpiry`), a lease
  that expires before `run_execution` reads the flag interrupts
  (`ExpiryInterrupts`; after that the outcome is decided and stays), every
  accepted execution gets its outcome (`AcceptedEnds`), and `wait` returns
  (`ShutdownEnds`). `ExpiryInterrupts` and `AcceptedEnds` except an execution
  whose task has panicked, as the run `runner_error` shows that it may; `lease`
  reaches it, with renewals, one cancel, set-ups and readers that fail, and
  crashes. They are checked with a store that works: an outcome that cannot be
  written is not in the row before the next start. `wait` has failing writes and no
  failing readers: after one, `wait` need not return.
* `storage`: the quota of blobs holds under concurrent uploads (`QuotaHeld`); what is
  reported as present is there (`IndexedReadable`); a pinned file is never collected
  (`PinnedKept`); a running execution keeps its workspace (`ActiveKept`); rows of
  workspaces are whole, those that `resolve` accepts have their trees, and they stay
  within their quota (`WorkspacesSound`); artifacts and downloads keep their bytes
  (`BytesKept`). Three of these have exceptions, which the run reaches and
  without which they fail. A verification that finds a file corrupt renames and
  unindexes it without the write lock, and so may take away the file of a new
  upload of the digest: `displaced` records when it does, `IndexedReadable`
  excepts it until the next upload or start, and `PinnedKept` excepts what a
  verification takes away. A removal of a workspace that fails half-way leaves a
  row without a whole tree (`torn`): `resolve` refuses it, but `mark_active` looks
  at the tree before its update and may take the row afterwards, which `ActiveKept`
  excepts. Without failing removals there is no exception (`DirectoryKeptHolds`),
  and without damaged files none for the index (`StoreKeptHolds`).
* `runner`: no target runs outside what was required (`RequiredEnforced`); what was
  applied is reported as it was, and success is the target's own (`HonestResult`);
  the group is gone and the totals are complete when `run` returns (`ReturnIsEnd`);
  and it returns unless a process that no signal reaches holds the pipes
  (`RunReturns`).
* `services`: streams without gap or duplicate whose client learns the end
  (`NoGapNoDuplicate`, `FollowerInformed`); telemetry that is recent, accepted by
  clients and back after failures (`ServedSound`, `Recovers`); an offline
  collection beside which nothing is admitted, although handlers may outlive the
  server and its lock, and at most one late execution (`NothingAdmittedBesideGc`,
  `OneLateExecution`); exact
  captures, framings, manifests and derived manifests (`HeadAndTail`, `FramingExact`,
  `Materializes`, `DerivedAsSubmitted`); tables of routes, bodies and resources that
  agree with each other and with the client, and an authorizer that has been asked
  about all that a handler acts on, but for the blobs of a manifest (`TablesAgree`);
  requests that are not found invalid later, if their specification fits the
  helper's bound, and whose targets see the environment they should (`CopiesAgree`),
  that are never run with less than they require (`NeverWeaker`) and, retried while
  the node does not drain and their workspace has not expired, join their own
  execution and no other (`JoinsItsOwn`); answers that contain only the caller's own
  executions, and uploads that land (`AnswersTrue`). There is an exception: a
  `cancel` or `renew` that is overtaken by a later generation under the very lease
  it names is answered from that one's record, which is the race of `stale_cancel`.

A property that is a conjunction (`WorkspacesSound`, `BytesKept`, `HonestResult`,
`ReturnIsEnd`, `ServedSound`, `FramingExact`, `TablesAgree`, `CopiesAgree`,
`AnswersTrue`) names its parts, each with a comment of its own. `TypeOK`,
`NodeTypeOK`, `DeploymentTypeOK`, `OneLiveGeneration`, `TerminalIsFinal`,
`AppendOnly`, `LeaseExtension`, `ReadIsDurable`, `ServedAccepted`,
`QuietAfterShutdown` and `FailureTold` have theorems; no run repeats them but as
part of another property.

Runs that show a statement of the documentation to fail:

| run | statement | what happens |
| --- | --- | --- |
| `stale_cancel` | "A stale controller cannot cancel a newer generation." (`plans/001-terminology-and-domain-model.md:235`) | `control` checks the generation, then takes the record by identity; needs a lease id used for both generations |
| `runner_error` | runner errors map to a terminal state (`architecture/server-node.md:526`) | an error while another reader holds a sender ends in a `select!` with no enabled arm |
| `pin_forever` | "a crash cannot pin a blob forever" (`architecture/data-plane.md:637`) | a crash between the row and the references in `mark_terminal` or `recover_retention` leaves references without an expiry that no start looks at again |
| `handshake` | "process-tree cleanup completes before the execution owner releases its lifetime permit" (`eggwork-runner/src/process_tree.rs:14`) | the helper has started the target but not reported it when it is killed alone |
| `undrain` | "Inspect the receipt, then `eggworkd undrain`." (`docs/deployment.md:122`) | a daemon started under the marker keeps its flag when the file goes |

### Further differences between code and documents

Met while modelling; no run of their own.

* `publish` refuses a terminal base only, so that `Accepted` or `Running` may
  follow `Cancelling`, where `lib.rs:2654` says that "the transition is monotonic".
* A lagging client may be answered 410 when the byte bound trims its place, where
  `architecture/server-node.md:645` says that it "resumes cleanly".
* Only the last renewal id is remembered (`store.rs:383`), where
  `architecture/storage-journal.md:757` has "never double-extends".
* `mark_active` says that "a workspace that is no longer active must not be
  resurrected" (`workspace.rs:718`), but its update asks for the key and the state
  and not for the expiry, and so takes a workspace that was given one after its
  look-up, or that expired.
* The client's bound on an event is applied to the buffered bytes, so that an
  event is refused that would fit alone (`RefusedOnlyTight` states the margin).
* A provider that warms up again keeps its last sample, which the client's
  validation refuses (`ServedAccepted` excludes that state).
* An empty argument is accepted by `execute` and refused by the runner; an
  environment that repeats a baseline name, or leaves too few free places for
  the baseline, is accepted by `execute` and by a direct launch and refused by
  the helper (`AcceptedIsValid` names both). A specification as large as a
  request may be does not fit the helper's bound on the launch specification.
* `store_manifest` and `drop_manifest` write the row and the references of a
  manifest one after the other: a crash or each other's steps can leave a row
  whose blobs nothing retains. Nothing more is promised than that `derive` then
  reports the missing blob.
* If eggserve drops the future of a handler between `reserve` and the spawn of
  `run_execution`, the row stays `Accepted` until the next start. Whether it does
  is outside this repository; `DataPlane` has the step for the workspace
  (`ExecuteDropped`).
* The marker may be in place when setting it reports a failure; that failure does
  not say that the node is left draining.
* An upload holds the write lock of the blob store while it waits for the body of
  its client, without a deadline of its own.
* `run` handles an interrupt but not SIGTERM, which is how a service manager
  stops it; rows of a daemon that died count as active until the next start and
  so block an update without force.

### Bounds

`MaxGeneration`, `MaxSequence`, `MaxTime`, `MaxOutput`, `MaxBreaks`, `MaxStarts`,
`MaxKeys`, `MaxTotal`, `MaxRows`, `Submissions`, `MaxLag` and `MaxDrift` bound
counters and inputs. Two generations suffice for every question about
succession, since the store only looks at the latest one. The journal bounds are
small enough that trimming by count, by bytes and by both happens with at most
five events. `MaxSequence` is high enough in the node runs never to block a
publication. The clock stops at `MaxTime`; `InHorizon` refuses leases whose
deadline lies beyond it, so that every granted lease can expire.

In `storage` the quota is one below the number of digests, a collection takes at
most two candidates, so that a pass can fail with one of them removed, retention and reader leases end within the clock, and two
processes are enough for every pair of operations to overlap; the theorems about
`BlobStore` are for any number. In `runner` the channel holds one chunk and the
capture none, so that every chunk crosses the limit. The capture part has a limit
of five and pieces of up to four bytes; the manifest part a tree of depth two
with names that collide without case; the framing part bodies of up to
four events in chunks of up to five bytes with a bound of eight, so that two whole
events are buffered at once; the admission part every value at and beyond
each bound in one field, and that together with isolation, limits or a workspace.
`Operations`, `Exits`, `Disturbances`, `Faults`, `Handlers` and `Parts` select
what a configuration lets happen.

### Fairness

Liveness assumes that the scheduler runs every task and handler that can run,
that the clock advances, that a runner's set-up ends and that a runner whose
token is cancelled returns, which `RunReturns` checks up to a descendant that
leaves the process group, and that the telemetry owner, which `shutdown` aborts,
stops. A process nobody cancels may run for ever: `AcceptedEnds` then rests on
the lease. No request, shutdown, crash or failure is assumed to happen.

In `Runner` every step of `run`, its readers and the helper is fair and the
deadline comes; the processes of the target owe nothing. In `EventStream` the
execution ends and the client keeps reading and reconnecting. In `Telemetry` the
task runs, requests are answered or time out, and time passes. `CHECK_DEADLOCK` is
off where everything may be done: a client that has its answer, a run that has
returned, data at the end of the clock.

## Proofs

All proofs are for arbitrary constants that satisfy the named assumption of the
module (`StoreAssumption`, `NodeAssumption`, `BlobAssumption`,
`DataPlaneAssumption`, `RunnerAssumption`, `RequestsAssumption`,
`NodeClientAssumption`, `AdmissionAssumption`, `StreamAssumption`,
`CaptureAssumption`, `TelemetryAssumption`, `StartsAssumption`): bounds are
numbers, a state event fits the byte bound, one event is retained, `None` is no
other value. TLC evaluates them in the runs.

* **Store** (`ExecutionStoreProofs`: `TypeCorrect`, `GenerationsFenced`,
  `JournalCorrect`, `PagesHonest`, `OutcomeCorrect`, `TerminalFinal`,
  `JournalAppendOnly`, `LeaseMonotone`, `StoreImplementsContract`). `RowSteps`
  reduces every step to what it does to one row: nothing, a creation, an append,
  or a lease update. `JournalIntact` is not inductive, since trimming could keep
  a gap if the byte counts were arbitrary: `JournalInv` says that the events from
  any byte on are the newest ones without a gap, so that what `Kept` leaves
  is a suffix with the newest event. The refinement maps a row to "None", "Live"
  or its outcome.
* **Node** (`ExecutionNodeProofs`, over the lemmas on single actions in
  `ExecutionNodeSteps`: `NodeInvariant` and from it `NodeTypes`,
  `SnapshotsDurable`, `RunnersApart`, `RenewalsFenced`, `ShutdownReaches`,
  `StopIsQuiet`, `NodeImplementsStore`, `NodeKeepsStore`,
  `NodeImplementsContract`, `NodeGenerationsFenced`). `NodeInv` says
  besides types: the map holds the newest generation of an identity or none
  (`LatestInv`, `MapInv`); a snapshot is the durable state or one publication
  behind it (`SnapshotInv`); an execution whose outcome is not published has a
  live row, is mapped and is not marked finished, and a runner is only called
  inside the loop (`TaskInv`); a request holds a record at least as new as the
  generation it names, and one that is about to install a renewal holds that
  generation (`CtlInv`); and after shutdown has gone through the map nothing is
  admitted and everything is cancelled (`ShutdownInv`). `RunnersDisjoint` needs
  the succession of generations in the store together with `TaskInv`;
  `StoppedIsQuiet` needs that an execution missing from the map is over. Most
  actions are shown to be `Quiet` (they leave rows, map and records in use
  alone), the others are proved one by one. Since every step of the node is one
  of the store, what is proved of the store holds of the node, the contract
  included.
* **Leases** (`ExecutionNodeProofs`: `ExpiryIsDue`). `LeaseInv` bounds the durable
  deadline by the one in the record, or by the one a granted renewal is about to
  install; the monitor compares with the record under the lock it installs
  renewals under.
* **Blob store** (`BlobStoreProofs`: `QuotaIsHeld`, `IndexedIsReadable`,
  `PinnedIsKept`). `BlobInv` adds to the properties who holds the write lock at
  which step (`LockInv`), that the admitted upload still fits (`QuotaInv`), that
  the file of an upload about to insert its row is there (`CommitInv`), and that
  a running pass only has unpinned blobs (`RefInv`).
* **Data plane** (`DataPlaneProofs`: `ActiveKeptHolds`, `WorkspacesSoundHolds`,
  `DirectoryKeptHolds`, `BytesKeptHolds`, `StoreKeptHolds`). `PlaneInv` is `BlobInv` and four layers:
  what the blob store is given to work with (`StoreInv`), what the task of each
  process stands for (`TaskInv`), that rows have their own trees, that a create
  keeps the room it found as long as it has its lock and that no two executions
  share a workspace (`TableInv`), and that an artifact or a download has the
  reference its expiry promises (`ByteInv`). An operation that calls the blob
  store is a step of the blob store beside a step of its task: `CallStepInv` and
  `StoreStepInv` carry `BlobInv` over both, so that the proofs of the blob store
  are used as they are.
* **Runner** (`RunnerProofs`: `RequiredEnforcedHolds`, `HonestResultHolds`,
  `ReturnIsEndHolds`). `RunnerInv` says what was prepared and when it was given up
  (`SetupInv`), which trees exist and whether the helper lives (`TreeInv`), that a
  helper about to start the target enforces what is required and that the tree
  `run` waits for has a target with all that is reported as applied
  (`EnforcedInv`), what a leader that ended with zero stands for (`StatusInv`),
  that a group is gone once it was signalled without error (`GroupInv`), and that
  what was written is in the pipe or was read (`OutputInv`).
* **Requests and client** (`ServiceProofs`: `RequestTables`, `TablesAgreeHolds`,
  `AnswersTrueHolds`). The tables are compared path by path, and what a handler acts on with
  what it asks about (`HandlersAsk`); `ClientInv` adds that a request under way is
  the one the call stands for at its turn (`TurnInv`), that the question of
  `dispatch` was asked (`WayInv`), that rows and artifacts can be told apart (`RowsInv`), that a
  control between its checks and its answer has passed them for a row that stays
  (`RecordInv`), and that an answer is of the route that was meant and true
  (`ReplyInv`).
* **Event stream** (`ExecutionStoreProofs`: `NoGapNoDuplicateHolds`,
  `ReadIsDurableHolds`). `FollowInv` says that nothing is broadcast that is not
  committed (`SourceInv`), that the events on the wire follow on the last one read
  (`Contiguous`), and that the place in the channel is no later than the end of the
  replay (`Covered`), which is what subscribing before loading is for.
  `Committed` adds that what is read, written or left to replay is in the table.
* **Admission** (`RunnerProofs`: `NeverWeakerHolds`). `AdmissionInv` follows what a
  request requires from `execute` to the target.
* **Output capture** (`CaptureCorrect`), **telemetry** (`ReadyRecent`,
  `ServedIsAccepted`, `ServedIsSound`, `QuietWhenStopped`) and **deployment**
  (`DeploymentTypes`, `GcAdmitsNothing`, `LateIsOne`, `FailureIsTold`), in
  `ServiceProofs`. `GcAdmitsNothing` rests on `shutdown`, which sets the flag before it
  waits for the lock of the map: `HandlersInv` says that a handler that holds it is one
  of a server that is up. `HeadAndTail` is proved with both parts as runs of consecutive
  bytes (`KeptInv`). `OneLateExecution` rests on the lock of the map: `LateInv`
  says that a handler that has passed the check under the lock is the only one,
  and that none passes it after the marker.

Only model-checked:

* all liveness, which is out of the prover's reach;
* `TrimIsLoop`: the loop of `trim_events` is a recursive definition;
* `Materializes` and `DerivedAsSubmitted`: manifests are sorted and applied entry
  by entry, and what that computes needs induction over the entries;
* `FramingExact` and `CopiesAgree`: bodies are concatenated and environments
  filtered, which needs induction over their length;
* `JoinsItsOwn`: the canonical form sorts the environment.

## Not modelled

* TLS, certificates and sockets; proxies and dialers of the client; the HTTP
  server eggserve, of which only the body policy is used.
* Landlock, cgroups, systemd and the kernel's processes, beyond their effect.
* The eggup transaction and the service manager, beyond their outcomes.
* The schema migration of the store, the metrics counters, `doctor`, the
  listings and status reports, which read or count only.
* Formats and wordings of requests, answers and logs.
* Release scripts, continuous integration, tests.
