# A verification of kacho-compute

kacho-compute is the control plane for virtual machines, disks, images and
snapshots. This directory holds TLA+ models of its core, the TLC runs that
check them, and TLAPS proofs of the properties that matter most. Everything is
translated from the Go sources and the SQL migrations; `PROJECT.json` maps each
definition to the lines it stands for.

## 1. The system

| Component | State | Operations | Hard behaviour |
|---|---|---|---|
| **Instances** (`service/instance.go`, `repo/instance_repo.go`) | table `instances`: status, labels, sizing columns, metadata | Create, Update, UpdateMetadata, Start, Stop, Restart, SimulateMaintenanceEvent, Delete | every RPC is a worker of several transactions and peer calls; workers interleave and die |
| **Attachments** (`service/instance_nic.go`, `clients/storage_client.go`, `clients/vpc_nic_client.go`) | none here: kacho-storage owns volumes, kacho-vpc owns NICs | Attach/DetachDisk, Attach/DetachNetworkInterface, the release loops of Delete | no transaction spans a row and a peer; replies get lost |
| **Operations** (`service/runop.go`, corelib) | table `operations` | runOp, worker, terminal write | a lost worker leaves `done=false` |
| **LRO recovery** (`operationresolver/resolver.go`, `cmd/compute/recovery.go`) | none | periodic sweep, Resolve | decides from the presence of the row alone |
| **Disks, images, snapshots** (`service/{disk,image,snapshot}.go`, their repos) | three tables; a copy stores its source's id without a foreign key | Create, Update, Relocate, Delete | what a read has checked must hold at the later write |
| **Outboxes** (`repo/outbox.go`, `fgaintent`) | `compute_outbox`, `compute_fga_register_outbox` | emitCompute, emitFGARegisterIntent inside the writer's transaction | numbers and times are taken before COMMIT |
| **Register-drainer, backstop** (`clients/iam_register_applier.go`, `cmd/compute/backstop.go`, corelib) | sent_at, attempt_count | Apply, retry, poison, redrive | at-least-once, several replicas, any order |
| **Watch streams** (`handler/internal_watch_handler.go`) | a cursor per stream, a slot counter | Watch, streamSince | reconnects; commits out of number order |
| **List pagination** (`repo/paging.go`, the repos' List) | the client's page token | List | rows and allow-lists change between pages |
| **List filter** (`authzfilter`, `handler/list_filter.go`) | a TTL cache of decisions | ListAllowedIDs | stale and overtaking answers, eviction, fail-open |
| **Project and zone checks** (`clients/iam_client.go`, `clients/geo_client.go`, `service/project_check.go`) | a TTL cache of projects that exist | Exists, GetZone | what was checked is gone at the write; stale cache; peers that never answer |
| **Disk type catalog** (`service/catalog.go`, `repo/catalog_repo.go`) | table `disk_types`, which nothing refers to by a foreign key | Create, Update, Delete, the read in Disk.Create | a type is deleted under a Create |
| **Process lifecycle** (`cmd/compute/main.go`, `observability.go`, `recovery.go`, `fgaboot/gate.go`, `observability/health`) | boot gate, readiness flag, ctx, sync.Once, two gRPC servers, a diagnostic listener | boot, supervision of background loops, graceful shutdown | any task may trigger the shutdown while others fail; crashes leave work to the next process |
| RPC authorization, conversions | none | | see section 8 |

How they interact: a handler validates a request and calls a service; the
service stores an operation row and starts a worker; the worker reads and
writes its table, each write in one transaction with its event and intent, and
calls the peers; the drainer replays intents to kacho-iam, whose grants decide
through the list filter what List shows; watch streams replay events; the
reconciler settles what lost workers leave behind.

What makes each part correct:

- instances: no update is lost; a deleted instance stays deleted; sizing
  changes only when stopped; a Delete that reports success has deleted; a row
  is not dropped while something listed is still attached, and nothing is
  released that no request named; operations end;
- disks, images, snapshots: disks never shrink; a copy fits its source and
  shares its project;
- outboxes: no change without its announcement, nothing announced that was
  rolled back; subscribers see an object's history in order; kacho-iam ends up
  with the state the tables have;
- lists: complete, without duplicates, never showing what was revoked long ago
  nor hiding what was granted long ago;
- checks: a verdict was true while it was being made, a deleted project passes
  for the lifetime of a cache entry and one call at most, and no peer can hold an
  operation;
- the process: a shutdown is announced before it refuses anything, completes,
  and cuts nothing off; the next process finishes what this one left.

## 2. Modules

| Module | Models | Composes with |
|---|---|---|
| `InstanceService` | instances, attachments, operations, recovery | writes the last event and intent per instance, whose delivery `Outbox` models |
| `BlockStorage` | disks, images, snapshots, column-scoped updates, unique names | likewise |
| `Outbox` | writer transactions, both outboxes, drainer, backstop, kacho-iam's mirror, watch streams | takes any mutation of the two modules above as Insert, Update (of labels), Touch or Delete |
| `Listing` | keyset pagination | takes any decision of `ListFilter` for each page |
| `ListFilter` | the allow-list, its cache and failures | |
| `Placement` | project, zone and type checks of the workers, with cache, retries and deadlines; the catalog | what the check steps of `InstanceService` and `BlockStorage` may answer |
| `Server` | boot, supervised tasks, shutdown, crash, restart; RPCs, workers and intents in outline | when the workers, the reconciler, the drainer and the streams of the other modules run |
| `InstanceTable` | no code: what `InstanceService` promises | `InstanceService` implements it |
| `InstanceServiceProofs`, `BlockStorageProofs`, `OutboxProofs`, `ListingProofs`, `ListFilterProofs`, `PlacementProofs`, `ServerProofs` | theorems about the module in the name | |
| `InstanceTableProofs` | the refinement | |
| `MC*` | constants and symmetry of the runs | |

### InstanceService

`status`, `cols`, `event`, `intent` are the row and what was last announced of
it; `holder` and `boot` are the peers' tables; `req`, `pc`, `snap`, `todo`,
`done` are a request, its worker's control point, its in-memory row, the
attachments it still has to release, and the operation row. Each database
transaction and each peer call is one action of a worker (`Insert`,
`UpdateGet`, `UpdateWrite`, `UpdateReread`, `EmitReread`, `MergeMetadata`,
`SetStatusCAS`, `GateForAttach`, `PeerAttach`, `Reload`, `ListForDetachDisk`,
`GetForDetachNic`, `ListForDetachNic`, `PeerDetach`, `MarkDeleting`,
`ListNics`, `ListVolumes`, `ReleaseNext`, `DeleteRow`). `StepFails` is the
error return of any step, `LoseWorker` a crash, a full backlog or an exhausted
terminal write, `Resolve` the reconciler. A peer call may take effect although
its caller sees an error. `want` and `raced` are history variables: the last
value a committed request gave each column, and the attachments that landed on
an instance that was already being deleted.

`cols.labels` stands for the columns that may change in any status,
`cols.resources_spec` for the sizing columns. In the initial states instances
may exist in any stable status with anything attached, as after operations
that have all ended. A volume may be a boot volume then (kacho-storage says so),
and none becomes one later: `attachDiskReqFromSpec` leaves `IsBoot` unset, so
every AttachDisk is of an ordinary volume.

### BlockStorage

`row[x].size` is a disk's size, an image's min_disk_size or a snapshot's
disk_size, `storage` the storage_size of the latter two. `ReadSource` and
`Insert` are the two halves of Create, `UpdateGet` and `UpdateWrite` of Update;
`Relocate` and `DeleteRow` are single statements. A request beyond the bounds
never gets to a worker, so requests are drawn from valid ones. The outcome an
operation reports is modelled in `InstanceService` only.

### Outbox

A transaction is `Begin`, `Write` (with the row lock), `EmitEvent`, `Commit` or
`Rollback`. `start` is `transaction_timestamp()`, which the intent stores as
source_version; `seq` is the BIGSERIAL taken at the INSERT. Intents are named
by their transactions. `Deliver`, `Retry`, `Poison` and `RedrivePoisoned` are
the drainer and the backstop; `IAMApply` is kacho-iam's compare-and-set on
source_version. `Open`, `Poll`, `Send`, `Wake`, `Close` are a watch stream.

### Listing and ListFilter

In `Listing` a page is `Resolve` (any decision) and `Select`; `Fail` is an error
after which the client may ask again; a filter that fails is a page that was
never resolved. `Mint` and `Insert` are apart because created_at is taken
before the row is inserted. In `ListFilter` a request is `Anonymous`, or `Hit`,
or `Miss`, `ListObjects` and `Receive` or `Fail`, then `Return`. `failOpen` is
a configuration that both values of are explored. kacho-iam cuts an answer at
`MaxResults` ids and does not say so: `GrantsAppear` promises a granted id only
to callers whose list is shorter.

### Placement

A worker goes through the checks of its operation in the order of the code
(`Checks`): `CacheHit` or `Ask`, `PeerAnswers` or `PeerFails` or `Deadline`,
`ReceiveFound` or `ReceiveMissing`; then `GetType`; then `Write`. Projects,
zones and types change at any time. An entry of the cache holds what is left of
its TTL, so time needs no bound. Of the catalog the module has which ids exist:
Create and Delete of a type change that, Update does not. `was` is a history variable: the truth about
what a worker is checking, at every moment since the check began.

### Server

`phase` is the line runServe has come to, `task[t]` where each goroutine of its
errgroup is, `once` and `stage` the progress of triggerShutdown, which one task
runs while the others wait in `sync.Once`. A gRPC server that is `draining`
refuses new calls and is `stopped` when those under way are over. Calls,
workers, operation rows and intents are there in outline: what matters is in
which process they began, that operation rows and intents survive it, and which
operations the resolver knows: it skips those that attach and detach NICs
(`Resolvable`). `Settle` is what one sweep settles; an operation whose resource
cannot be read then waits for a later one.
Faults (signals, dying loops, failing listeners, failing boots, crashes) may
come at any moment.

### InstanceTable

The abstract specification: a table of rows, each changed in one step by the
whole effect of one request on the row as it then is, with its event and its
intent; requests are accepted and answered once, and a Delete is answered OK
only when the row is gone. There are no workers, copies of rows, peers, crashes
or sweeps. The refinement mapping in `InstanceService` (`Table`) takes status
and columns for the row and leaves the rest as it is; every read, peer call and
lost worker is a stutter. The exception the code makes is an explicit step of
the abstraction: `Republish`, an Update without columns that announces a row
it has read (section 5).

## 3. Runs

The passing runs fire every action. All are exhaustive for their bounds.

| Run | Bounds | What it shows |
|---|---|---|
| `instances` | 1 instance, 1 volume, 1 NIC, 2 operations of any kind, 2 values | the eight safety properties of `InstanceService`, of which `AttachmentsStay` says that nothing is released but what a Detach named; `ImplementsTable`; `OrphansSettle`: operations end, though workers are lost, all but those on NICs |
| `storage` | 2 disks, 1 image, 1 snapshot, 2 projects, 2 names, labels and zones, sizes 0..2, 2 operations | the five properties of `BlockStorage` |
| `delivery` | 1 object, 2 transactions, 2 labels, 2 attempts, 1 watcher, batches of 1 | kacho-iam's mirror holds committed states, and the right one after sequential mutations; subscribers see commits in order; intents and events get delivered |
| `paging` | 3 rows, 3 times, pages of 1 | `ListComplete`, `ShownOnce` |
| `visibility` | 2 callers, 2 ids, answers cut at 1, 2 requests at a time (any number in sequence), cache of 1, lifetime and deadline 1, both failure modes | `StalenessBounded`, `GrantsAppear`, `CacheBounded` |
| `placement` | 2 projects (one comes and goes), 1 zone, 1 type, 2 workers, cache of 1, TTL 2, deadline 1, 2 attempts | verdicts are true (`VerdictsAreTrue`), staleness is bounded (`StaleProjectBounded`), operations end (`OperationEnds`) |
| `server` | 3 configurations, 1 RPC, 1 stream, 1 loop beside the reconciler, worker deadline 1, grace 2, 2 faults | `CleanExit`, `NotReadyFirst`, `NoEarlySettlement`; `ShutdownCompletes`, `CreatesAreRegistered`; `SettledAcrossRestarts`: what a process leaves open is settled later, all but lost operations on NICs |
| `attach_race`, `nic_orphans`, `stale_mirror`, `watch_gap` | 1 to 3 operations or transactions | counterexamples, section 5 |

Why the bounds are enough. The races in this code are between two actors that
touch one row, one cache entry or one sequence: two operations, requests or
overlapping transactions exhibit them, and what they race over is a single
object. `paging` has three rows so that a page has rows before, on and
after it, and times so that rows share a created_at; `visibility` has two
callers so that one evicts the other, and time for an entry to be written late,
outlive its answer and expire. `placement` runs the longest chain of checks
(CreateDisk) and the shortest that starts with a project (CreateSnapshot): the
chains of the other operations are made of the same steps, and the two projects
contend for one entry of the cache. In `server` two faults are enough for one
to interrupt the recovery from another (a signal while a dying loop shuts the
process down, a crash after a restart); the three configurations are the
default with REQUIRE_IAM, a gate that never opens, and no diagnostic listener;
further loops would repeat what the drainer's does. Restarts are not bounded.
Every safety property of a passing run is also proved without bounds (section 6).
`Ops`, `Txs`, `Calls`, `MaxTime`, `MaxFaults`, `MaxAttempts` and the identifier
sets are the only bounds.

Symmetry is used only in runs without liveness and over sets whose members are
compared only for equality.

Deadlock is checked everywhere but in `paging`, where clients that have read
their last page stop. Where all operations, transactions or streams are over,
an explicit `Quiescent` step keeps the others from it.

## 4. Fairness

- `InstanceService`: weak fairness of every worker's step and of `Resolve`. The
  scheduler runs goroutines, every database and peer call has a deadline, and
  the reconciler sweeps on a timer. Losing a worker is never forced.
- `Outbox`: strong fairness of `Deliver`, because kacho-iam may fail any number
  of calls but the drainer retries and IAM answers now and then; weak fairness
  of `RedrivePoisoned`, which a ticker calls, and of the loop of an open
  stream, which a 30 s timer wakes even if no notification comes. Nothing is
  assumed of writers and subscribers.
- `Placement`: weak fairness of every worker's own steps, and of time. Nothing
  is assumed of kacho-iam and kacho-geo: `OperationEnds` is about peers that
  never answer, and rests on the deadline of each attempt.
- `Server`: weak fairness of boot and shutdown steps, of every goroutine, of
  handlers and workers (all have deadlines), of the sweeps and the drainer
  while they run (the database and kacho-iam do not fail all their calls for
  ever), of time, and of the orchestrator's restart. No fault is ever
  forced. `GracefulStop` waits for Watch streams, which do not end with the
  process's ctx, so the three liveness properties are conditional on
  `StreamsEnd`: no subscriber holds a stream for ever. That is an assumption
  about the subscribers, not something the code enforces: `GracefulStop` has no
  timeout, and a process with a faithful subscriber shuts down only when it is
  killed, which the model has as `Crash`.
- `Listing` and `ListFilter` have safety properties only.

## 5. What the code does against its own comments

Each is a run that must find a violation; `PROJECT.json` quotes the comments.

1. **attach_race**: `GateForAttach` is a plain SELECT and the peer call comes
   later. A Delete can run entirely in between, and a volume or NIC ends up
   attached to a deleted instance. `NoLeakedAttachment` is what is left to the
   saga: nothing but such a late attachment survives the row.
2. **nic_orphans**: the resolver's switch does not know the metadata of the two
   NIC operations, so a lost one stays `done=false` for ever. `OrphansSettle` and
   `SettledAcrossRestarts` are what is true of the others.
3. **stale_mirror**: source_version is the time of BEGIN. Of two overlapping
   label updates the one that began first may commit last, and kacho-iam keeps
   the other's labels. `SequentialMirror` shows that without overlap the
   protocol is right.
4. **watch_gap**: sequence_no is taken before COMMIT, so the cursor can pass an
   event that is not visible yet. `WatchFollowsCommits` shows what remains
   true: what arrives is in order, object by object; and
   `OnlyOvertakenAreMissed` (`OutboxProofs`) how far the promise holds: what is
   missed overlapped with a transaction whose event has been received.

Two more are visible in the models without a run of their own. An instance
Update whose mask writes no column re-reads the row without a lock and
publishes it, perhaps after a newer event (`event[i].noop` marks these, and
`PublishedRow` sets them aside). ImageService.Update can lower min_disk_size
below the image's storage_size, so that a disk smaller than the image's source
can be made from it (`SourcesFit` therefore compares disks with snapshots only).

Three texts describe something else than the code that is modelled:

- `handler/instance_handler.go:416-417` says that is_boot is taken from the
  AttachedDiskSpec; `attachDiskReqFromSpec` below it does not read one, so
  AttachDisk never attaches a boot volume. Whether the message has the field is
  decided in kacho-proto, which is not in this repository.
- `docs/architecture/03-instance-lifecycle.md:118` and
  `07-known-divergences.md:117` say that an operation stays `done=false` for ever
  after a crash. The reconciler (`cmd/compute/recovery.go:6-14`) has replaced
  that; it still holds of the operations on NICs.
- `docs/architecture/03-instance-lifecycle.md:180-183` describes a best-effort
  release of NICs that only logs an unavailable kacho-vpc. The saga of Delete
  fails instead, and the row stays (`NoLeakedAttachment`).

## 6. Proofs

Proved with TLAPS for every value of the constants: any number of instances,
disks, rows, callers, workers, transactions, subscribers, processes' loops and
concurrent operations, any page and batch size, any lifetimes, deadlines and
bounds of caches. Every invariant and every action property of the passing runs
is stated by one of these theorems.

| Module | Theorem | States |
|---|---|---|
| `InstanceServiceProofs` | `SagaLeaksNothing` | `NoLeakedAttachment` |
| | `DeleteReportsTruth` | `DeleteOkMeansGone` |
| | `UpdatesSurvive` | `NoLostUpdate` |
| | `RowIsPublished` | `PublishedRow` |
| | `DeletionIsFinal` | `DeletingIsFinal` |
| | `SizingGuarded` | `SizingOnlyWhenStopped` |
| | `NothingElseIsReleased` | `AttachmentsStay` |
| `InstanceTableProofs` | `ServiceImplementsTable` | `ImplementsTable` |
| `BlockStorageProofs` | `CopiesFit` | `SourcesFit` |
| | `UpdatesSurvive` | `NoLostUpdate` |
| | `RowIsPublished` | `PublishedRow` |
| | `DisksOnlyGrow` | `DiskNeverShrinks` |
| `OutboxProofs` | `MirrorHoldsCommitted` | `MirrorIsCommitted` |
| | `SequentialMirrorsAreRight` | `SequentialMirror` |
| | `StreamsFollowCommits` | `WatchFollowsCommits` |
| | `MissesAreOverlaps` | `OnlyOvertakenAreMissed`, what is left of finding 4 |
| `ListingProofs` | `ListingsAreComplete` | `ListComplete` |
| | `NothingIsShownTwice` | `ShownOnce` |
| `ListFilterProofs` | `StalenessIsBounded` | `StalenessBounded` |
| | `GrantsDoAppear` | `GrantsAppear` |
| | `CacheStaysHonest` | `CacheHonest`, the same of a cache entry |
| | `CacheStaysBounded` | `CacheBounded` |
| `PlacementProofs` | `StalenessIsBounded` | `StaleProjectBounded` |
| | `VerdictsWereTrue` | `VerdictsAreTrue` |
| | `CacheStaysBounded` | `ExistsCacheBounded` |
| `ServerProofs` | `NothingIsSettledEarly` | `NoEarlySettlement` |
| | `ExitsAreClean` | `CleanExit` |
| | `NotReadyComesFirst` | `NotReadyFirst` |

Each module but `InstanceTableProofs` also proves `TypeCorrect`, the type
invariant.

### Assumptions

The named assumptions on the constants, which TLC evaluates in every run:
placeholders (`None`, `NoMutation`, `NoSubject`, ...) differ from what they stand
in for, kinds of ids are disjoint, value sets are not empty, sizes, times and
bounds are natural numbers, and page and batch sizes, bounds of caches and numbers
of attempts are positive, as in the code. Two say more:
`ServerAssumption` has `WorkerTimeout < OrphanGrace` (4 and 5 minutes in
cmd/compute/recovery.go) and keeps the names of the drainer's loops apart from those
of the other tasks and of the states of `sync.Once`, which one variable of the
model shares; `PlacementAssumption` has finitely many projects, for the
cardinality of the cache. The rows of `Listing` may be infinitely many: that only
finitely many exist at a time is part of the invariant.

### The inductive invariants

The properties are not inductive. The strengthenings (`IndInv` in the modules of
the first two components, `IInv` in the proof modules of the others; TLC has
checked each on the constants of the component's run) add what makes them so.

- `InstanceService`. `NoLeakedAttachment` needs to know that a Delete beyond its
  mark works on a row no gate lets pass (`MarkedFirst`) and that what the worker
  has listed and not yet released covers all that is attached and has not raced
  (`ListsCover`): NICs while it releases NICs, NICs and volumes afterwards.
  `DeleteOkMeansGone` needs that an id without a row is never mistaken for a
  deleted one: operations name ids that exist or existed (`NamesKnown`), an id
  belongs to one Create (`CreateOwnsId`), and a worker about to report success
  has seen the row gone (`DeleteReached`). `NoLostUpdate` needs that a copy about
  to be written holds the requested values in the masked columns
  (`CopyIsMasked`). `AttachmentsStay` needs that what a Detach is about to release
  is what its request named and no boot volume (`DetachTargets`), which outlasts
  its listing because boot volumes only leave, and that a saga releases only on a
  row that is marked (`MarkedFirst`).
- `InstanceTable`. `ServiceImplementsTable` shows that initial states map to
  initial states and every step to a step or a stutter, from `RefInv`: `IndInv`,
  with an operation that has a worker is not answered yet (`RunningUntilEnd`) and
  what is published without a write is a row that an Update without columns has
  read (`RereadPublishes`). `CopyIsMasked` makes the columns that UpdateWrite
  takes from its old copy the ones the request asked for, so that the step is the
  request's effect on the row as it is now; `PublishedRow` makes the intents that
  some writes do not repeat the ones the abstract step writes; `MarkedFirst` and
  `DeleteReached` make removal start from DELETING and the OK of a Delete follow
  it.
- `BlockStorage`. `SourcesFit` needs the fit of rows that Creates have only in
  memory and of deleted rows (`AllFit`): a disk only grows, a deleted row keeps
  its last value, and images and snapshots never change what they hold.
- `Outbox`. A row lock is held from the write to COMMIT (`LockInv`) and the number
  is taken in between, so the numbers of one object's events are in commit order
  (`OrderInv`). A stream's batch lies past its cursor and what it has received up
  to it, in the order of the numbers (`StreamInv`); the two give
  `WatchFollowsCommits`. For `SequentialMirror`, the row is as the last committed
  intent says (`RowInv`), the mirror is at least as new as every intent that is
  sent (`SentInv`) and is itself some committed intent (`MirrorIsCommitted`); if
  the intents came one after the other, the newest by BEGIN is the last by COMMIT
  (`SequentialOrder`, from the times in `CommitInv`), so the two are one, whatever
  was repeated or overtaken. `OnlyOvertakenAreMissed` needs `AheadInv`: what lies
  past the cursor outside the batch is newer than the batch or was committed
  later.
- `Listing`. A token divides the rows: what has been shown is not after it
  (`ShownInv`), and what was there and allowed all the time and is not after it
  has been shown (`PassedInv`). The lemmas on a page (`FirstAndLast`,
  `FirstIsPrefix`, `FirstIsFull`, `KeyIsLast`, `PageOf`) say that the first
  `PageSize` rows are those up to a last one, whose key becomes the token, or all
  there are; they rest on the total order of (created_at, id).
- `ListFilter`. Two windows add up. An answer may be wrong only about what was
  changed after its request had looked into the cache (`AnswerInv`), an entry
  only about what was changed `CacheTTL + Timeout` before it expires at the
  earliest (`CacheInv`), and a decision inherits from one of the two
  (`DecisionInv`). `CacheBounded` has an argument of its own about the size of
  the cache before and after `putCache`.
- `Placement`. The same with what is left of an entry: a project that an answer
  under way calls live was deleted no longer ago than the call has taken
  (`AnswerInv`), and the time since the deletion and the rest of an entry's TTL
  stay within `Horizon` (`CacheInv`). For `VerdictsAreTrue`, the history of a
  check has the truth of now and of every answer under way (`WasInv`).
- `Server`. `CleanExit` and `NotReadyFirst` come from how far the one shutdown has
  got (`OnceInv`), what a stopped server no longer has (`StoppedInv`), what the
  waiter has waited for (`WaiterInv`) and the order of the listeners (`DiagInv`);
  `NoEarlySettlement` from a worker's age (`AgeInv`) and
  `WorkerTimeout < OrphanGrace`.

The proof that a step preserves an invariant has one case per action. Frame
lemmas (what a step of one actor leaves alone) come first: in `Placement`
`WorkerKeepsIInv` reduces every step to the worker that takes it, in `Outbox`
`CommitsStay` says what no step takes back.

### Only model-checked

- Liveness: `OrphansSettle`, `IntentsDelivered`, `WatchDelivers`,
  `OperationEnds`, `ShutdownCompletes`, `SettledAcrossRestarts`,
  `CreatesAreRegistered`. They rest on fairness, hence on ENABLED, for which the
  proof system has no rules here, and on bounds that decrease from step to step,
  which would need induction over data.
- The findings of section 5: a counterexample is one behaviour, and TLC gives it.

No module declares a RECURSIVE operator, so no module is kept from the provers.

## 7. Plan

1. `Server`: what survives a restart (`row`, `intent`) as an abstract table of
   operations that are opened and settled once, implemented by `Server`.
2. `Outbox`: an abstract delivery queue, at least once until sent, implemented by
   intents, drainer and backstop; the mirror as an implementation of a
   last-writer-wins register.
3. `ListFilter` and `Placement` prove the same two-window argument; an abstract
   cache with a lifetime and a deadline that both implement.
4. The hazards that have no property yet (`PROJECT.json`).

## 8. What is not modelled

- Peer calls that take effect after their caller has timed out and gone on:
  they would widen `attach_race`.
- Device names, slot indexes, zones of volumes, auto_delete; a detach by device
  or index is a choice among what is attached (`Place`).
- Cancel of operations: the handler calls CancelOwned, and what the worker's
  terminal write does to a cancelled operation is decided in corelib, which is
  not in this repository.
- In `InstanceService` the reconciler acts on lost workers only; that the grace
  period (5 min) and the worker's deadline (4 min) make it so is
  `NoEarlySettlement` of `Server`. There a worker's age counts from the creation
  of its operation row: that the dispatcher starts it, and its deadline, without
  delay is assumed of corelib.
- The size of the reconciler's batches (100): that skipped operations do not
  crowd out the others is assumed of corelib's claim.
- Instance names: a collision is one of the failures of `StepFails`.
- Labels in unregister intents, which kacho-iam ignores.
- kacho-iam beyond its contract: it is assumed to remember the version of a
  removed object, and BEGIN times to be distinct.
- Notifications (LISTEN/NOTIFY): a waiting stream may wake at any time, as the
  timer makes it. An event lost in a breaking stream equals a break before it
  was sent.
- `ListFilter` and `Listing` have one kind, project and action; the filter on
  names narrows what is there and what is shown alike. Time that passes between
  the arrival of an answer and its storage is part of the deadline.
- Clients for development (noop clients, a switched-off filter).
- Update of a disk type: it replaces description and zone_ids, which nothing
  that is modelled reads, so two admins that update the same type overwrite each
  other. No foreign key keeps a type that is deleted under a Create from being
  stored with the disk; the schema wants it so
  (`docs/architecture/05-database.md:142`, `381`).
- RPC authorization: the permission map is a table, the check one call to
  kacho-iam through corelib's interceptor, the tenant interceptor a function of
  one request. Nothing of it is state of this process, so there is nothing to
  interleave.
- Parsing and validation of the configuration (a boot step that may fail),
  metrics, the texts of probes, and field-by-field conversions.
- In `Server`: what other dependencies do to `/readyz` (the database, the
  connection to kacho-iam); a second signal; more than one replica, whose
  sweeps and drainers `InstanceService` and `Outbox` cover.
