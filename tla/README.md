# TLA+ models of the traffic AI service

`src/ai-algorithm-service` serves signal plans for areas of a road network with
ONNX policies, and manages the *bundles* the policies come in.  This directory
holds TLA+ models of the parts whose correctness depends on order, failure and
concurrency, TLC configurations that check them on small instances, and TLAPS
proofs of the results that hold for every instance.

    tlc -workers 2 -config lifecycle_serial.cfg MCBundleLifecycle.tla
    tlapm BundleLifecycle_proofs.tla

`PROJECT.json` lists the runs with what each asks, the source lines behind each
definition (`map`), the faulty variants that show each property can fail
(`mutants`), the disagreements between code and documentation the runs exhibit
(`findings`), the hazards, and the theorems.

## 1. Inventory

The service runs as two containers, or as one with role `all`: **ai-ops** owns
bundles and synchronisation, **ai-runtime** answers inference requests.  They
share the database (`db/`), the *local model storage* (a volume with bundle
directories and one `active.json` per network), and an HTTP notification from
ops to runtime that may get lost.  HTTP handlers are synchronous functions, so
they run on a thread pool; auto-sync adds a listener thread and a polling task.

| Component | State it keeps | Operations | Interacts with | What makes it hard | What makes it correct |
|---|---|---|---|---|---|
| Bundle lifecycle (`ops/lifecycle.py`, `db/repositories.py`, `bundles/active.py`) | table `model_bundle`, bundle directories, `active.json` | pull, register-local, activate, rollback | called by the ops API, auto-sync and the snapshot retry; read by ai-runtime | three stores, no lock, exceptions and crashes between them | one active bundle per network, table and pointer agree, pointer leads to files, rollback undoes the last switch (the last two within limits: section 4) |
| Auto-sync (`ops/auto_sync.py`) | `in_progress`, counters, listener thread, poller task | start, stop, handle an object | object storage, lifecycle | listener and poller race, a look-up fails, notifications get lost | each object is pulled once, and is pulled |
| Composer hand-off and snapshot sync (`ops/lifecycle.py`, `ops/composer.py`, `services/sync_service.py`) | sim rows, sim directories, `real_network_snapshot`, `sync_event` | pull a sim bundle, deliver a snapshot, retry parked bundles | controller, composer, lifecycle, ai-runtime | either may come first; composers share a file; one failure of many | a runtime bundle has a lineage, a parked bundle is woken |
| Runtime caches and reload (`runtime/bundle_resolver.py`, `services/model_manager.py`, `preprocessing/intersection_registry.py`, `runtime/api.py`, `runtime/preflight.py`) | resolver cache (TTL), policy cache, config cache | resolve, load, look up, reload, clear | `active.json`, bundle directories, inference | fills race with invalidations; re-pull of the same id | staleness is bounded, policy and config belong together |
| Inference (`services/ai_service.py`) | none of its own | hydrate, readiness, run, audit | all caches, tracker, drift | several look-ups in one request | the answer and its audit row are of one bundle |
| Signal plan, guardrails, starvation (`services/ai_service.py`, `runtime/guardrails.py`, `runtime/starvation.py`) | starvation counters | actions to green times, repair, count | inference threads | integer rounding, order of repairs, shared counters | cycle length and green bounds hold after all repairs |
| Drift (`observability/drift*.py`) | one detector per network, cooldown | observe, reset, alert | inference, reload | a switch without a reload keeps the baseline | not modelled (section 6) |
| Observation history (`preprocessing/observation_history.py`) | a window per cross | push | inference | not cleared by a reload | not modelled (section 6) |
| Real normalization (`ops/real_normalization.py`) | `real_normalization.json`, `network.json` and config files | compile, recompile | snapshot sync, composer | read, then write, with no transaction; compass sectors, missing coordinates, guessed encodings | the files are those of the row; every road is seen from the right side |
| Internal sync API (`services/sync_service.py`, `api/internal_sync.py`) | `area_registry`, `area_artifact`, `area_cross_config`, `real_network_snapshot`, `sync_event`, config files | upsert, activate, recompile | controller | deliveries repeat and overlap, on two kinds of database; files follow the commit | a delivery takes effect once, one artifact is active, files catch up with rows |
| Compose mapping (`ops/composer.py`, `bundle_tooling/`) | none | resolve sim to real, bind approaches to roads, map cycles | composer | several crosses must fit at once | approaches are bound to the right roads, a refusal has a reason |
| Served config and hydration (`preprocessing/intersection_registry.py`, `phase_normalizer.py`, `services/ai_service.py`) | none | merge three sources, fill in a request | inference | sources of different snapshots | a stage keeps the phase the policy was trained with |
| Bundle validation (`bundles/extractor.py`, `ops/sim_bundle.py`) | none | extract, validate | pulls | a gate before any change | nothing invalid is registered |
| Features, tensors, ONNX execution | none | numeric | inference | floating point | out of reach of TLC |
| Object storage client, bundle tooling, start-up, configuration, auth, telemetry | connections | I/O | everything | I/O | not modelled |

## 2. Modules

| Module | What it is |
|---|---|
| `ActivationHistory` | abstract specification: per network the bundle in service and those it may be rolled back to, activate and roll back |
| `BundleLifecycle` | the lifecycle over its three stores; refines `ActivationHistory` |
| `SimPipeline` | sim bundles and snapshots, from object storage to a registered runtime bundle |
| `SyncEvents` | the internal sync API of one area: overlapping handlers, redelivery, file work after the commit |
| `RuntimeServing` | caches, reload and inference requests of one area |
| `RealNetwork` | what a snapshot of the real network compiles to, as operators |
| `ComposeMapping` | how a trained network is laid over a compiled one, as operators; extends `RealNetwork` |
| `ServedConfig` | merge of config sources and hydration of requests, as operators; extends `ComposeMapping` |
| `Commissioning` | the state machine that composes the three: snapshots, compiles, compositions, manual configs, and what requests are then served with |
| `GreenTimes` | the integer arithmetic of green times, as operators |
| `SignalPlan` | from the policy's actions to the plan of one cross: mapping, rescaling, guardrails, balance, and the starvation counters that requests share |
| `BundleLifecycle_proofs`, `SimPipeline_proofs`, `SyncEvents_proofs`, `SyncRows_proofs`, `RuntimeServing_proofs`, `Commissioning_proofs`, `GreenTimes_proofs`, `SignalPlan_proofs` | TLAPS proofs; the last extends the one before it |
| `MC...` | constants for TLC |

What one module takes as given another one works out.  SimPipeline registers a
composed bundle in one step that BundleLifecycle splits; whether a bundle fits a
snapshot is its table `Verdict` and Commissioning's `Composable`.  SimPipeline's `Put`
is the whole transaction of a snapshot delivery and SyncEvents has its steps.
Commissioning reads config files directly and RuntimeServing puts the caches in front
of them.  The hydrated stages of ServedConfig are what SignalPlan's layouts stand for.

Operators whose name begins with `Bug` are faulty variants of the definition
that follows them.  No specification uses them: they show that a property fails
when the code is wrong.

### BundleLifecycle

`rows` is `model_bundle` (status, is_active, activated_at), `onDisk` the bundle
directories that ai-runtime looks in (`networks/<net>/bundles/<id>`), `elsewhere` the
bundles whose row has some other `local_path`, `pointer` the `active.json` files,
`lastEvent` the last switch in `bundle_event`, `req` what each thread is in the middle of.

`RegisterLocal` takes any bundle, as `register_local_bundle` takes any directory that
validates: it writes a row and moves nothing.  Nothing in activation, or in ai-runtime,
reads `local_path`, so a bundle can come into service whose files ai-runtime does not
find.  `ServedBundleOnDisk` excepts just these, until a pull of the bundle brings the files
(section 4).

`clock` is what `datetime.utcnow()` comes to in the column `activated_at`.  With
`WholeSeconds`, as on the MySQL of the docker-compose deployment, a transaction may fall
in the second of the one before or in the next (`Now`); without it, as on SQLite, each
has a time of its own.  The host's clock is assumed not to be set back.  Of rows that tie
a query may return any, and `Targets` is the set of its answers.  `ActivationHistory`
accordingly remembers the bundles displaced within one second together, unless
`WholeSeconds` is FALSE, where it remembers just one.

An activation or rollback takes four steps: *read* (`ReadForActivation`,
`Rollback`), *commit* (`TxnCommit`), *pointer* (`WritePointer`), *notify*
(`NotifyRuntime`).  A transaction is split in two because nothing locks before
the flush: the SELECTs see one state of the table (REPEATABLE READ, the MySQL
default of the docker-compose deployment), and the flush writes exactly the
columns whose loaded value was changed, which is what SQLAlchemy's unit of work
does (`Flushed`).  A pull takes *remove*, *move*, *register* and, if asked,
*activate*.  `Fail` is an exception in a step (the transaction rolls back, the
request ends), `Crash` ends every request; tables and files survive.

Abstractions: one tenant per network id (`active.json` and the directories are
keyed by network id alone, the rows by tenant and network); a bundle's network
and version are those of its manifest and do not change between pulls; a ZIP that
fails validation, and a bundle of an inactive area, raise before any change and
are left out; `upsert_bundle` and its commit are one step; directory *contents*
are not told apart here (RuntimeServing does); the endpoints that pull or
register and then activate are a pull followed by an activation of its own.

### SimPipeline

`simRow` is the status of each sim bundle's row, `simDir` the unpacked sim
bundles, `runtime` the snapshot each registered runtime bundle was composed with,
`snapshot` and `event` the tables of the snapshot sync, `compiled` the composer's
`real_normalization.json` of each area, `inProgress` the set of auto-sync.
`Claim`/`CheckKnown`/`Release` are `_handle_uri`, and `CheckFails` is its look-up when
the database does not answer: the object then counts as unknown, and `blind` records
it.  `Download` to `Register` are `pull_and_register_sim_bundle`; `Put` is the transaction of
`sync_real_network_snapshot`; `ListPending` to `RetryReject` are
`retry_pending_sim_bundles`.  `Compose`/`MapOnto` and `RetryCompose`/`RetryMap` are the
two halves of the composer, which writes the compiled file of the area and reads it back.

`deployment`, chosen at the start, says who pulls and syncs, whether they meet, and how
many faults there are.  The service starts one listener and one poller, once
(`main.py:93`); one deployment has a second listener, since nothing in `_handle_uri`
depends on their number.

What composing a bundle with a snapshot comes to is the constant table
`Verdict`: composed, a ComposeError, a registration error, or an exception of
another class.  The retry order is `created_at DESC` to the second, so it is left
open.  A delivery with an event id already recorded changes nothing and is a
stutter.  Sim bundles have distinct versions.

### SyncEvents

`rows` holds the tables of one area under one key per row, `event` is `sync_event`,
`legacy` the cross config files, `norm` the three kinds of file that a compile writes, in the
order it writes them.  A file, like a row, is the payload it was made from.  A handler
goes through *check* (`_ensure_idempotent`), *load* (SELECTs), *write* (flush, record
the event, commit) and its file work.  `setting.database` decides what a handler sees:
on MySQL check and load are one snapshot (REPEATABLE READ), on SQLite the driver begins
no transaction before the flush, so that load sees what others have committed since
the check, and the siblings what they have committed since the load.  `Refused` is the unique key that an INSERT runs into.  `Wanted` and `Flushed`
are the unit of work: the columns that changed are written, and nothing else.

`applied` (deliveries committed under each id), `met` (ids of which two deliveries were under way at once) and
`calm` (rows whose last change ran alone and to its end) are histories that no guard
reads.  Uploads of artifacts to object storage catch their own errors and change no
state of this service.  The served config of a cross has other writers, which are left
out here: the manual one of `api/ai.py:78-92` (`Update` in Commissioning) and
`ensure_area_configs` (`preprocessing/topology_builder.py:181-191`), which writes missing files only.

### RealNetwork, ComposeMapping, ServedConfig and Commissioning

`RealNetwork` translates `compile_real_normalization`: which crosses and roads count,
the encoding of direction codes guessed from the whole snapshot, the direction of a road
from its code or from its bearing, neighbours, primary cycle, stages in order with
their standard phases.  Bearings are whole degrees.  `ComposeMapping` translates the
composer: `sim_to_real`, `roads_by_direction`, `phase_to_stage`, and in `Composable`
everything that refuses a composition, the checks of `DeploymentMap` and of the bundle
validator included; `runtime_bundle` is what the tooling then builds.  `ServedConfig` translates
`_merge_config_sources`, `_effective_phase_mapping` and the hydration of a cross.

`Commissioning` has a database row, compiled files, a manual config and a bundle in
service.  `Sync` and `Compile` are two steps, and `NotCompiled` is a compile that never
came.  `Compose` compiles the stored row itself.  Requests change nothing and are
operators on the state.  An operator's choice of network, and the order of everything, is
open.

### RuntimeServing

`resolver`, `policy` and `config` are the three module-level caches, for one area
and one of its crosses; `pointer` and `disk` the shared volume, changed by
`Switch`, `RemoveDir` and `MoveIn`; `reload` the step the reload endpoint takes
next; `req` the requests.  A request looks up the config, passes the readiness
check, loads the policy, looks up the config again to map actions to stages, and
loads the policy again for the audit row; each resolver call is *resolve*, *read*,
*check*, and each load is split at the point where the file has been read and the
cache not yet written.

Time is a set of ages that `Tick` increases and that saturate at `Horizon`:
`resolver.age`, the age of a resolver call's own `now` (`at`), and how long ago
`active.json` last named each bundle (`unnamed`).  `settled` marks a request that
began at least TTL after the last switch and saw none since.  A behaviour starts *free*, where
everything interleaves, or *clean*: there changes and reloads keep to the gaps between
requests, a request waits for the reload that a change calls for (`dirty`), and
`DrainedServesDisk` is about those.  A reload begins at
any time: notifications get lost, snapshots cause some too.  There is no legacy
layout, and the area's row names its network, as `upsert_area` ensures.

### GreenTimes and SignalPlan

`count` is the starvation tracker for the stages of one cross (no entry is 0), the
only state that requests share here; `req` the request threads.  `Begin` takes a
layout (cycle length, bounds, yellow and red times, the cross's phase mapping) and
any answer of the policy, and computes what reaches the guardrails: bounds
(`Low`, `High`), the mapping of stages to standard phases with its two tables and
its fallback, current greens, the actions' shifts and `Rescaled`.
`GuardMasked`, `GuardAbove`, `GuardAtMin` and `Reset` are `apply_guardrails`, one
access to the tracker per step, since each takes the tracker's lock for itself.
`Balance` is `_reconcile_green_times`, which either fills the cycle or raises.  A
layout that fails the checks before any counter is touched raises, and is left
out (`Admissible`).

The code computes with doubles and rounds.  Here fractions are exact, `Scaled`
gives numerators and a denominator, and the comparison with 0.5 is one of integers.
`numpy.argsort` does not say how it orders equal keys, so the order of ties is
any bijection `rank`; the sorts of the balance are Python's, hence stable.  The loops that
hand out seconds stage by stage are `Share`: a stage takes what the ones before it
have left, up to its room.  `guardrail_enabled` is TRUE, the default.  How a
cross is completed from its config before this is ServedConfig.

## 3. Runs

| Run | Expect | Shows |
|---|---|---|
| `lifecycle_serial` | pass | one caller at a time, three bundles of a network and one of its neighbour, whole seconds, 4 requests, a fault: all three stores stay consistent, a committed switch reaches `active.json`, a rollback goes back to what is recorded there, and the lifecycle implements `ActivationHistory` |
| `lifecycle_overlap` | pass | two callers overlapping freely, clashing versions, a fault: what still holds |
| `lifecycle_two_active` | violation | two overlapping activations, two active rows |
| `sim_pipeline` | pass | four deployments (an operator pulling, where pulls and syncs do not meet; listener, poller and one or two syncs at every interleaving; two listeners and the poller), with every verdict: provenance, reasons to stay parked, one pull per object, uploads get known, parked bundles get composed |
| `serving` | pass | two requests racing with switches, pulls, reloads and clears; and with changes and reloads between requests, where one reload is enough |
| `serving_stale_config` | violation | the config cache outlives a switch without a reload |
| `plan_overlap` | pass | two requests on one cross, every action of the policy, six layouts: cycle and bounds hold after every repair, a plan is refused only when there is none, counters are bounded |
| `plan_starved` | violation | the balance takes the anti-starvation bump back |
| `commissioning` | pass | every pair of 19 snapshots, seven trained networks: approaches are bound to the right roads, refusals have a reason, stages keep their trained phase across later snapshots, nothing is served from a file that the latest compile did not write, times add up |
| `commissioning_internal_road` | violation | a road that joins two crosses makes the deployment map refuse networks that fit |
| `sync_events` | pass | two handlers on both databases, repeated deliveries, reused ids, activations by hand, recompilations, a fault: a delivery takes effect once, one artifact is active, files catch up |
| `sync_late_duplicate` | violation | on SQLite an overlapping redelivery is applied twice |

**Bounds.**  `MaxRequests` bounds the requests begun, and with them the clock.  Four of
them on three bundles are enough for two pulls that activate, a re-pull of the active one
and a rollback, for two rollbacks in a row, or for three pulls that activate, any of them
in the second of the one before, and a rollback after them; longer histories are what the
theorems are for.  `Now` gives whole seconds the times of an exact clock as well, so that
one setting of `WholeSeconds` runs the steps of both; that the answer of a rollback is
unique on an exact clock is proved only.  The neighbour's bundle shows what reaches across
networks.  Two overlapping requests are enough for every pairwise race of
read, commit and pointer write; their symmetric roles are exchanged by SYMMETRY.
One fault is enough to cut every step; what comes after it is checked with the
remaining requests.  In SimPipeline two sim bundles of one network are needed for
the retry loop to have a rest to lose, two snapshots for a stale compose or a file
compiled by another, two event ids for a newer snapshot.  In SyncEvents two handlers give every pairwise
race; each of the three sets of deliveries pairs what touches the same rows (area and
snapshots, area and configs, area and artifacts) and uses one id for two payloads;
deliveries, and activations and recompilations between them, repeat without bound.  In RuntimeServing two bundles and two moves allow a
switch and a re-pull of the same id; TTL = Horizon = 1,
where age 1 reads "expired".  Its VIEW merges states of a free behaviour that differ only in contents
and in the config of an answer, which no guard and no property of those reads, and keeps every
state of a drained one apart.
In Commissioning `MaxSyncs = 2` suffices since only the snapshot that the bundle was
built from, the one compiled last and the one stored last are ever compared.  The 19 snapshots change a two-cross network in one
way each: no coordinates, no direction codes, eight codes for four, a swapped, partial, empty or
impossible cross table, crosses, roads, cycles and stages out of use, another primary cycle, more
stages than phases, equal stage orders, two roads in one sector in either order.  The
seven networks differ in approaches, in phases that are missing, repeated, or numbered
from another start, and in phase tables.  Compositions may come before, between and after the two.
In SignalPlan seconds are small: three stages, so that one can be masked, one
starved and one left to balance; green bounds from 2 to 6 that the durations 1, 4, 6
and 9 reach from both sides, three actions of two seconds.  The layouts have all
stages mapped, two on one phase, a list that is too short, a table with an unknown
stage and an impossible phase, no mapping, and a cycle too short for the minimums.
`MaxSkips = 1` lets two requests run a counter past the threshold together.

`CHECK_DEADLOCK FALSE` stands where the bounds end the behaviour (every request
used up); RuntimeServing can always take a step and is checked for deadlock.

**Fairness.**  Weak fairness of a request's own steps: a thread that runs is not
starved, and the reload call has a timeout of two seconds.  Nothing obliges a
caller to begin.  In SimPipeline also strong fairness of the poller's claim of each
object: the poller lists the bucket on every pass and hands each object to
`_handle_uri` again and again, while the listener may hold it now and then.  The
listeners have no fairness: notifications get lost.  Everything about SyncEvents, Commissioning,
RuntimeServing and SignalPlan is safety, and assumes none.

## 4. Findings: what the code does otherwise than its documentation says

Five runs exhibit a disagreement; `PROJECT.json` "findings" has the quotations.

* `lifecycle_two_active`: two overlapping activations leave two active rows.
* `serving_stale_config`: a switch without a notification leaves the config of the
  bundle before in the cache for ever.
* `plan_starved`: the balance takes the anti-starvation bump back.
* `commissioning_internal_road`: a road inside the network is an approach at both ends
  for the compiler and its test, and a duplicate for the deployment map.
* `sync_late_duplicate`: on SQLite a redelivery that overlaps with the first is applied
  again.

Four more were met while modelling.  They are why `RollbackUndoesLastSwitch`,
`ServedBundleOnDisk`, `ParkedForAReason` and `ParkedGetsComposed` are stated as they are:

* A tie at `db/repositories.py:477`: a rollback orders by `activated_at` alone, a plain
  DateTime (`db/models.py:220`), which the MySQL of `docker-compose.yml:117` keeps in whole
  seconds.  Of bundles activated within one second (the retry of parked bundles with
  auto-activation does that for several of a network) it may go to one displaced before
  the last, while `db/repositories.py:468` speaks of the bundle that was active most
  recently, `ops/lifecycle.py:476` and `docs/core-controller-api-contract.md:200` of the
  bundle before.
* A bundle without files at `ops/lifecycle.py:396`: register-local takes any directory
  that validates (`ops/api.py:53`) and only writes a row.  Activation then names the bundle
  in `active.json`, which points at the bundle that serves inference
  (`bundles/active.py:1`), and ai-runtime looks for it under its id alone
  (`bundles/storage.py:59`, `runtime/bundle_resolver.py:73`).  `ops/lifecycle.py:362` says the
  bundle is already on the local storage; nothing checks that.
* A lost wake-up at `ops/lifecycle.py:198`: the parked status is written in a
  transaction after the composer found no snapshot.  A sync that commits its snapshot
  and lists the parked bundles in between does not see this one, and nothing retries it
  until another snapshot comes; `README.md:241` has the two flows independent of each
  other.
* An aborted retry at `ops/lifecycle.py:302`: the loop catches three classes of error.  Any
  other (a ValueError of the compiler, an IntegrityError of the registration) ends it,
  and the bundles after it in the list stay parked although they would compose;
  `docs/auto-sync.md:52` says each is retried after the snapshot is synced.

## 5. Proofs

Every theorem holds for any values of the constants that satisfy the module's named
assumptions, `LifecycleAssumption`, `SimPipelineAssumption`, `SyncAssumption`,
`ServingAssumption`, `SignalPlanAssumption`, or the four of Commissioning, and for any
bounds.  Each rests on an inductive invariant, with lemmas that have one step per action.
Every safety property of a passing run is the subject of a theorem.

### BundleLifecycle_proofs

* `TypeCorrect`: TypeOK.
* `PointerAlwaysActivated`: PointerWasActivated, with callers overlapping, failing and
  crashing.  PointerWasActivated is not inductive: it needs that a request about
  to write the pointer has committed an activation of that bundle, and that a
  request about to commit read a table in which its bundle had a row.  Since
  `activated_at` is never set back to NULL and rows are never removed, both
  facts last.
* `SerialCallersOneActive` and `SerialCallersTruthfulPointer`: with Serialized,
  AtMostOneActive and PointerWritesActive.  The inductive invariant (`SerialInv`) adds that at
  most one request is under way per network and that what a request between its
  read and its commit has seen of its network is still what the table says, so
  that `Flushed` writes just what was wanted (lemma `SerialFlush`); and that a request between commit and
  pointer write finds its bundle active.
* `SerialCallersHonestStatus` and `SerialCallersInSync`: with Serialized,
  ActiveStatusHasFlag and PointerInSync.  `AgreeInv` adds to the above that, until a
  fault, every network has either a request that is about to write the pointer or a pointer that
  names just its active row (`SyncInv`).
* `ServedIsOnDisk`: ServedBundleOnDisk, with callers overlapping.  `DiskInv` says that,
  until a fault, every bundle whose row names the directory ai-runtime looks in (`Stored`), or that
  is about to get such a row, is on disk or being moved in (`OnDiskInv`), and that no
  commit invents a row (`NoPhantom`).  Bundles registered from elsewhere are excepted by
  the property itself.
* `SerialCallersKeepHistory`: Refines, with Serialized, on either clock.  Every step of the
  lifecycle maps to an activation, a rollback or a stutter of ActivationHistory.  `HistInv`
  adds to `SerialInv` that of every network some x is what its flags and timestamps say is
  in service (`Keeps`: x alone is active, none is newer, and on an exact clock no two
  timestamps are equal), and that a transaction under way has read this x and, if it rolls
  back, one of the targets (`HasRead`).  Only a commit moves the registers, and
  `CommitSwitches` says how: the bundle that was in service joins the targets if it was
  activated in their second, and replaces them if not (`Displacing`).
* `SerialCallersUndoLastSwitch`: RollbackUndoesLastSwitch, with Serialized, on either clock.
  `UndoInv` adds to `HistInv` that the bundle a request is about to record as displaced or,
  where none is about to write the pointer and nothing has failed, the one that
  `active.json` records, is a target, and without WholeSeconds the only one (`Undoes`).

### SimPipeline_proofs

* `Invariance`, `TypeCorrect` and `LineageHolds`: TypeOK and Lineage, in every deployment.
  Where a registered bundle comes from follows from what the stores hold and what is
  under way: the snapshot table and the composers' file only ever hold delivered
  snapshots of that network (`Stored`), and a pull or a sync about to register carries one
  that fits (`PullGood`, `SyncGood`).
* `PullsInvariance`, `KnownOnDisk` and `PullsOnce`: KnownSimOnDisk and AutoSyncPullsOnce, with any
  number of listeners.  `AloneOn` says that the set `in_progress` keeps two threads off one
  object, `FirstPull` that until a pull writes its row nobody else does.
* `ParkedHasAReason`: ParkedForAReason.  The property is about deployments where pulls and
  syncs do not meet and nothing has failed; for those `SerialInv` adds that at most one
  pull or sync is under way on a network (`OneAtATime`), that a pull about to park finds no
  snapshot and a sync about to map has compiled the stored one (`PullCalm`, `SyncCalm`),
  that a bundle with a row is on disk (`OnDisk`), and that a parked bundle whose snapshot is
  there is still ahead of a sync, or has a reason (`Awaited`).

### SyncEvents_proofs

* `DeliveredOnce`: AppliedOnce.  It needs that of an id no two deliveries of which
  have met only one is under way (`OnlyOne`), and that this one, past its check, still
  finds the id unrecorded (`Unrecorded`).  On MySQL the unique key takes their place.

### SyncRows_proofs

* `SyncTypes`, `OneActiveWhenCalm` and `RepairedWhenCalm`: TypeOK, OneActiveArtifact and
  UndisturbedSyncRepairs of SyncEvents.  The assumption says, beside the types of
  deliveries, that None is neither a delivery nor a row.  A handler flushes the columns
  that differ from what it read, into rows that others may have changed, so that nothing
  is known of a row from one handler alone; the invariant says what is known of a handler
  that is alone on its rows (`Apart`, `AloneGood`): it has read what is there, the activation it has
  committed stands, the files it has written are those of the row.  Whoever may still
  write a file has made its row uncalm before (`Unsettled`), and rows are never deleted,
  so that what a handler has found is still there (`CallGood`).  `FlushedRows` is the lemma
  about commits: an update that activates nothing makes no artifact active, and an
  activation over rows it has read as they are leaves one.

### RuntimeServing_proofs

* `ServingTypes`, `ResolverForgetsInTime`, `SettledRequestsServeActive` and
  `PolicyCacheStaysSmall`: TypeOK, StaleOnlyWithinTTL, SettledServesActive and
  OnePolicyPerArea.  The cache alone is not inductive: a slow resolver call may
  store what it read before a switch.  The invariant therefore says of every request
  (`Good`) that what it has read and not yet stored was dropped no longer ago than
  its own time stamp, that what it is about to insert as a policy is a bundle, and
  that a settled request has found and loaded nothing but the active bundle.
  `Tick` keeps this because all ages grow together and saturate at one horizon; a
  switch keeps it because it unsettles every request and sets the age of the
  bundle it drops to 0.
* `DrainedAnswersFromDisk`: DrainedServesDisk.  `DrainedInv` says that no request is
  under way while something has changed or a reload runs; that each cache is right from
  the step of the reload on that empties it (`ResolverCurrent`, `PolicyCurrent`,
  `ConfigCurrent`); and of a request at each of its points what it has got from the
  volume so far (`Progress`).

### Commissioning_proofs

Four assumptions.  `PayloadsAssumption`: tables have finitely many rows with integer ids,
bearings and order numbers are integers.  `NetworksAssumption`: a trained network lists
each of its crosses once, as the keys of a JSON object are, and its edges come from the
four sides.  `NoneAssumption`: None is none of the values it stands in for.

The invariant (`Inv`) says of every part of the state what it was made from: a file is
the one that the compiler writes for that cross of the snapshot `origin` names
(`FilesInv`), the graph and its crosses' files are of the snapshot compiled last
(`GraphInv`), the bundle is the composition of a network and a snapshot that fit
(`BundleInv`).  The rest is about the functions of the compiler, the composer and the
merge, for snapshots and networks of any size:

* `CommissioningTypes`: TypeOK.  A cross keeps at most four neighbours since the first link
  of each is a road of its own, and a stage's standard phase is one of eight or none.
* `RequestsUseTheLatestCompile`: ServedFromLatestCompile.
* `ApproachesAreBoundRightly`: ApproachesBoundRightly.  The roads that lead to a cross from
  one side are ordered by their distance from the ideal bearing and then by id; the first
  is the only one in `direction_map` (lemmas `OneIsChosen`, `ChosenIsUnique`,
  `RoadsInFacts`).
* `MappingSurvivesCompiles`: MappingStaysWithBundle.  Of a cycle that both have, the merge
  takes the bundle's table, which is not empty (`ServedTable`); a stage is at the place
  that its ordinal says (`StageOrderFacts`), and the table has it under the phase of that
  place (`BundleTable`).
* `NothingIsLostWhileInStep`: NothingLostWhileInStep.
* `RefusalsHaveAReason`: RefusedForAReason.  An assignment that the snapshot leaves open is
  the one the composer takes (`AssignmentIsTaken`: without a table, the k-th sim cross gets
  the k-th real one, by counting those before it), and one that fits passes every
  check (`FittingIsComposable`).
* `HydratedTimesDoAddUp`: HydratedTimesAddUp.

Sorting is counting in all of these: the place of an element in a finite strict order is
the number of elements before it, places are distinct, and each is taken
(`PlaceInjective`, `PlaceTaken`).

### GreenTimes_proofs and SignalPlan_proofs

* `ReconciledFits`: for a cross of any number of stages, `_reconcile_green_times` leaves
  the locked stages alone, keeps the others within their bounds, and fills the cycle
  just if what the locked stages leave lies between the others' minimums and
  maximums.
* `RescaledFits`: `_rescale_green_times` keeps every stage within its bounds and fills
  the cycle, whenever the bounds leave room for it.
  Both rest on lemmas about sums over finite sets: a sum is split at an element, two
  functions that agree have the same one, and what `Share` hands out stage by stage is the
  amount or all the room there is.  A sum is a fold, and induction over the set is replaced
  by a smallest subset for which the claim would fail (`MinimalSubset`).
* `PlanTypes`, `ProposalsFit`, `PlansAreSafe`, `RefusalsAreForced`: TypeOK, ProposalFits,
  PlanIsSafe and RefusedOnlyIfImpossible, for any layouts, stages, requests and answers of
  the policy.  `PlanInv` says of a request at each of its points what its plan already
  satisfies (`Sound`: as proposed, with the masked stages so far back at their current
  green, as balanced), and of a refused one that no plan would have fitted (`Stuck`).
  `SignalPlanAssumption` has durations and bounds as integers.  `PlansAreSafe` has the
  hypothesis `MinGreen >= 1`: with `guardrail_min_green` set to 0, which
  `core/config.py:102` does not exclude (its default is 10), the guardrail may leave a
  stage no green, the answer reports at least one second for every stage, and the plan is
  longer than its cycle.
* `CounterNeverRunsAway`: CounterBounded, for any number of stages and any finite set of
  requests.  A count above MaxSkips is paid for by
  a request in its reset step: `GuardAtMin` adds one to the count and, past the
  threshold, one to that set; `Reset` removes the request and the whole count.

### Only model-checked

* All liveness (SwitchReachesPointer, UploadedGetsKnown, ParkedGetsComposed), which is out
  of the prover's reach, as is anything about ENABLED.
* The refinement where callers overlap: it does not hold there, which is what
  `lifecycle_two_active` shows of the table.
* Inductive invariants were checked by TLC on the runs' instances before they were proved.

## 6. Not modelled

* Drift detection and its alerts: a monitor behind the answer whose statistics are over
  floating-point samples.  It has a known gap: without a reload a detector compares
  samples of two bundles (`observability/drift_registry.py:41`).
* Observation history: one locked access per cross and request; its windows are inputs
  of the policy, and SignalPlan takes any answer of the policy.
* Features, topology tensors, ONNX execution: numeric code.
* The extractor and the validators of bundle ZIPs as such: a gate that raises before any
  store changes.  What of them decides whether a *composition* succeeds is in
  ComposeMapping.
* Object storage, the packing of ZIPs, start-up, configuration, auth, telemetry, logging, metrics.
  Among them, the start-up swallows the error that strict preflight raises, and a bundle
  gets into service by expiry of a resolver entry without a preflight: both are single
  statements, about which a property could only repeat that nothing else is there.
* Inside modelled components: files that are half written; the listener's back-off; the
  fallback of the compiler to the management views and the adapter's renaming of
  fields; the disabled guardrail; listing endpoints.

## 7. Plan

Done so far: lifecycle and its refinement, pipeline, sync API, caches, the chain from a
snapshot to a served config, signal plans, and theorems about every safety property of
these.  What is left, in order:

1. A composition of `BundleLifecycle` and `RuntimeServing`, with the notification as a
   message that may be lost, and ServedBundleOnDisk stated of requests.
2. ServedConfig's stages in front of SignalPlan in one state machine.
3. Drift: a detector that outlives a switch.
