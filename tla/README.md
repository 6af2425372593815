# TLA+ verification of sts2-gateway

The gateway stands between callers and a game host: it hands out leases, starts
and stops game processes, forwards requests under a lease, and keeps ledgers of
operations whose outcome must survive its own crashes. The modules here are
translated from `src/crates/gateway/src` (called `gateway/` below). Most of that
code is single-threaded and cautious; what a test hardly reaches is what happens
*between* its steps: a crash between a write to disk and a write to the host, an
acknowledgment that comes after the caller stopped waiting, a lease that expires
while a handler waits, a queue that fills while the service is shutting down.
That is what is modelled, checked with TLC on small instances, and for most
components proved with TLAPS for every value of the constants.

## 1. Inventory

| Component | State it keeps | Operations | What is hard |
|---|---|---|---|
| Control plane (`control.rs`, `maintenance.rs`, `forwarding.rs`, `lifecycle.rs`, `fencing.rs`, `identity.rs`) | map of instances, id counters, admission flag | allocate, status, reconcile, renew, release, cleanup, forward, expire_due, shutdown | every port call can fail half way; leases lapse by time alone; counters at their width |
| Runtime-v2 ledger and journal (`runtime_v2/`, `journal.rs`, `service_v2.rs`) | operations by id, last observation; a snapshot on disk | submit, dispatch, reply, reconcile, cancel, state refresh, restore | crash between journal and dispatch; failed store; late answers |
| Seeded-run ledger and sidecar journal (`seeded_run/`, `seeded_journal.rs`, `service_seeded_run.rs`) | operations by id, generation; a snapshot on disk | submit, dispatch, reply, reconcile, restore | as above, with other failure paths |
| Admission and shutdown (`service_admission.rs`, `service_runtime.rs`, `http_cancel.rs`, `metrics.rs`) | bounded channel, open flag, cancellation flags, counters | accept, read, queue, serve, cancel, close, wake, drain | three kinds of threads, a wake-up connection, a panic of the worker |
| Recovery leases and host lease control (`recovery_store_*lease*.rs`, `recovery_store_authority.rs`, `service_host_lease*.rs`, `service_lease.rs`, `service_recovery_lease.rs`) | authority and lease rows, the service's memory, what the host holds | boot, fence, acquire, install, renew, revoke | three views of one lease, none written with another; two clocks |
| Allocation, release, episode profile (`service_allocation_cleanup.rs`, `service_episode_profile.rs`, `service_routes.rs`) | cleanup marker, revoked and shutdown flags, profile | allocate, release, shutdown | a failed allocation must be undone at the host without looking like a stop |
| Process lifecycle supervisor (`process_lifecycle*.rs`, `process_store*.rs`, `service_process_lifecycle*.rs`) | operation and ownership rows, authority epoch | launch, attach, stop, restart, replay, reconcile, bootstrap | crashes between intent, effect and outcome; uncertain starts |
| Recovery operations, tickets and catalog (`recovery_store_operations.rs`, `recovery_store_tickets.rs`, `service_recovery_ops*.rs`, `service_recovery_dispatch*.rs`, `service_recovery_catalog.rs`, `service_recovery_v3.rs`) | operation and ticket rows; the catalog of legal actions in memory | intent, dispatch, outcome, lookup, reconcile, catalog reads | outcome and ticket in two transactions; a lookup that writes; a catalog that is stale when it is used |
| Continuation owner (`service_recovery_owner*.rs`, `recovery_store_continuation_owner*.rs`) | claims | claim, adopt, read | lease renewed or expired between the look and the claim |
| Save profile and provisioning (`save_profile/`, `service_save_profile*.rs`) | selection records, disposable identities, two journals | list, current, select, reconcile, create | pending selection after a crash; a creation that spans two journals and a directory; records never evicted |
| Co-op reports (`coop_reports.rs`) | generation per peer, its age | report, read, restart | convergence under stale, silent and over-eager peers |
| Co-op native routes (`service_coop_native*.rs`, `coop_native*.rs`) | one pending operation, in memory | local action, shared vote, rejoin, recover | a frame the mod takes after the exchange was given up; an authority that changes meanwhile |
| Rest-action forwarder (`runtime_v4_expert_rest_action*.rs`) | 256 volatile bindings, 128 admissions of selections, reservations | dispatch, reconcile, evict | bindings at their limit or lost by a restart; answers out of order |
| Native process port (`process_native*.rs`) | a registry of generations, a marker in each user-data directory | start, recover, inspect, stop | helper commands that time out or outlive the gateway; properties and group members read one after the other |
| Game information and negotiated capabilities (`service_game_information*.rs`, `game_information*.rs`, `negotiated_capabilities*.rs`) | what the mod proved, tagged with the lease: capabilities, lookup binding, bootstrap, runtime-v3 baseline; 64 cursor bindings; all in memory | capabilities, query, discovery, observe, bootstrap, snapshot | nothing is cleared when the lease changes; the lease ends during an exchange; a full registry |
| Relays: runtime-v3 without a recovery store, runtime-v4 expert, map, content manifest, exact restore, receipt query | none between requests | one synchronous exchange each | only what Admission covers: deadline, cancellation |
| Credentials, routing, HTTP, configuration, JSON, artifacts, metrics | fixed after the start (counters aside) | checks and conversions | pure functions over text |

Callers reach the service over HTTP. One listener thread reads requests and puts
them on a bounded channel; one worker thread runs every handler, so two handlers
never overlap. A handler reads and writes the service's memory, the recovery
store (SQLite), the journals (files), and speaks to the host over loopback with
a deadline. The control-plane library (`Gateway`) takes `&mut self` and calls
its ports synchronously. Hence the shape of the models: a handler is atomic
except where it writes to something that outlives it or waits for an answer, and
at each such place the process may die, the other side may act late, and time
passes.

`PROJECT.json` lists each component with its sources and status, and every
hazard at its line with the property that watches it.

## 2. Modules

| Module | Models | Abstract specification | Proofs |
|---|---|---|---|
| `ControlPlane` | the lifecycle control plane | `LeaseFence` | `GatewayProofs` |
| `RuntimeV2Ledger` | the Runtime-v2 ledger, its journal, crash and restart | `AtMostOnce` | `RuntimeV2LedgerProofs` |
| `SeededRun` | the seeded-run ledger and its sidecar | `AtMostOnce` | `GatewayProofs` |
| `Admission` | listener, worker, watchers, channel, shutdown | | `AdmissionProofs` |
| `HostLease` | recovery leases, service memory, host consent; allocation, release, episodes | | `ContinuationOwnerProofs` |
| `ContinuationOwner` | reads, claims and adoptions of a continuation; extends `HostLease` and runs together with it | | `ContinuationOwnerProofs` |
| `RecoveryOperations` | intents, dispatches, outcomes, tickets, the catalog, boots and archiving | | `RecoveryOperationsProofs` |
| `SaveProfile` | selections, creations, their two journals and directories | `AtMostOnce` | `RouteProofs` |
| `ProcessLifecycle` | the process lifecycle supervisor of one instance, its rows, crash and restart | | `ProcessProofs` |
| `NativeProcess` | the port the supervisor starts processes through, over systemd | `AtMostOnce` | `ProcessProofs` |
| `RestAction` | the rest-action forwarder's bounded memories | | `RouteProofs` |
| `CoopReports`, `CoopNative` | peer reports; the co-op mutation in flight | | |
| `GameInformation` | capabilities, cursors, bindings, the bootstrap, the snapshot | | |
| `RouteLease`, `AttachedRoutes` | the lease as these routes see it; the three composed: one worker, one lease, one restart | | `AttachedRoutesProofs` |

`MCx` instantiates `x` for TLC (symmetry sets). Definitions whose comment says
*Mutant of ...* are plausible mistakes in a definition: none is part of a
specification; each exists to show that a property notices that mistake.

### ControlPlane

`instances`, `next_instance_id`, `next_lease_id`, `is_admitting` are the fields
of `Gateway`; `now` is the caller-supplied tick; `proc` is the process port's
world (external), `granted` and `wire` are histories: the proof each allocation
returned and the proofs under which requests were sent. Each public handler is
one action (it borrows `Gateway` mutably and awaits nothing), with every port
failure a choice: which stops succeed (`ok`), whether start, readiness and
endpoint calls fail. Ticks and counters have widths (`MaxTick`, `MaxId` stand for
`u64::MAX`), so saturation of an expiry and exhaustion of ids are reachable. A
call that returns an error without changing anything is a stuttering step.

### RuntimeV2Ledger, SeededRun

`operations`, `observation` (or `generation`) are memory, `journal` is the file,
`worker` says whether the worker is idle, about to dispatch, awaiting the answer,
or down. Admission writes the journal first and dispatches only if that worked;
`Stored` and `StoreFails` are the two outcomes of a journal write, and in the
second the file holds either the old or the new snapshot, as the write-and-rename
of `journal.rs` leaves it. `Crash` loses memory anywhere; `Restart` is
`restore_state`, guarded by what it demands of a journal. The host is external:
it acts on a request for the generation it is in, possibly long after the
gateway gave up, keeps receipts, and reports truthfully. A request is an
operation id with a generation; the rest of it is a digest that is equal or not.

Left out of both: the configuration without a journal (nothing to recover);
requests refused before the ledger by authentication, fence or validation;
seeded cancellation, which no route reaches.

### Admission

Each step makes at most one access to what another thread writes, and each of the
relaxed atomic updates of `metrics.rs` is a step of its own: counting a request as
admitted and as queued, rolling both back, and moving it from queued to active, to
completed or to cancelled, all take two, and the other thread may be anywhere
between them (`ListenerCount`, `WorkerCount`). A connection
is the caller who made it; `kind` is what the listener reads on it (unreadable,
refused before the queue, ordinary, watched, shutdown). `metrics` are the
counters of `metrics.rs` that take part in the accounting. `Wake` is the
connection that `wake_listener` makes to unblock `accept`. The handlers
themselves are not in this module: a handler only may request shutdown or panic.

### HostLease

`authority` and `leases` are the rows of the recovery store, `svc` the fields of
`RuntimeService` that concern the lease, `call` the handler that waits for the
host, `wire` the frames ever written (any of them may take effect late, twice or
never), `host` what the host holds. There are two clocks: `mono` (`Instant`, for
deadlines) and `now = mono + skew` (the wall clock the store uses, which never
goes back). A boot is its authority generation, a lease its epoch, a grant the
epoch with its expiry (everything else in the grant is fixed by the epoch, so the
digest is represented by that expiry). A handler is atomic up to its frame and
from the answer on; activation after an installation is a step of its own. The
host supersedes by boot and epoch and treats a repeated request as a duplicate.
Not modelled: a deployment without a recovery store (no host consent is asked),
a crash of the host, requests that fail authentication, the
*already installed* branch of the installation (no state of this model or of the
service reaches it, since acquisition is refused while a lease is active).

### ProcessLifecycle

`rec` and `owner` are the operation rows and the ownership row (the store is
written before memory, so one variable stands for both), `lease` the proof bound
in this boot, `job` the handler that runs, as the place of its next step, and
`tree` (external) the process tree of each generation: the process, whether it
is what was approved, and its descendants. Every step is one store write or one
effectful port call with the reads before it; a place is named after what comes
next. Between steps the gateway may die (`Restart`, which is `new` with
`bootstrap_ownership`), a write may fail (`StoreFails`), and processes come up,
fork and exit. The port may report a fault or a drifted identity at any time;
that a process runs, or is gone with its descendants, it reports only when true.
A generation key starts at most one process. A request that changes nothing
(refused, or a replay of an ended operation) is a stuttering step.

One instance is modelled, so `max_processes`, `max_records` and the namespace
check have no competitor; legacy rows without a sequence, the coordinator lock
and token, and the lease fence before the handler are left out. The epoch's
exhaustion is the bound `MaxEpoch`. `SupersededReplays` says whether callers
resubmit or reconcile an operation after a newer one was recorded. A second
lease (`Leases = {l1, l2}`: the next boot has another proof than the recorded
operations) makes the same properties a matter of 3.3 million states and of more
minutes than the run is given; they hold there too, and the proof has no bound.

### ContinuationOwner

Composed with `HostLease`: every action of it is a step here, and the owner is
computed from the same rows and the same service memory that admit mutations. An
owner is the boot, the epoch and the expiry of a lease. A claim is recorded for
one operation; an adoption compares the claim with the present owner in the
store and, once its transaction is done, the lease with the service's memory. A renewal changes the owner, so a claim can be neither
retried nor adopted after it (ADR 0028 and 0029 accept this).

### RecoveryOperations

`rows` are the operation rows with the archived ones, `tickets` the admissions
imported from the host, `catalog` the service's memory of legal actions, `call`
the handler under way with its place between store transactions and exchanges,
`wire` the frames written and not delivered. A frame the service gave up on can
still be delivered, after a new boot too; the host (external) executes an
operation once and answers with its ticket. An operation stands for its
identifier and digest; a boot is fenced once and so is its own fence. The first
transaction of a handler is merged with the request. Answers that list legal
actions may lag behind the game, a read of the state is current, and the game
moves only by operations. Not modelled: purge, rekey, backup and the ticket
functions that no route calls.

### SaveProfile

`rows` and `allocs` are the two journals, `selected`, `pending_selection` and
`next_identity` memory, `dirs` the allocation directories. A directory can
disappear, a name can be taken (`Foreign`), a write can fail, and the process
can die at every step. A request context is its lease. An error answer without
a status counts as a rejection, as the code has it. The production service
injects no durable store, so there every mutation fails closed; the model is of
the configuration with one. The journal's owner lock and schema checks are left
out.

### RestAction

A catalog is its generation, its lease and how many choices were made. The mod
(external) accepts a request of the generation it is in, opens, advances and
completes a selection, and answers with the receipt of then or of now. A caller
uses an operation identifier for one dispatch, and a selection identifier is not
reused while its admission is retained (section 6). Reconciliation is one step, because requests are served one at a time. Selections that the
mod cancels, and bindings of a former lease, keep their slots.

### NativeProcess

`registry` and `marker` are durable, `call` is the port call under way. Each
helper command is a step that can fail, time out, or act after its caller died;
`systemctl show` and the read of the control group are two steps between which
the tree changes. The registry can be recreated (a new identity), the
configuration changed (a new digest) and the host rebooted. A marker write may
be torn. `NamespaceOf` gives the user-data directory of a generation.

### CoopReports, CoopNative

`CoopReports` keeps a generation and an age for each peer; `advance` moves the
agreed generation when every peer is fresh and reports one. `CoopNative` has one
`pending` mutation, the exchange under way, frames given up and not yet taken
(`late`), and a host (external) that obeys the relations its answers are checked
against: it keeps the receipt of an operation, refuses without a receipt only
what it never did, and may change its authority. Read-only routes keep nothing.
`shared_vote` has the control of `local_action` and is left out of the run.

### GameInformation, RouteLease, AttachedRoutes

`lease` is none, the lease of the configuration, or a recovery lease;
`game_information_authority` is the identity that evidence is tagged with, and
falls back to the configuration's when there is no lease. `due` says that the
deadline has passed and no check has noticed: the bootstrap and the state
exchange of a snapshot check the lease again, the other exchanges do not.
`call` is the request being served; an exchange ends with any answer the
validators let through (any kinds, any cursor, any identity), or without one.
A query is one of each kind; scopes, limits and payload validation are left out,
since what they refuse changes nothing. `evidence`, `handed` and `offered` are
histories: what the mod proved since the lease began, the query and the authority
each cursor was last handed out for, the snapshot just answered. `CursorsContinue`
speaks of cursors handed out under the present authority only, and
`OffersAreProved` claims of a bootstrap only that it is offered for an identity
proved: what ADR 0024 and ADR 0032 say of cursors of a former lease and of a
bootstrap that failed is not what the code does (section 6), and no property
claims either. A snapshot that is refused after its capabilities
were answered is left out: it leaves no more than an answered one does.

`AttachedRoutes` puts the three together. `Apart` is a state constraint of its
run: they share only the worker and the lease, so the run lets one of them move
while the others have nothing pending.

## 3. Runs

| Run | What it shows | Bounds |
|---|---|---|
| `control_plane` | no failure path loses a process; capacity bounds processes; shutdown closes; the control plane implements `LeaseFence` | 2 callers, capacity 2, 4 ids, clock to 3 with leases of 2: leases lapse, saturate at the end of the clock, and ids run out |
| `runtime_v2_ledger` | implements `AtMostOnce`; every journal left behind can be restored; observations never run ahead of the host | 2 operations, 2 slots, generations 0..1, one crash anywhere |
| `seeded_run` | implements `AtMostOnce` with settled answers; rejections are truthful when told | 2 operations, generations 0..2, 1 crash, mismatching answers |
| `admission` | before and after every atomic update each counter is what it counts and one for a request under way, so none wraps; no admitted request is lost and no refused one is handled; a requested shutdown completes; every connection ends | 2 callers, queue 1, backlog 2 |
| `leases` | one live lease; what is admitted is held by the host at least as long; a stop holds; only returned leases serve; the owner told to a caller is the one mutations are admitted under; an adopted claim is of the lease in force | 2 boots, 2 epochs, 1 renewal, 3 ticks, a wall clock 1 ahead, lifetime 2, 2 continuation operations |
| `recovery_operations` | an operation is executed once; one at a time can take effect; finished rows say what the host did; a settlement the host made can always be imported; a spent catalog is not restored by a late answer | 2 operations, 2 boots, 2 incarnations, 2 epochs, 2 generations |
| `save_profile` | a restart knows what the running ledger knew; the selected profile is the mod's; a creation is forwarded only with its directory; no operation is sent twice | 2 operations, 2 profiles, 2 leases, capacity 2, one taken name |
| `process_lifecycle` | two process trees never coexist; Stopped is recorded only once the tree is gone | 3 operations, 2 profiles, 1 lease, 2 epochs (one restart); callers do not replay superseded operations |
| `process_superseded` | **violated**: the replay of a superseded operation gives up a running process (section 6) | 3 operations, superseded operations are replayed |
| `native_process` | no two trees in one user-data directory; what is recorded absent is gone for good; a generation is started at most once and found only if it was started | 3 generations of one directory, 2 rows, 2 boots, 2 registries, 2 configurations |
| `rest_action` | every truthful answer for a remembered operation is accepted; a selection that opens finds a slot; a completed selection stays closed | 4 operations for 3 bindings, 1 selection slot, 2 leases, 4 generations |
| `attached_routes` | an agreed generation is common to the peers; an operation that may still take effect keeps the only slot; one authority never settles what another acknowledged; what a snapshot offers was proved under the lease it names, and a cursor handed out under the present lease continues its query | 3 peers, generations to 2, lifetime 2; 2 operations, 2 authorities, 1 late frame, 1 restart; 2 recovery leases or a fixed one, 2 query kinds, 3 cursors for 2 bindings, 3 identities |

The bounds are the smallest at which the interesting cases meet: two operations
compete for memory and journal; two boots and two epochs are what a stale frame
needs; three operations are a launch, what supersedes it and what comes after;
three generations of one directory are more than its registry has rows; four
operations evict the oldest of three bindings; a lifetime of two ticks lets a
lease be renewed before, at and after its expiry. `CHECK_DEADLOCK FALSE` appears
where the bounds (or a shutdown) end every behaviour.

**Fairness.** Only `admission` states it: the listener, the worker and each
watcher are threads that keep running; reads and writes end by their five-second
deadlines, the watcher polls every 25 ms. No fairness is assumed of callers.
After a worker panic the listener notices at its next send, so
`ShutdownCompletes` is stated of a shutdown that was requested, not of a panic;
until an admissible request arrives the process stays up. The other components
make progress only when a caller comes back, and no text of the repository says
that callers do; nothing is claimed of it.

## 4. Proofs

Eight modules hold theorems; all are checked by `tlapm` to the last leaf. Every
inductive invariant was first checked by TLC on the run of its component.

`GatewayProofs`, its first half, for all callers, sessions, capacities, lease durations and
widths (`ConstantsAssumption`, `SentinelsAssumption`): `IInv` is inductive
(`InvariantHolds`), and from it `TypeCorrect`, `ProcessesAccountedFor`,
`ShutdownCloses`, `EndedStaysEnded`, `CapacityBoundsProcesses` and `RefinesFence`.
`NoOrphanProcess` alone is not inductive: that a failed stop keeps its record
needs that a record's process handle is its own id (`RecordsConsistent`), that
fresh ids are unused (`FreshIds`), and for the refinement that a record's lease is
the one granted for it (`LeasesGranted`). The capacity theorem maps running
processes injectively into the map's records and uses cardinality facts from
`FiniteSetTheorems`. The refinement shows each handler is `Issue`, `Burn`, `End`,
`Serve` or a stutter of the fence, with the passage of time as `End`.

Its second half is about the seeded-run ledger, for any set of operations,
capacity, bound on generations and number of crashes (`SeededConfig`):
`SeededInvariant`, and from it `RejectionTruthfulTheorem`, `SeededRunRefinement` and
`SidecarRestorableTheorem` (every sidecar the service leaves is one `restore_state`
accepts; it has no run, and its statement was checked by TLC with two crashes).
What an entry says of the host is true in memory and on disk (`LedgerSound`), an
operation under way is in flight in both (`WorkerConsistent`), so that whichever
snapshot a failed store leaves no restart takes it for a new one, and receipts are
true (`HostConsistent`). A rejection need not be on disk for this, which is why the
refinement is of the settled answers only (section 6).

`RuntimeV2LedgerProofs`, for any set of operation ids, capacity, bound on
generations and number of crashes (`LedgerConfig`): `LedgerInvariant`, and from
it `WrittenStaysRetained`, `JournalStaysRestorable`, `ObservationStaysReachable`
and `RefinesAtMostOnce`. The invariant says what an entry in memory *or on disk*
implies about the world (`LedgerSound`), where the worker can be (`WorkerConsistent`),
what a receipt implies (`HostConsistent`) and that any snapshot that could be taken
now would be accepted later (`SnapshotsValid`). Both halves are needed because a
failed store leaves either snapshot on disk.

`AdmissionProofs`, for any finite set of callers, queue and backlog:
`AdmissionTypes`, `CountersTheorem` and `NoneLostTheorem`. A request is counted
before it is sent and after it is received, by two updates each, so every counter
differs from what it counts by what its thread has under way: `CountersAreExact`
says by how much at each place of the listener and the worker, and
`ReservationCounted` keeps a reservation counted when the worker has panicked.
That no request is
lost needs that every connection is in exactly one place (`PlacesSound`), that
what was admitted is in the channel, in the worker's hands or answered
(`AdmittedKept`, `HandledKept`), and what the listener and the receiver know of
one another (`ConnSound`, `ReceiverSound`): a send fails only when the receiver
has gone, and the receiver goes only after draining.

`RecoveryOperationsProofs`, for any operations, boots, incarnations, epochs and
generations: `DispatchedOnceTheorem`, `OneInFlightTheorem`, `OutcomeTheorem`,
`ImportableTheorem` and `SpentTheorem`. For each operation the invariant ties the
row, the frames on the wire, the host's record and the ticket together (`OpSound`:
a dispatch is on the wire at most once, and only of a row that says so; a final
row says what the host's record says; a ticket is the host's). `OneUnresolved`
keeps a second operation of an incarnation from being recorded while the first
may take effect, `CallSound` says what the handler under way has already
written, and `CatalogSound` that neither the catalog nor an answer on its way
lists the actions of a state that an operation has spent.

`AttachedRoutesProofs`, for any peers, operations, authorities, query kinds and
cursors, over the composed specification: `AgreementTheorem` (`ReportsInv`: the
agreed generation was reported by each peer, and a fresh report is one of it),
`PendingTheorem` and `AuthorityTheorem` (`NativeInv`: what the mod may still do is
the pending operation's, a receipt carries the authority it was accepted
under), and `AnswersTheorem` (`InformationInv`: what is remembered under a lease
was proved under that lease, though nothing is cleared when a lease ends, and each
bound cursor has the query it was last handed out for). It says nothing of cursors
of a former lease.

`ProcessProofs`, its first half, for any generations, directories, capacity, number of host
boots, configurations and registries: `NativeInvariant`, `OneTreeTheorem`,
`AbsentTheorem` and `NativeRefinesAtMostOnce`. Two mechanisms keep trees apart and
neither suffices alone. Within one registry the rows do: at most one row of a
directory is not absent (`OneOpenRow`), and what a row says of its unit is true
and stays true (`RowSound`). Across registries the marker does: a unit was
started by the registry that its directory's marker names (`UnitSound`,
`StartSound`), and no marker names a registry yet to come (`MarkerSound`). Absence
rests on the binding: a bound unit has begun, and a unit that has begun and lost
its processes does not start again, which is what makes two reads at different
times safe. The refinement maps the request of a start to `Write`, what the
manager makes of it to `Decide`, and *found* to `Answer`.

Its second half is about the supervisor above that port, for any number of
operations, any profiles and leases and any bound on epochs: `LifecycleInvariant`,
`OneTreeOfInstanceTheorem`, `LiveIsHeldTheorem` and `StoppedMeansGoneTheorem`. That
at most one tree lives is not inductive, because a process outlives the row that
started it: the next operation is recorded while it runs, and a crash loses the
handler. The invariant says of every live tree who answers for it (`TreeHeld`): it
is the newest one started by an operation that stands, that operation and every
later one that stands are active and name no other process, and each later one was
recorded under the lease of an earlier one that it refers to. `RowsTrue` has what a
recorded state implies about the row, `JobCurrent` that a handler works on the
latest operation, and `JobPlaced` what each place in a handler relies on, for
instance that nothing lives where a replacement is about to be started. There is
one lemma for each step of a handler, and one for each way in which a request is
refused, fails or is given up. Each theorem assumes `~SupersededReplays`: callers
do not resubmit or reconcile an operation that a newer one superseded. The
hypothesis is needed: `process_superseded` shows `LiveIsHeld` violated without it.

`ContinuationOwnerProofs`, for any lease lifetime, number of boots, leases,
renewals and ticks, and any continuation operations, over the lease machine with
claims on top: `OneLiveLeaseTheorem`, `HostHoldsTheorem`, `StopTheorem`,
`ReturnedTheorem`, `OwnerAgreesTheorem`, `AdoptedTheorem`, and `HostLeaseTheorem` for
`HostLease` alone. None of the properties is inductive, because a frame may take
effect at any time after it was written. The invariant (`LInv`) therefore says
what every frame ever written may still do: `WireSound` has that a revoke is only
of a row that is no longer active, and a renewal only the one pending or one that
is over. With it, `RowsSound` keeps the host in possession of the active row from
its installation on, also while a renewal is pending (`Holds`), and `CallSound`
says what the answer to the frame under way means. `MemSound` ties the service's
memory to the rows: a lease it is active with was returned, and a stop leaves no
cleanup marker that could reopen it. The parts are stated of a memory and rows
that are still being worked on, so each piece a handler is made of (revoke,
cleanup, install, acquire) has one lemma, used by every handler that ends in it.
An adoption adds that the claim it found stands until its last check (`AskSound`).

`RouteProofs`, for any operations, profiles, foreign directories, capacity
and number of leases: `RestartAgreesTheorem`, `SelectedIsCurrentTheorem`,
`CreationBackedTheorem`, `SaveProfileRefinement` and `OneDirectoryTheorem`. The
ledger's memory is a function of its journal: exactly the pending selection is
open (`PendingIsOpen`), it is newer than every settled one (`OpenIsNewer`), so the
newest settled one is the selected profile (`SelectedIsNewest`); sequence numbers
are distinct (`Ordered`), which makes *newest* unique and needs that an insertion
raises the number of rows (cardinality facts from `FiniteSetTheorems`). What the
mod has follows (`SlotFollows`) because a final status is true of what was sent
(`FinalIsTrue`, `SentIsRecorded`). That a recorded creation has its directory is
what the handler relies on between its steps (`CallSound`). Identities are never
given out twice because the largest that was recorded exists and is below the next
(`IdentitiesFresh`), also after a restart that forgot the unrecorded ones. The
refinement maps the exchange with the mod to `Write`, its decision to `Decide` and
a stored final status to `Answer`.

The same module proves `TruthIsAcceptedTheorem`, `SlotsArePromisedTheorem` and
`CompletedStaysClosedTheorem` of `RestAction`, for any operations, selections and
bounds on bindings, slots, leases and generations. None of the properties is
inductive: whether an answer is accepted depends on a binding, an admission and a
catalog that other operations wrote. `RestInv` first says what is true of the mod:
a receipt tells what one step of the game did (`ReceiptsTrue`), and an operation's
binding carries the catalog its answer is about (`BindingsTrue`, `ContextFits`).
Then it says what the forwarder's memories know of that: a selection seen under
the current lease is admitted, or was marked as completed (`SeenOrMarked`); one
that has opened and was not seen yet stands still, and the operation that opened
it keeps its reservation (`UnseenStands`, `AwaitingReserved`); and what is admitted
is newer than the marks left by completions (`MarksOlder`). That slots in use and
slots reserved never exceed the bound is a matter of cardinalities, and it makes
the branch for an answer that finds no room one that is never taken.

The assumptions are those of the modules: the configuration (finite sets, positive
bounds), and that the value standing for *nothing* is none of the values it is
told apart from (`SentinelsAssumption`, `RecoveryNothing`, `NativeNothing`,
`InformationNothing`, `NothingIsNoRecord`, `NothingIsNoEntry`, `NothingIsNoRow`). TLC
evaluates all of them.

Only model-checked: liveness and anything that needs `ENABLED`
(`ShutdownCompletes`, `EveryCallerResolved`), which is out of the prover's reach; and
what the process lifecycle does when superseded operations are replayed.

## 5. Plan

Every safety property and refinement that a passing run checks is proved. What
could be added: the parts of section 7 that keep state of their own (a second
instance of the process lifecycle, `ProcessSupervisor`, the recovery archive), each
with its module, run and proof.

## 6. Findings and readings of the code

`process_superseded` is a run: `block_operation` clears the ownership row when
the operation it rejects is the owner. Replaying or reconciling a launch that a
newer stop or restart superseded rejects it, although that newer operation never
got past its recorded intent and the launched process runs. When the newer
intent is then replayed nothing is authorized any more, so it is rejected too,
and a launch is admitted beside the running process. ADR 0024 says failed cleanup
or uncertain identity blocks replacement allocation.

Disagreements between the code and a document that were met while modelling, and
that the models contain without a run that asserts them:

- `recovery_store_host_lease_ack.rs:110` stores the generation of a revoke
  acknowledgment without comparing it with the installed one; ADR 0017 (lines
  39-41) says it must match on every acknowledgment. Renewals do compare.
- `seeded_run/ledger.rs:204`: a stale-generation rejection is put in memory
  before the checkpoint and stays there when the checkpoint fails, so it is
  replayed to callers although it is not durable; a restart forgets it and the
  operation id can then be dispatched. ADR 0018 (line 37) and `ARCHITECTURE.md`
  (line 337) say rejected outcomes are retained by operation identity.
- `process_lifecycle_recovery.rs:172`: after an ambiguous replacement start
  `process_failure` stores the replacement in the restart's row;
  `reconcile_restart` takes any process in that row for the one to be replaced
  and force-stops it. ADR 0024 (lines 67 and 122) says a restart stops the
  verified old identity.
- `service_game_information.rs:286`: a cursor binding carries no lease and is not
  dropped when the lease changes. A page handed out under one lease is continued
  under the next: the binding is found, the query compared with it and forwarded;
  another query with that cursor is refused as stale by what the former lease
  left. ADR 0024 (game-information query routing, lines 74-76) says "lease/epoch
  or content changes create a new service authority and cannot reuse it". A live
  query carries the epoch; a static one does not. `CursorsContinue` claims nothing
  of such cursors.
- `service_game_information_live_observation_bootstrap.rs:126`: after a failure the
  bootstrap route stays open, and a later valid answer clears the failure, so the
  same lease is offered the bootstrap again. ADR 0032 (line 37) says a failure
  "withdraws the per-instance support witness until the bound owner authority
  changes". `OffersAreProved` claims nothing of failures.

Behaviours a reader may not expect, which no document rules out:

- `execute_restart` stores Restarting before it compares the profiles. If the
  refusal is lost to a crash or a failed write, the replay continues in
  `prepare_restart_recovery`, which does not compare them, and stops the process;
  the replacement then has no generation key, and the operation ends Unknown.
  `process_lifecycle` contains these behaviours and shows that they never lead to
  two trees. A crash between Rejected and the clearing of the ownership row
  (`process_lifecycle_ownership.rs:39`) leaves an owner until a new operation.
- An installation whose answer is lost until the grant expires leaves its row in
  PENDING_HOST_INSTALL until the next boot (`service_allocation_cleanup.rs:41`).
- A read-only lookup of an operation that was recorded and never dispatched asks
  the host and stores Unknown (`service_recovery_ops_core.rs:126`); an unresolved
  row blocks later intents of its incarnation (`recovery_store_operations.rs:54`).
- A crash between the insertion of a selection and its forwarding leaves a
  pending selection that is never forwarded (`save_profile/ledger.rs:129`), and
  the pending selection of a former lease cannot be reconciled.
- An operation whose binding was evicted can be dispatched again through the
  rest-action route; the mod's own receipt keeps it from taking effect twice.
- A selection identifier that the mod uses again under the same lease while its
  admission is retained (the selection was cancelled, or the answer to its
  completion was lost) makes the forwarder refuse a truthful *requested* answer
  (`runtime_v4_expert_rest_action_selection.rs:100`). `RestAction` assumes that
  the mod does not do this.
- The row of a generation whose start failed, whose main process was never
  observed, or which is of a former boot stays unresolved and keeps its place in
  the registry (accepted by ADR 0037).
- A snapshot whose lease is found expired by its own state exchange is still
  answered with 200, naming the lease that ended (`negotiated_capabilities.rs:113`).
- The metrics route loads its counters one after the other, and both threads
  update them in pairs (`metrics.rs:49`, `metrics.rs:111`): a report need not add
  up, and the depth it shows can exceed the capacity by a reservation that is
  about to be rolled back. `CountersAreExact` is about each counter, not a report.
- A co-op operation the mod never gives a final outcome for holds the only slot
  until a restart (`service_coop_native.rs:140`, accepted by ADR 0022).

## 7. Not modelled

The relays of section 1 keep nothing between requests: one exchange each, whose
deadline and cancellation are steps of `Admission`. Credentials, routing,
configuration, HTTP parsing, JSON, schemas and artifacts are pure functions over
text. `ProcessSupervisor`, the approved-profile adapter, the co-op session
prototype and the recovery backup, archive and rekey functions are library code
that no route of the service composes. A second instance of the process
lifecycle (its `max_processes`, `max_records` and namespace competition) is left
out of `ProcessLifecycle`; that two generations never share a user-data directory
is shown where it is enforced, in `NativeProcess`.
