# LabOS: TLA+ specifications

LabOS is a control plane for governed sandboxes ("labs"): an HTTP API
(`labos/api/app.py`) over a relational database, managed directories on disk,
a policy engine that decides which requests are accepted and which wait for a
human, a scheduler queue, and a reconciliation service that closes what is
overdue or broken. This directory models the parts whose correctness depends
on order, concurrency and failure, checks them with TLC and proves the
central safety properties with TLAPS.

## The system

| Component | State | Operations | Interacts with |
|---|---|---|---|
| Lifecycle contract (`core/enums.py`, `core/state_machine.py`) | none: states and transition tables | `can_transition_*`, called by tests only | the contract all rows are compared with |
| Policy engine and profiles (`core/policy_engine.py`, `core/policy_models.py`, `config/profiles/base.py`) | none: a registry of profiles | `validate_request`, `validate_export`, `validate_combinations` | called by lab creation, export staging and lease issue |
| Labs (`api/app.py`, `storage/allocator.py`) | `LabRow`, `LabStorageRow`, a directory tree | create, destroy | approvals, storage, scheduler (creates labs), reconciliation |
| Approvals (`api/app.py`) | `ApprovalRow` | request, approve, deny, expire | write the lab or the export they guard |
| Export gate (`security/export_gate.py`, `api/app.py`) | `ExportRow`, quarantined and released copies | stage, release, deny | lives in the lab's tree, which destroy removes |
| Reconciliation (`workers/reconciler.py`) | none of its own | one pass: expire approvals, revoke leases, time runs out, retry destroys, fail labs without storage, report runtime orphans and zombies | everybody's rows, from one early read |
| Secret leases (`security/secret_broker.py`) | `SecretLeaseRow` | issue, revoke, expire, materialise | reconciliation, Docker runtime |
| Runs (`api/app.py`) | `RunRow` | create, time out | scheduler, reconciliation |
| Scheduler (`workers/scheduler.py`) | `SchedulerJobRow` | enqueue under a quota, run the next due job | creates labs and runs inside its transaction |
| Audit trail (`core/events.py`) | `EventRow` | written with every change | |
| Snapshots (`storage/snapshots.py`) | archive and metadata files, `SnapshotRow` | create, list, restore | write into the lab's tree |
| Docker runtime (`runtimes/`) | containers, networks, volumes | create, start, stop, destroy, inspect, list | leases, reconciliation |
| Release smokes (`cli/main.py`, `runtimes/docker_probe.py`) | a temporary root, an API process, labs on whichever API answers | `smoke-docs`, `smoke-cli`, `smoke-local`, `smoke-docker` | the API, over HTTP; Docker |
| Other CLI commands, settings, migrations | none | one request each, status reports | |

What is hard here:

- FastAPI runs the handlers on a thread pool and nothing locks a row between
  the read that a decision is based on and the write: check-then-act races
  between two requests, and between a request and a reconciliation pass.
- Files are copied and removed before the transaction that records it commits.
  A failure in between rolls the rows back and leaves the files.
- SQLAlchemy writes only the columns that differ from what the session loaded,
  so two racing writers can leave a row that neither of them meant.
- Workspaces, archives, manifests, containers, networks and volumes are changed
  in several calls each, with or without a clean-up when one of them fails.
- What the CLI asks for over HTTP may be answered late or never, and may be
  carried out after the command has given up on it.
- Approvals, leases, runs and destroys only come to an end if somebody runs
  reconciliation; jobs only if somebody calls `dispatch-next`. Nothing in the
  repository does either periodically.

`PROJECT.json` lists these hazards one by one with the line each bites at and
the properties that would notice.

What makes each component correct: nothing gated proceeds without a recorded
approval; nothing waits for a decision that cannot be made; decisions and
terminal states are final; every outcome has its audit event; rows speak of
files that exist, and a destroyed lab has none; quotas and attempt budgets are
kept; overdue things end; accepted sandboxes are the ones asked for and the
profile's; snapshots that are recorded can be restored, exactly; running labs
keep what they mount, and what is left behind by a failure is either removed,
flagged or explained by a second failure.

## The modules

| Module | Models | Extends |
|---|---|---|
| `Lifecycle` | states and the transition tables that properties use, as data | |
| `Policy` | the checks and decisions of the policy engine, and the export path checks, as operators | |
| `DefaultProfiles` | the four profiles that ship | |
| `PolicyEngine` | the policy engine as a service: one call, any valid profile | `Policy` |
| `Governance` | labs, approvals, exports and what reconciliation does to them | `Lifecycle`, `Policy` |
| `ApprovalGate` | the abstract specification of approvals: submit, grant, pass, withdraw | |
| `GovernanceGate` | the refinement mapping from `Governance` to `ApprovalGate` | `Governance` |
| `Scheduler` | the job queue | `Lifecycle` |
| `Maintenance` | leases, runs, destroy retries and what reconciliation does to them | `Lifecycle` |
| `Snapshots` | creating and restoring workspace snapshots, against destroys and guests | |
| `DockerRuntime` | the Docker adapter, the leases it injects, and the runtime inventory of reconciliation | |
| `ReleaseSmoke` | the release smokes of the CLI, and the API server they boot | |
| `GovernanceProofs`, `GovernanceGateProofs`, `SchedulerProofs`, `PolicyEngineProofs`, `MaintenanceProofs`, `SnapshotsProofs`, `DockerRuntimeProofs`, `ReleaseSmokeProofs` | theorems | the module they name |
| `MC...` | small instances, symmetry | the module they name |

### Sessions

`Governance`, `Scheduler`, `Maintenance` and `Snapshots` share one view of the database,
which is external to the repository and modelled from how the code uses it.
A request or a pass is a *session*:

- `Begin...` is what it loads and checks. A request that a check refuses
  before it changes anything is not an action (`ReleaseBlocked`, which records
  an event, is).
- File-system steps follow, one action each, with their failing variants.
- `Commit...` writes and commits everything at once. After the first flush the
  database holds the rows' locks, so nobody else writes until the commit.
  `Net(current, loaded, new)` is the unit of work: a column is written only if
  its new value differs from the loaded one.
- `Abort` ends a session at any point: exception, locked database, crash. The
  rows are as before and the files stay.

With `Sessions = {s1}` the module is the program that serves one request at a
time; with two it is the threaded server. Properties that need the former are
listed apart in each module. Rows a handler reads only in the transaction in
which it writes them (the lab or export of a decision, the export of an
expired approval) are read in `Commit`.

A reconciliation pass loads the labs first and the approvals, leases and runs
immediately afterwards; the model loads them in one step. The separate loads
differ only in that a row created in between is overlooked by one of them and
picked up by the next pass, and that a lab both created and moved to
`destroying` in between would be failed for a missing storage record. The
pass's autoflush before it selects the labs in `destroying` may take the write
lock earlier than the model's `CommitPass` does: the model allows the
interleavings this excludes, and more.

### Governance

`labRow`, `exRow` and `apRow` are the tables; `overdue` says whose `expires_at`
has passed; `tree`, `quarantine` and `released` are the disk; `audit` is the set
of events. At most one approval is ever written for a lab or an export, together
with it, so an approval is named by its resource. File contents, names and
paths are abstracted: a tree is `absent`, `allocated`, `partial` (an interrupted
`rmtree`) or `bare` (made again by `mkdir(parents=True)`), a copy is a pair of
a lab and an export. The rest of reconciliation is in `Maintenance`, and no
lab is in `destroying` here.

### Scheduler

`run_next` marks the job dispatched, runs it in a savepoint and records the
outcome in one transaction, so `dispatched` is never committed. `made` counts
what running a job created, `dispatches` its `scheduler_job.dispatched` events.
Whether the lab or the run can be created is left open. The tie-break by id is
not needed, since `created_at` is modelled as the rank of insertion.

### Maintenance

Labs exist from the start, as `live` (any state but `destroying`, `destroyed`,
`failed`). Nothing in the repository writes `destroying`; `MarkDestroying`
stands for whatever drives the runtime. The pass has a storage destroyer
(`ManagedStorageAllocator` is one). A removal that fails leaves the tree.

### The approval gate

`ApprovalGate` says what approvals are for, in three variables: a resource is not
submitted, free or gated; it may be granted; it may have passed (a lab that is
`approved`, an export that is `released` or whose copy has left quarantine).
`GovernanceGate` reads these off the rows, the files and the audit trail, and
`ImplementsGate` says that every step of every handler and of reconciliation,
however sessions interleave, is a step of the gate or none. Approving twice, or
approving a rejected export, is a second `Grant`: the gate does not say that a
decision is final, which is why it is implemented although
`governance_export_terminal` and `governance_racing_decisions` fail.

### Snapshots

A workspace, an archive and a manifest are sets of files and a state each:
`archive` is `absent`, `partial` or `complete`, `manifest` is `absent`, `torn` or
carries the state of its metadata. `create_snapshot` opens the archive, adds the
workspace, writes the manifest and commits the row; `restore_snapshot` checks,
clears the target's workspace, extracts, rewrites the manifest (two steps,
because `write_text` truncates first) and commits; `destroy_lab` removes the tree
of a lab with the snapshots in it. Each step may fail, removals and extractions
half way. `RefusedFiles` are those that the `data` filter of `extractall` raises
on. A snapshot may be restored into any lab, in any state. `alone` and `history`
are history variables: no other request ran since the session began; what
removals, extractions and interrupted rewrites there have been.

### DockerRuntime

Nothing in the repository calls the adapter yet, so its callers (`Drivers`) may do
anything at any time and die between two calls to the daemon. The daemon is
external: names of networks and containers are unique, `volumes.create` returns
what exists, a mounted volume cannot be removed. Lab rows are abstracted to
`none`, `running` and `destroyed`, one of each kind that `_is_zombie_lab` tells
apart. A pass loads the rows, then lists the containers and commits, or fails.

A lease is looked at three times: `BeginCreate` reads the open ones
(`materialize_runtime_leases`), `BuildEnvironment` asks `is_active` of each while the
arguments of the call to the daemon are put together, and `CreateContainer` is the
daemon making the container, later and with what it was sent. A lease may expire
before each of them. `late` (a history variable of the call) holds those that
expired between the last two, which is the only way an expired secret gets in.

### ReleaseSmoke

Each `smoke-local` names its own API process; `Standing` is an API the operator
runs, which `smoke-docs` and `smoke-cli` talk to. A lab is named by the smoke that
creates it. POST and DELETE are requests in flight: `Send`, then `Answer` (carried
out, and the client told) or `AnswerLost` (carried out, and nobody told), at any
time, also after the client has given up (`RequestFails`). `AfterFailure` is the
`except BaseException` of the smokes and the `finally` of `smoke-local`.

`smoke-local` runs each of its smokes in a process of its own, by `subprocess.run`
(`main.py:242`). The process may die (`SmokeDies`), and then no handler of it runs:
`smoke-local` sees a command that failed and goes to its `finally`, and a lab the smoke
has made stays. An interrupt has three forms. It may reach the smoke, as ^C does,
which then cleans up like after any failure (`Fail`); it may reach `smoke-local`
alone (`InterruptParent`), and `subprocess.run` waits a quarter of a second for the
smoke and kills it (`KillSmoke`), wherever it has got to by then; in the `finally` it
ends the clean-up (`LeaveFinally`). `smoke-cli` sends each request from a further
process, which outlives a smoke that is killed and may send its request afterwards
(`OrphanSends`) or not (`OrphanEnds`).

Each command is interrupted at most once (`interrupted`). `faults` counts what a
command has met, where an interrupt and the kill it leads to are one; `killed` has the
labs whose smoke was killed, `cutShort` the commands whose own clean-up did not
succeed: all three are history variables. Otherwise `smoke-cli` differs from
`smoke-docs` only in its extra reads, which are part of `check` and `read`.

Not modelled: that a command the operator started (`smoke-local` itself, or a direct
smoke) is killed outright, after which nothing can be asked of it; and the instant between the start of
the server and the assignment of its handle (`main.py:649`), in which an interrupt
leaves the server running.

### PolicyEngine

One behaviour is one call, over *every* profile that `validate_combinations`
accepts (`MCProfiles`), not only the shipped ones. Limits and secrets are small sets.
Host paths are classes. `_validate_host_mounts` compares the path as it is written
and resolves nothing, so the classes are by spelling as well as by what the path
leads to: `docker_socket` and `home` are written as the socket or as a path at or below
a home directory; `respelled` leads to one and is written otherwise (a `..`, two
leading slashes, a link); `parent` is a directory above one (`/`, `/var/run`);
`elsewhere` and `malformed` are the rest.

## The runs

| Run | Shows |
|---|---|
| `governance_concurrent` | the gates hold, nothing is stranded, everything is audited, rows have their files, under any interleaving and failure of two sessions; and all of it implements the approval gate |
| `governance_serial` | one at a time: the columns of a row agree, decisions are final, destroyed means gone; and if passes keep running, nothing waits for ever and broken labs are flagged |
| `scheduler_concurrent` | attempts and results under races; the quota is overshot by one at most |
| `scheduler_serial` | one at a time: accounting is exact, a job makes one lab or run, every queued job is finished if dispatch keeps being called |
| `policy_valid` | accepted plans are those asked for, with no mount written as the Docker socket or a home directory; risky work is gated |
| `maintenance_concurrent` | with passes that overlap: the destroy budget is kept, attempts are accounted for, closures are audited, overdue things are closed and destroying ends |
| `snapshots_concurrent` | recorded snapshots keep their files, workspaces are cleared only for an archive and restored exactly, only restores put files into destroyed labs, torn manifests have a cause |
| `runtime_concurrent` | labs keep their network and volumes, networks have an owner, a lease that expired before the environment was built stays out, data is removed only by those entitled to, lingering containers are flagged |
| `release_smokes` | one failure leaves no lab whose id is known unless it kills the smoke, success is earned, the temporary server and its root go together, commands end or wait for pytest |

Runs that are expected to fail show where the code departs from what the
repository says of it (quoted under `findings` in `PROJECT.json`):

| Run | The code |
|---|---|
| `governance_export_terminal` | approving the open approval of a denied export makes it releasable |
| `governance_racing_decisions` | two concurrent decisions both succeed |
| `scheduler_racing_dispatch` | concurrent dispatchers run one job more often than `max_attempts` |

Related behaviour of the models that has no run of its own:

- approving the open approval of a destroyed lab makes its row `approved` again;
  `BrokenLabsAreFlagged` says that reconciliation then fails it;
- `DestroyLeavesNothing` holds of serial requests only: an export staged during a
  destroy puts directories back between the removal and the commit;
- concurrent requests pass the pending-job quota together, by at most one per
  other session (`QuotaOvershootBounded`);
- a valid medium-risk microVM profile with `export_mode` `approval` exports without
  one, because `validate_export` reads `approval_on_export` only, although
  `validate_combinations` says "microVM profiles must require approval-based
  exports"; `RiskyWorkIsGated` speaks of high risk for that reason;
- `docs/threat-model.md:18` says that home-directory mounts and the Docker socket
  "remain forbidden even for opt-in profiles", `SECURITY.md:47-48` and
  `docs/architecture.md:51` likewise; the check refuses only paths *written* as
  these, so of an opt-in profile it accepts `respelled` and `parent` sources.
  `PlansAreWhatWasAsked` names the classes that are accepted, and claims no more.
  No profile that ships opts in, the API asks with no overrides (`app.py:424`), and
  nothing in the repository mounts `host_mounts`: only other callers of the policy
  engine meet the check;
- a lease may be both revoked and expired, if a request and a pass overlap:
  `ClosuresAreAudited` asks for at least one event;
- restoring a snapshot into a destroyed lab refills it
  (`OnlyRestoresRefillDestroyedLabs`), and a snapshot whose archive holds a file
  that is refused leaves the cleared workspace partly filled;
- a manifest torn by a crash makes `GET /snapshots` fail for every snapshot, and
  nothing repairs it;
- a `create_lab` that fails removes volumes that were there before it, with what
  they hold, unless a container mounts them (`WrittenDataIsKept` allows it); a
  lease revoked between `materialize_runtime_leases` and the creation of the
  container is injected all the same, since `is_active` looks at the time only,
  and so is one that expires after `is_active` was asked;
- an interrupt of `smoke-local` alone, or the death of its smoke, leaves the lab on
  whichever API it was made; it goes with the temporary server, unless another
  API has taken the port;
- a `smoke-local` that loses its port runs its smokes against whoever has taken
  it, and may succeed; a Docker smoke that is skipped because Docker has gone
  since the probe counts as passed;
- reconciliation takes runs from `queued` to `timed_out`, as
  `docs/architecture.md` says and `RUN_TRANSITIONS` does not allow.

Bounds. Two sessions are enough for the races: every handler touches one
resource, and each race is between one stale reader and one writer. One lab
and one export keep the state space complete (no depth limit); the proofs cover
more of each. The profiles
`safe-dev` (nothing gated) and `research-persistent` (exports gated, labs gated
for automation), and `red-zone` (everything gated) where labs matter, give every
combination of gates. `Governance` and `Maintenance` need no other bound:
ids are finite sets, and flags stand for times. In `Scheduler`, `Horizon` bounds
the clock, `MaxDispatches` the dispatches of one job that are explored (more
than `MaxAttempts`, so that too many is reachable), and `MaxAttempts` is both
the code's parameter and a bound. Its runs do not check for deadlock, because
the queue really stops when all ids are used and all jobs finished; neither do
those of `PolicyEngine`, a behaviour of which is one call. `Snapshots` has a lab whose guest runs and one whose guest does not, one
snapshot of the first, a file that can be extracted and one that is refused: a
restore into its own lab or into the other one, and two sessions, give every
race on an archive; it does not check for deadlock because ids run out.
`DockerRuntime` has a networked lab with a row and a lease, and one with neither,
that mount the same volume, and two callers. `ReleaseSmoke` has one `smoke-local`, one
direct smoke and two ports, so that a port can be free, taken before or after it was
chosen; each command is interrupted at most once, and `faults` needs no bound, since
every failure moves a command towards its end.
`PolicyEngine`'s
requests override one locked field and mount one path at most, as each is
checked on its own.

Fairness. Nothing in the repository runs reconciliation or dispatch on its
own, so liveness is conditional on an operator who does: `Fairness` says that
passes (dispatches) keep being started whenever a session is free again and
again, that they do not all abort, that a started request ends one way or
another, and that time goes on. No fairness is assumed of requests or
decisions. `DockerRuntime` assumes the same of passes (`SF` of the commit, since some
fail) and nothing of the callers. `ReleaseSmoke` assumes that a command that runs goes
on, except at `pytest`: requests have a deadline of 10 seconds, the wait for the API one
of 15, each wait for the server to stop one of 5, and the probe's ping that of the
Docker client. `subprocess.run` has none. A smoke it waits for (`main.py:242`) is made of
requests that have, so it ends; pytest (`main.py:271-278`, called at 384) is not, and a
daemon that hangs keeps it waiting for ever. No fairness is assumed there, and
`CommandsEnd` says that a command ends or waits at `pytest`. Nothing is assumed of
servers or of the network.

## The proofs

Every safety property of every passing run is also a theorem, for every value of
the constants: any sets of labs, exports, jobs, requesters, snapshots, files,
volumes, leases, callers, commands, ports and sessions, any limits, any registry
of profiles that `validate_combinations` accepts. The definitions the proofs rest
on beyond the properties are in the modules themselves, in the sections on what
sessions may rely on (*Why: ...*), and were checked with TLC before they were
proved.

Each proof has the same shape. A property is seldom inductive, because a session
acts on what it loaded earlier; `IndInv` adds what the session may still rely on.
The proof module first says, one variable at a time, which steps write it and how,
and what a step does to the session it belongs to; then it has one lemma per
conjunct of `IndInv`, split by those cases; the theorems follow from
`Spec => []IndInv`.

`GovernanceProofs`: `TypeOK`, `ReleaseRequiresApproval`, `GatedLabsNeedApproval`,
`BlockedResourcesHaveOpenApproval`, `RecordedCopiesExist` and
`EveryOutcomeIsAudited`. `IndInv` consists of

- `RowsWellFounded`: rows refer to rows that exist;
- `SessionsWellFounded`: a session that creates a lab or an export is the only
  one with its id; one that decides, releases, denies or destroys works on a
  row that exists; and a reconciliation pass, however stale, holds the labs of
  the approvals it expires, none of which became pending since;
- `GateInv`: a gated export loses `approval_required` only to an approval or
  together with its chance of a release, and a release that has passed its
  check acts on an approval;
- `CopiesInv`: the copy a session has made is there while the tree is intact.

`EveryOutcomeIsAudited` needs only the types: events are never removed, and
whoever writes a state adds its event in the same commit.

`RecordsAgree`, `DecisionsAreFinal` and `DestroyLeavesNothing` are false of
concurrent sessions (`governance_racing_decisions` is such a behaviour) and proved
under the hypothesis `Serial`, that there is one session: `SerialInv` says that
what it loaded is then still in the rows when it commits.

`GovernanceGateProofs`: `Governance` implements `ApprovalGate`. The initial states
map to `Gate!Init`, and each step is mapped by what it does to a row: a commit of a
new row to `Submit`, of an approval to `Grant`, the copy out of quarantine or the
commit of a release to `Pass`, and all others to `Withdraw`, of which leaving
everything as it is is a special case. That a `Pass` finds its grant is `GateInv`,
that a `Submit` finds a fresh id is `SessionsWellFounded`; that a `Grant` is of an
export whose gate is closed is `RequestedExportsNeedApproval`.

`SchedulerProofs`: `TypeOK`, `AttemptsBounded` and `ResultsAreReal`, from
`HoldsRunnableJob` (the row a dispatcher loaded had an attempt left, and
`max_attempts` has not changed), `OwnsNewJob` and `NothingMadeBefore`.
`QuotaOvershootBounded` is a counting argument: `Claimed(r)` is the set of jobs of r
that are pending or that a session is about to enqueue or to put back; a session
enters an enqueue only below the quota, when at most every other session has
claimed one more (`ClaimsBounded`). `JobAccounting`, and `DispatchesBounded`, which
`scheduler_racing_dispatch` refutes for two sessions, hold under `Serial`.

`PolicyEngineProofs`: `PlansAreWhatWasAsked` and `RiskyWorkIsGated`. The invariant is
`Answered` (the verdict is one that `validate_request` or `validate_export` gives for
the profile); the rest unfolds the checks, and for the second what `validate_combinations`
excludes of a profile.

`MaintenanceProofs`: `RetryBudgetKept`, `ClosuresAreAudited` and
`RetriesAreAccountedFor`. `PassWellFounded` relates a lab as a pass loaded it to the
row as it is by now: the row may have moved on, and never back, so that writing
only the columns that differ cannot lose an attempt.

`SnapshotsProofs`: `TypeOK`, `RecordedSnapshotsAreKept`, `ClearedOnlyForAnArchive`,
`RestoresAreExact`, `OnlyRestoresRefillDestroyedLabs`, `TornManifestsHaveACause`.
`NamesWellFounded`: a snapshot in the making is its session's own and has no row.
`FilesBeforeRow`: its files are complete before its row, unless the lab's tree is
removed. `AloneIsAlone` and `UndisturbedRestores`: what a restore that is alone has
found is still there.

`DockerRuntimeProofs`: `LabsKeepTheirResources`, `NetworksHaveAnOwner`,
`ExpiredSecretsStayOut` and `WrittenDataIsKept`. `NetworksAreOwned`: a network belongs
to the container or to a single caller (`Owns`), or was left behind. It carries the
argument that `created_network.remove()` takes a network from nobody else:
`check_duplicate` lets no caller have a network that exists, and a caller that
destroys gets it together with the container. `CallsWellFounded`: what a caller
carries is its lab's, and once the environment is built, a lease in it that has
expired did so since.

`ReleaseSmokeProofs`: `LeftoversHaveACause`, `SuccessIsEarned` and
`NothingOfLocalIsLeft`. `CreatedOnce`: one POST is sent for a lab, and none is under
way once it was answered, so that a lab that was destroyed is not created again by
a late request. `FailuresAreCounted`: a lab that is live and known has its smoke at
work on it, or two failures were met, or one, and its smoke was killed. `ServersHaveRoots` gives the order of
smoke-local's clean-up.

Assumptions, all of which TLC evaluates: `GovernanceAssumption` (ids are distinct),
`RegistryAssumption` (the registry holds valid profiles), `SchedulerAssumption`
(limits are naturals, sessions are finitely many), `SnapshotsAssumption` (a snapshot
is of one lab; labs and snapshots have different names), `DockerRuntimeAssumption`
(a lab mounts volumes, a lease is of a lab), `ReleaseSmokeAssumption` (commands and
the standing API have different names) and `MaintenanceAssumption` (a removal is
tried at least once).

Only model-checked: liveness, which is out of the prover's reach
(`BlockedResourcesResolve`, `BrokenLabsAreFlagged`, `QueuedJobsFinish`,
`OverdueIsClosed`, `DestroyingLabsFinish`, `LingeringContainersAreFlagged`,
`CommandsEnd`).

## What is not modelled

The endpoints and commands that only read or pass one request on, `release
readiness` and `evidence`, which report what git and the probe say (a `git status`
that fails is reported as a clean tree), settings, request validation and
migrations. `exec_run`, `get_logs` and `inspect_lab` of the adapter, which keep
nothing. Contents of files, commands, payloads of events and wording are
abstracted everywhere. The modules share the lab rows without being composed:
each has the handlers that write what its properties speak of, and leaves the
other columns open.

## Plan

What the safety properties leave to prove: that `ExportTerminalStatesAreFinal` holds
where an export's approval is decided first, and what concurrent sessions keep of
the serial properties.
