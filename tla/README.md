# sandbox-forge-mcp in TLA+

Models, model-checking runs and machine-checked proofs for the MCP server in
`src/lima_mcp_server`. Paths below are relative to the repository, and
`service.py`, `db.py`, ... stand for `src/lima_mcp_server/service.py`, ...

1. [The system](#1-the-system)
2. [Modules](#2-modules)
3. [Runs](#3-runs)
4. [Proofs](#4-proofs)
5. [Disagreements between code and docs](#5-disagreements-between-code-and-docs)
6. [Not modelled](#6-not-modelled)
7. [Plan](#7-plan)

## 1. The system

One server process (`server.py: main`) holds one `LeaseService` over one SQLite
database and one VM backend. Three threads enter the service: the stdio
transport on the main thread, the streamable-http transport on a daemon thread
and the sweeper. Every tool is a synchronous function that runs on the event
loop of its transport, so a transport runs one call at a time; the two
transports and the sweeper interleave freely, because nothing locks the
service. Each method of `LeaseStore` opens its own connection and is one
transaction. No transaction spans two store calls, and between two of them a
call may spend minutes in `limactl`, PowerShell or `ssh`. When the process dies,
all threads die with it; rows, VMs and the processes of background tasks do not.

| component | state | operations | what makes it correct |
|---|---|---|---|
| lease lifecycle (`service.py`, `db.py`) | table `leases`; VMs of the hypervisor | create, list, lookup, use, extend, destroy | VMs are tracked by a row; the number of active instances is bounded; terminal leases stay terminal; an expiry only grows |
| sweeper (`sweeper.py`, `expire_expired_leases`) | the list it works through | select, stop, delete, mark | active leases past their expiry are expired, live ones are not |
| background tasks (`service.py` 851-891, 2376-2543) | table `tasks`; runner processes; log and exit-code files | start, status, logs, stop | the reported outcome is the outcome of the command; an outcome once reported does not change |
| workspace preparation (`service.py` 1252-1342, 1425-1737) | docker runtime, network and service containers in the VM | prepare_workspace and its steps | a retry after a failure at any step completes the work; existing services are reused |
| environment files (`service.py` 1344-1423) | `.env` files in the workspace | grouping of variables by file; read, change, write back | the variables of every service arrive; all other lines stay |
| images (`service.py` 573-849, 1844-2083) | cached images and their labels; the build context | docker_build, validate_image | a cached image is reused only when its labels match the workspace |
| workspace sync (`service.py` 1739-1842) | the archive in a temporary file; the copy in the VM | sync to and from the instance | what is not excluded arrives as it is; what is excluded stays |
| artifacts (`service.py` 2545-2586) | files in the target directory | collect_artifacts | each requested path has its own target |
| workspace configuration (`workspace_config.py`) | none; read anew by each call | merge of defaults, files and overrides; validation | the source of the highest precedence that sets a key wins, key by key; invalid values are refused |
| backends (`backend/`) | virtual machines, their settings and disk files; the scripts that work on them | create, start, list, shell, copy, stop, delete | what an answer ok of each command says is true; nothing half made is started; a deletion can always be repeated |
| server and configuration (`server.py`, `config.py`, `backend/factory.py`) | threads | start-up, transports | the sweeper runs whenever the server does |

Hard behaviour, and where it is: calls of two transports interleaving between
store transactions (lease lifecycle, tasks, workspace preparation) or between the
read and the write of a file; a sweeper that
works from a snapshot; a server that dies between the insert of a row and the
creation of what it stands for, or the reverse; backend commands that fail or time
out after having had their effect; processes that outlive the server and files
they write while a status call reads them; expiry racing extension. `PROJECT.json`
lists each hazard at its line.

## 2. Modules

### LeaseLifecycle

Time is a natural number, the whole seconds in which timestamps are stored
(`to_iso8601` drops the rest, so text comparison in SQL and date comparison in
`_is_expired` agree); the unit of the model stands for whatever grid the
interesting times lie on.

| variable | code |
|---|---|
| `lease` | the rows: `status` and `expires_at`; an id without a row has `NoRow` |
| `vms` | the VMs the hypervisor has; a row's `backend_instance_name` is determined by its id |
| `call[c]` | the tool call caller `c` is in: where (`pc`), which tool (`op`), its instance, the time captured on entry (`stamp`), the rows it has read (`rows`) |
| `sweep` | the sweeper's pass: where, the lease in hand, the rest of the list it read |
| `available` | `backend.available`, probed once when the process starts |
| `outlived` | creations and deletions at work in a process of their own whose server died |
| `late` | for the properties: the instances whose VM is one that such a creation made |
| `now`, `restarts` | clock and number of crashes, bounded by `Horizon` and `MaxRestarts` |

An action is the stretch of a call from one store transaction or backend command
to the next; the table gives the order.

| tool | actions |
|---|---|
| create_instance | `CountActive`, `RefuseForCapacity` or `InsertLease`, `CreateVm`, `StartVm`, `PublishRunning`, then with auto_bootstrap `BootstrapLookup`, `Resolve`, `Use`; `MarkError` from any backend failure |
| run_command, copies, docker tools | `Lookup`, `Resolve`, `Use` |
| extend_instance_ttl | `Lookup`, `Resolve`, `ExtendTtl` |
| destroy_instance | `BeginDestroy`, `StopVm`, `DeleteVm`, `MarkDestroyed` |
| list_instances | `BeginList`, then `NormalizeNext` for each row |
| expire_expired_leases | `SweepSelect`, then `SweepStop`, `SweepDelete`, `SweepMark` for each lease |

The capture of the time and the query that follows it at once (`utc_now` then
`count_active`, or then `list_expired_active`) are one step. A call that is
refused without touching the store is the absence of a step. A failing backend
command may or may not have had its effect: `_run` turns a timeout into the same
error as an exit code. Stopping a VM that does not exist fails with limactl and
succeeds on Hyper-V, so both are possible. Store operations are assumed to succeed.
`Restart` ends the calls and the pass, but a creation or deletion at work is a process
that may go on; it has its effect at any later time or never (`LateCommand`).

### SlotAdmission

What the store promises about host slots, with no calls, clock or rows: an instance
is admitted once, only while fewer than `Limit` hold a slot, and never again after
it gave the slot back. `LeaseLifecycle` implements it with
`Limit = MaxInstances + |Callers| - 1`.

### BackgroundTasks

A background task is three things that live on their own: a row, a runner process
and the files the runner writes. POSIX semantics; what the log contains is left out.

| variable | code |
|---|---|
| `task` | the rows: `status`, `exit_code` (`ok` is 0, `error` any other code, `signal` the code `stop_task` makes up) and `note`, the kind of `error_message` |
| `runner` | the Python process `start_background_task` spawns: `waiting` for its command, `writing` its marker, then `zombie`, `reaped`, or `reused` when its pid went to another process |
| `command` | the backend shell process below the runner, and the code it ended with |
| `marker` | the exit-code file: `absent`, `empty` (opened, not yet written) or a code |
| `child` | whether the runner is a child of the running server; after a restart init reaps it at once |
| `call[c]` | the tool call in progress, its task, and the code it read |
| `enable_http` | `MCP_ENABLE_HTTP`: whether the second transport is served, fixed at the start |

| tool or process | actions |
|---|---|
| start_background_task | `StartRunner` (Popen), then `InsertTask`: the process comes before its row |
| get_task_status, get_task_logs | `GetTask`, `CheckMarker` (does the file exist), then `ReadMarker`, `WriteOutcome`, or `CheckPid`, and `WriteDead` when the pid is free |
| stop_task | the same refresh, then `Kill`, `WriteStopped`; `KillRefused` when the pid went to another user's process |
| the runner | `CommandEnds`, `OpenMarker`, `WriteMarker` (and exit); `RunnerDies` |
| the operating system | `Reap` (Python polls left-over children when it starts a subprocess, if it ever does), `ReusePid` |
| the server | `Restart`: calls are gone, runners are orphans |

`GetTask` takes a row that is not terminal; for a terminal one the tools return
without touching anything, which is the absence of a step. That row is the snapshot
every later step of the call relies on, and `update_task` has no condition in its
`WHERE` but the id: here two transports can overwrite each other.

### ImageCache

`docker_build` as a cache in front of a build. A workspace is a commit and the kind
of edit made since: of tracked code, of the dependency files or their removal
(`no_deps`, where there is no hash), a file added, one that git ignores, or none. From
it follow the parts of a fingerprint - the commit, whether it is dirty, the hash of the
dependency files and that of the tracked files - and, apart from them, the tree of files
it stands for (`Contents`), in which each commit has a file of its own. What is in a tree
and in no part of a fingerprint, like an ignored file, can differ between equal
fingerprints.

| variable | code |
|---|---|
| `host` | the workspace on the host, read by `_workspace_state` |
| `copy` | the tree in the guest, the context `docker build` uses: nothing before the first sync, then what syncs unpacked one over the other (`Unpacked`) |
| `images` | tag to image: the tree and target it was built from, its labels, whether the fingerprint it was built with was disturbed |
| `call[c]` | the build: the settings, fingerprint `state`, the validation's second fingerprint `seen`, the expected tag; for the properties, the workspace as the call found it (`begun`) and whether it was edited, or git failed, before its fingerprint was complete, or the guest's tree lacked tracked files of it (`disturbed`) |
| `builds`, `edits`, `faults` | bounds |

A fingerprint is taken part by part, as in `_workspace_state`: `BeginBuild` reads the
commit, `ReadStatus` whether it is dirty, `ReadDependencies` the dependency files and
`ReadTracked` the tracked ones (with the `content_hash` strategy only). Each git command
may fail or time out, and then reads as `_run_local_command` makes it read: no commit,
clean, no tracked files. `ExpectTag` makes the tag; then `Look` (validation disabled) or
`Recapture`, `RecaptureStatus` and `RecaptureDependencies`, the second fingerprint, and
`Inspect` (the validation, with its recommendation to build or to refuse), `Reuse`, or
`Build` and `TagCached`; `Abort` where a command in the guest fails. Between any two of
these steps the workspace is edited, committed or checked out (`Edit`), synchronised by a
transport that is not building (`Sync`: files are added and replaced, but for those
`Excludes` names, and none is removed), and images are removed (`RemoveImage`). The
settings are records with the keys of `DEFAULT_WORKSPACE_CONFIG`. Whether an image is
older than `check_age_threshold_hours` is open at every look; the files of one pattern, or the tracked
ones, are read in one step; hashes do not collide; an edited Dockerfile counts as edited
code; branch and timestamp are left out, and so are workspaces that have no repository.

### WorkspaceServices

Docker in the guest of one instance. One command in the guest is one step, and it
may fail before or after its effect (`Fault`); an effect that arrives only after
the timeout was reported is not modelled.

| variable | code |
|---|---|
| `docker`, `runtime_ready` | the runtime in the guest; the column of the lease row that says it is there |
| `network` | whether the infra network exists |
| `cont` | each container: `none`, `created`, `running`, `stopped`, `gone` (a compose container that was removed; ids are never given twice) |
| `joined` | compose containers attached to the infra network |
| `ready` | services that answer their readiness probe |
| `call[c]` | the call: `all` containers it is about, those `todo` in its loop, the one it is at (`cur`) |

| tool | actions |
|---|---|
| prepare_workspace | `BeginPrepare`, `PrepareRuntime`, `RecordRuntime`, `InspectNetwork`, `CreateNetwork`, per service `InspectService` and `StartService` or `RunService`, then `Probe` until `WaitOver`, `Answer` |
| docker_compose | `BeginTool`, `EnsureRuntimeReady`, `Compose`, then with the bridge `InspectNetwork`, `CreateNetwork`, `ListApps`, per container `InspectApp` and `ConnectApp`, `Answer` |
| docker_cleanup, the safe cleanup of docker_build | `BeginTool`, `EnsureRuntimeReady`, `Cleanup` |
| the guest | `BecomesReady`, `StopsByItself`; `Dies` ends a call between any two commands |

The three services are looked at in an order the model leaves open. What docker does
with names, networks and `prune` is external and taken from how the commands in
`service.py` use it: a name can be used once, a network can be created once, a
container starts only when its network exists, `prune` removes what does not run.
Connection variables and `.env` files are in `WorkspaceFiles`.

### VmBackend and HyperVBackend

`VmBackend` is what the service takes any backend for: a command is given, has its
effect at some moment and is answered; ok says that the machine was where the command
brings it at some moment in between, an error says nothing, and a command whose
caller died may act at any later time. A deletion may leave a `hollow` machine, turned
off and without a disk, which nothing can start; an ok to a stop says nothing. `HyperVBackend` has the PowerShell scripts,
cmdlet by cmdlet, under the service's calls on one instance, and refines it.

| variable | code |
|---|---|
| `vm`, `settings`, `disk` | what the host keeps: the machine, what `Set-VM` has set of it, the file of the differencing disk |
| `script[<<c, "live">>]` | the script that client `c` waits for: its command and the cmdlet it is at |
| `script[<<c, "orphan">>]` | the one that went on when its server died |
| `job[c]` | the service's call: create then start, or stop then delete (`destroy`, `sweep`) |
| `lease` | `status` of the instance's row |

| command | actions |
|---|---|
| create_instance | `CheckName`, `NewVhd`, `NewVm`, `SetVm` twice |
| start_instance | `StartVm`, then the server's own `WaitForIpv4` |
| stop_instance | `FindVm`, `TurnOff` |
| delete_instance | `FindVm`, `TurnOff`, `RemoveVm`, `RemoveDisk` |
| any | `Exit`; `Throw`: a cmdlet fails, or the timeout kills the script between two |
| the service | `BeginCreate`, `Created`, `Started`, `CreateFailed`; `BeginDestroy`, `BeginSweep`, `Stopped`, `Destroyed`, `DestroyFailed`, `Swept` |
| around them | `GuestPowersOff`; `Crash`, which leaves the scripts that have not ended |

Where the script has `$ErrorActionPreference = 'Stop'` a failing cmdlet ends it; the
start script does without, and `Stop-VM` and `Get-VM` are called with
`SilentlyContinue`: `StartVm` and `TurnOff` may do nothing and go on, and a `Get-VM` that
fails is taken for no machine (`FoundNone`), so a creation goes on to make its disk and a
deletion removes the disk, leaves the machine and prints `deleted`. Refusals are those of Windows: a
disk or machine that exists is not made again, a running machine is not removed, a
file in use is not deleted. One instance stands for all, whose names and files are
disjoint.

### WorkspaceFiles, WorkspaceConfig and EnvFile

The tools that move files between the workspace and an instance. `EnvFile` has the
lines of an `.env` file and the upsert; `WorkspaceConfig` the layers of the
configuration, their deep merge and the validation.

| variable | code |
|---|---|
| `host` | the files of the workspace, the lines of `.env` files and the version of others |
| `guest` | `remote_path` in the instance |
| `dest` | the target directory of artifacts: the remote path whose file each name holds |
| `call[c]` | the call: the settings it found, what it has left to do (`todo`), the lines it read, the archive it makes, the targets it chose; `touched` records the paths others have changed since it began |
| `calls`, `edits`, `faults` | bounds |
| `enable_http` | as in `BackgroundTasks` |

| tool | actions |
|---|---|
| each | `LoadFails` where the configuration is refused; `Answer` |
| prepare_workspace | `BeginPrepare`, `Prepare`, then for each file `ReadEnv`, `TruncateEnv`, `WriteEnv`; `EnvFails` |
| sync_workspace_to_instance | `BeginSync`, `Sync`, `ArchiveFile` for each path, `CopyArchive`, `Extract` |
| sync_instance_to_workspace | `BeginBack`, `CopyBack` |
| collect_artifacts | `BeginCollect`, then for each path `ChooseTarget`, `CopyArtifact` |
| around them | `Edit` by the user; `Crash` |

`Path.write_text` opens the file, which empties it, and then writes: two steps, with
the lines read before both. `tarfile` lists a directory when it gets to it and reads
each file when its turn comes, so an archive is not the workspace at one time. Each call
finds any settings an accepted configuration can give, as the files may change between
calls. Left out: the services themselves (`WorkspaceServices`), the several
variables one service has (one key stands for them), directories in a copy back or
among artifacts, and the order in which `tar` in the guest interleaves with a second
one (unpacking is one step, or stops after some path). In `WorkspaceConfig` three
settings - a flag, a flag in a nested table and a text that may be null - stand for the
others, and a key nobody knows for all unknown ones.

### The other modules

`MC...` modules name the symmetry sets and the sets of values the configurations
use; a module whose configuration needs none is run as it is. `...Proofs` modules hold the theorems (section 4). The modules do not share
state: the tables are disjoint but for `runtime_ready`, and a tool that needs an
instance does so through the lookup modelled as `Lookup` and `Resolve` in
`LeaseLifecycle`.

## 3. Runs

Every configuration is run as `tlc -config X.cfg M`; `PROJECT.json` names the
pairs.

| run | bounds | what it shows |
|---|---|---|
| `lease_admission` | 2 transports that create, extend and list, 3 instances, limit 1, a start fails only where the sweeper took the VM, 1 restart, which may leave a command at work, horizon 1 | the limit is exceeded by one and never by two; the leases refine `SlotAdmission`; every VM has a row; statuses move forward |
| `lease_one_transport` | 1 transport, 2 instances, all tools, all failures, horizon 2, 1 restart, backend present or missing | the limit is exact; a destroyed lease has no VM but one that a creation made which outlived its server; an expiry never shrinks; an overdue lease is swept |
| `expired_vm_leak` | 1 transport, 1 instance, nothing fails | refutes: the VM of an expired lease is deleted |
| `sweep_race` | 1 transport, 2 instances, nothing fails | refutes: the sweeper expires only leases whose time is up |
| `tasks` | 1 or 2 transports, 1 task, deaths, pid reuse, 2 restarts | no outcome before the command ended; a stored failure is true; rows and runners match; with one transport a row tells one story and is final; every task is resolved, except while its pid is a zombie's or another process's |
| `image_cache` | 1 transport, 2 commits, 2 builds, 2 edits (of code or removing the dependency files, or to another commit), 1 git command that fails, three settings | hits have the labels that are asked for; under strict validation with content hashes they have the tracked files of a clean workspace unless one of the two calls was disturbed |
| `image_other_target` | 1 transport, 1 commit, 2 targets, 1 build | refutes: a hit was built for the target asked for |
| `services_two_clients` | 2 transports, 2 services, 2 compose containers, 1 failure, 1 container stops | what an answer says of containers and network is true |
| `services_retry` | 1 transport, 2 services, 2 failures, 1 container stops | repeated preparation completes from wherever a call left off |
| `hyperv` | 1 transport and the sweeper, 1 failure or timeout, 1 crash | the scripts refine `VmBackend`; a machine that runs is fully set up; a destroyed instance has no disk and cannot run; repeated destruction clears the host |
| `workspace_files` | 1 or 2 transports, 5 paths, 2 calls, 1 edit, 1 failure or crash | the source of highest precedence wins; variables are merged into `.env` files without harm and arrive; a sync brings what it says and leaves out what is excluded below the top; artifacts of one request do not overwrite each other |
| `sync_git_excluded` | 1 sync, nothing else | refutes: without include_git no archive has anything of a `.git` directory |

**Why the bounds are enough.** Two transports are all the program has. Races are
between two calls, or a call and the sweeper, on one instance, task or service; a
second instance or service is there so that loops have something left to do, and in
`lease_admission` a third so that an overshoot of two would be possible. `MaxTTL`
and `Horizon` of 1 put every instant a call may capture before, at or after an expiry;
2 leave room for an extension of what was extended. One restart separates what a
dead process left from what the next one does; in `tasks` a second lets the restarted
server die as well. In `hyperv` one failure leaves any prefix of any script behind and
one crash any script running on; what follows in either case - a retry of the
destruction, the sweep - is not bounded. Two calls in `workspace_files` are two
writers of one file, a sync after or during an injection, or two collections into one
directory; the one edit falls between any two of their steps. Two builds give a call an
image that another call made under other settings or sources, and two edits, each
to any commit, let what was edited be taken back, or both fingerprints of
a hit be torn; the other kinds of edits and syncs that leave files out are in the
proofs only. Two failures in
`services_retry` let a retry fail as well.

**Symmetry** permutes instances, callers, commits, services and compose
containers where no definition tells them apart; runs with a liveness property do not
use it, and those of `HyperVBackend` and `WorkspaceFiles`, whose callers are told
apart, do without. `NoGit` is not permuted with the commits.

**Deadlock** is checked in the runs of `ImageCache` and `WorkspaceServices`. It is
off in the others: the clock stops at its bound, ids, calls and edits run out, an
instance that was destroyed may be left alone and callers need not call, so an
idle server at the end of the bounded time is not a deadlock.

**Fairness.**

- `LeaseLifecycle!FairSpec`: weak fairness of the sweeper, whose thread loops for as
  long as the process does (`sweeper.py: run`), and whose backend commands have
  timeouts. Nothing is asked of callers. `FairCallSpec` adds that a call once begun
  goes on, which holds of synchronous functions with timeouts; `expired_vm_leak` uses
  it so that its counterexample is not a call that hangs.
- `BackgroundTasks!FairSpec`: runners and commands run on; calls go on; clients keep
  asking for the status of each task. Nothing is assumed of `Reap`: the server
  reaps when it happens to start another subprocess, and a status call starts none. A
  runner that died without a marker stays a zombie until then, whose pid answers, and
  its task shows as running, for ever if only statuses are asked for. The same goes for a
  pid that went to another process. `TaskIsResolved` exempts a task while it is in one
  of these two states, so it says that the task is resolved once it is out of them.
- `WorkspaceServices!FairSpec`: guest commands return or time out; a client keeps
  asking for the whole workspace (`SF` because a call in progress disables it).
- `HyperVBackend!FairSpec`: cmdlets end, as scripts have timeouts; calls go on; a client
  keeps calling destroy_instance.

**What holds only with one transport**: `DestroyedLeaseHasNoVM`, `ExpiryNeverShrinks`,
`RowConsistent`, `FinishedStaysFinished`, `TagNamesState`, `HitMatchesLabels`, `HitIsCurrent`,
`PreparedMeansInjected`, `SyncedIsCurrent`, `ArtifactsAreTheirOwn` and `DestroyedCannotRun`. With two, one
call's unconditional update lands on another's (section 5). The runs of
`BackgroundTasks` and `WorkspaceFiles` choose `enable_http` at the start and state
these properties for the servers without it; the other modules have runs with one
caller. `PreparedMeansRunning` is about
containers that did not stop by themselves.

## 4. Proofs

`tlapm M.tla` proves each of the following for all values of the constants.

| module | theorems |
|---|---|
| `LeaseLifecycleProofs` | `TypeCorrect` |
| `LeaseAdmissionProofs` | `AdmissionBounded`, `OvershootBounded`, `ImplementsAdmission` |
| `LeaseStatusProofs` | `EveryVMTracked`, `StatusForward`, `DestroyedIsGone`, `ExpiriesGrow` |
| `BackgroundTasksProofs` | `TypeCorrect`, `OutcomeFollowsCommand`, `FailureIsTrue`, `RunnersMatchRows`, `RowsAreConsistent`, `OutcomesAreFinal` |
| `ImageCacheProofs` | `TypeCorrect`, `TagsTellLabels`, `HitsMatchLabels`, `HitsAreCurrent` |
| `WorkspaceServicesProofs` | `TypeCorrect`, `PreparedIsTrue`, `BridgedIsTrue` |
| `HyperVProofs` | `TypeCorrect`, `RunningIsConfigured`, `ScriptsImplementBackend`, `DestroyedStaysDown` |
| `WorkspaceFilesProofs` | `TypeCorrect`, `PatternsKeepOut`, `SyncBringsAll`, `TargetsAreDistinct`, `VariablesAreInjected`, `WritesMerge`, `LastWordDecides` |

Between them they state every property of the passing runs but the liveness
properties.

**Assumptions** are the named ones of the modules, which TLC evaluates in each run:
`LeaseAssumption` (finite instances and callers, at least one caller, positive limit and
TTL), `TaskAssumption`, `CacheAssumption`, `ServicesAssumption`, `HyperVAssumption`,
`FilesAssumption` (paths, file names and requests are not empty, contents are lines)
and `TargetsAssumption` (an injection target is one of the workspace's paths). Six
theorems have hypotheses of their own. `OneTransport`, any two callers are the same, is one of
`TagsTellLabels`, `HitsMatchLabels`, `HitsAreCurrent`, `ExpiriesGrow`, `DestroyedIsGone` and
`DestroyedStaysDown`; with two transports what they state is false (section 3).
`HitsAreCurrent` asks as well that the name a caller asks for is not one made from a
fingerprint. `BackgroundTasks` and
`WorkspaceFiles` have the one transport in the property, as `~ enable_http`.

**Admission.** `OvershootBound` is not inductive: a row that the count no longer sees,
because it has expired, may be put back by an extension or by the publication of
its creator, and a call that has counted will insert whatever happens in between. So
the slots are counted as `Admitted` (active and alive, or about to be made so) and the
calls past the count as `Admitting`; `AdmissionBound` says that both together stay
within `MaxInstances + |Callers| - 1`. A call enters `Admitting` only when the
active instances are fewer than `MaxInstances`, and what is `Admitted` without being
active is on behalf of another caller: `HoldersBound` maps each such instance to the
caller that holds it. From there on every step only moves one from `Admitting` to
`Admitted`, or releases. The refinement of `SlotAdmission` follows: the insert is
`Admit`, and no other step adds to `Admitted`, because an extension holds its
instance from the moment it is looked up alive.

**Status.** `StatusMovesForward` needs that a row still `creating` or about to be
published belongs to one call: `CreatorInv` says that a creating call's instance is not
created by another, and which statuses it may meet.

**Destroyed leases.** `DestroyedLeaseHasNoVM` needs `GoneInv`: the one caller is not about to
make the VM of a row that is destroyed, nor to report a destruction whose VM is
there, but for a VM in `late`. The sweeper deletes VMs and makes none; a creation that
outlived its server makes one (`MakesLate`), and the lease it belongs to may say destroyed
by then. `ExpiryNeverShrinks` needs
`ReadInv`, that the expiry a call decides on is the one the table has: with two
transports it is the one of an earlier look, and the later extension takes the earlier
back.

**Tasks.** `TaskInv` is `TypeOK`, `ProcessInv` (marker, runner and command agree: a
marker that is not absent means the command has ended, and a written one carries its
code), `CallInv` (what a call has read is still true, as processes do not go back) and
`RowInv` (what was written is). The three theorems are conjuncts or consequences.

**Outcomes.** Neither `RowConsistent` nor `FinishedStaysFinished` is inductive: a call
that read a running row writes whatever the row is by then. `OutcomeInv` says of a
server without http that only stdio has a call in progress, that the row of this call
is still as the call found it, and that every row is one of five stories. A write then
takes a running row to a story that has an end.

**Images.** `CacheInv` adds to `TypeOK` and `TagNamesState` that the tag of a call, once
its fingerprint is complete, was made from the fingerprint it carries, and that between `Build` and
`TagCached` the image at `ImageTag` is labelled with the call's fingerprint, which is
where `OneTransport` is needed. `SeenInv` adds that an image about to be reused
agrees with what the validation saw; between the two it can only be removed. For
`HitsAreCurrent`, `CallsFresh` says that a call that was not disturbed has the fingerprint of
the workspace it began with and a guest's tree that has the tracked files of it
(`Has`), and `ImagesFresh` that a tag made from a fingerprint names an image whose tree
has those of some workspace with that fingerprint, unless its build was disturbed. A hit on a
clean workspace then compares two fingerprints of clean workspaces at one commit,
whose tracked files are the same (`CleanAlike`).

**Services.** `ServicesInv` is `TypeOK`, `GuestInv` (while anything runs or is joined the network
is there, and what is joined is not removed) and `CallInv` (what a call already went
through is done). `CallInv` is about all calls while one steps, so each step is shown
to have `Kept`: it takes nothing from the guest that the other calls rely on. That
cleanups only remove what does not run, and the network only when nobody is on it, is
what the proof comes down to.

**Hyper-V.** `StartedIsConfigured` is about a machine that several scripts work on.
`MachineInv` adds that each script is at one of the cmdlets of its own command
(`PlaceInv`); that at most one process, live or orphaned, makes or starts the machine, as
a row is created once (`OneMaker`, `FreshInv`); and what that one relies on (`ReliesInv`):
if the machine is still there, it has the settings made so far. All that another script
can do to it is to turn it off or remove it. For the refinement, a step of a script
`Stays` (same machine, same command), `Answers`, `Finds` the machine where the command
brings it, or `Acts` on it; `ScriptKinds` shows that there is no other step,
`AbstractSteps` which step of `VmBackend` each is, for a waiting client and for an
orphan. Giving a command, taking its answer and a crash are steps of `VmBackend` of
their own; `OrphanInv` (no orphans before the first crash) keeps a crash from
dropping an earlier orphan, as at most one crash is modelled. `DestroyedStaysDown`
follows who creates: only the transport itself, so once the table says destroyed
nobody does (`RoleInv`), and a deletion that has come to its end has removed the disk,
whatever it took the machine for (`Cleared`), as long as no orphaned creation undoes it. A
machine without a disk does not run, as a running machine keeps its disk (`DiskInv`).

**Files.** `Typed` says where each call is in its tool and that it has paths to work on
there; every step is first shown to move a call from one such place to another
(`...Moves`), and to touch no path that it does not mark as touched for the others (`CallSeen`).
On top of it, `FilterInv` is that neither an archived path nor a directory above it is
excluded - `ExcludedStayHome` speaks of names of any depth, so what a pattern does to
each directory on the way is needed. The three properties of one transport rest on
`LoneInv`, only stdio has a call, and each on what its tool has done so far:

- `SyncGood`: what was archived is as it is on the host, and what was listed is there and is
  archived or still to come, but for what the user has touched;
- `PrepareGood`: either all files are to be written, or `.env` has what it should and the
  other file is left; a file that was emptied is empty until it is written;
- `CollectGood`: a target is its artifact's name or that name with its number, and every
  copy so far is in a file of its own. The numbered name is free because the numbers of
  one request are distinct and grow, and earlier collections only leave numbered
  names behind that this one writes over.

**Lines and layers.** `UpsertMerges` is about files of any length and
`LastWordCounts` about any number of layers with any content. Both recursions are over
numbers, and `Least` (a set of numbers has a least element, from the
well-foundedness of `<`) stands for induction: what holds of 0 and is carried from n to n + 1
has no least exception. The lemmas on `Rendered`, `RStrip` and
`Upsert` say which line each key ends in, that no other line moves, and that a second
run finds everything in place. For the layers, `MergeExists` and `MergedSteps` give `Merged` step by
step, and `NextWord` shows that one more layer changes what is said of a setting exactly
when the layer speaks of it, where one with a value in the place of a table speaks of
all that is below it.

**Model-checked only**: the liveness properties (`OverdueLeaseIsSwept`, `TaskIsResolved`,
`RetryCompletes`, `DestroyCompletes`), which need fairness and are out of the prover's
reach. The properties that are expected to be violated (section 5) are false.

## 5. Disagreements between code and docs

Four have a run whose trace shows them.

- `expired_vm_leak`: the sweeper is documented as the "expired lease cleanup loop"
  (docs/PROJECT_STRUCTURE.md:17), but `_normalize_lease_status` (service.py:258-262),
  reached from any lookup or from list_instances, marks an expired lease first, and
  `list_expired_active` then passes over it. Its VM is never deleted.
- `sweep_race`: "Sweeper expires stale leases by TTL" (README.md:95), but
  `expire_expired_leases` works through the list it read on entry; a lease extended
  meanwhile is destroyed (service.py:2635).
- `image_other_target`: the "Strict Prebuilt Image Validation" (docs/SETUP.md:141) knows
  nothing of target, Dockerfile, build arguments or context path, so a build of one
  target is answered with the image of another (service.py:1847-1887).

- `sync_git_excluded`: "include_git = false" in the sample configuration
  (examples/sample-workspace/.sandboxforge.toml:60) does not keep the top-level `.git`
  out of the archive: `filter_member` strips the characters `.` and `/` from the front of
  the name (service.py:1774), so the entry is compared as `git`. The default patterns
  `.venv` and `.pytest_cache` miss their directories the same way, and a pattern `env`
  drops the file `.env`. `ExcludedStayHome` is what holds, below the top.

Further ones were met while modelling. They follow from the same definitions:

- Two transports that count at the same time exceed `max_instances` by one
  (service.py:917 and 953; README.md:303 and tests/test_service.py:93 say it is a
  limit). `OvershootBound` states what does hold.
- An exit-code file that is opened but not yet written reads as 0 (service.py:867): a
  failed command may be stored as succeeded. `NonzeroCodeIsTrue` is the half that holds.
- A runner that writes its marker and exits between the two looks of `_refresh_task_status`
  (service.py:881, 885) is stored as "exited without an exit marker".
- A stop and a refresh on two transports overwrite each other's outcome
  (service.py:2517, 2529; tests/test_runtime_tasks.py:290-291 expects `stopped`).
- A server that dies between Popen and the insert (service.py:2426, 2455) leaves a
  runner that no row knows of, although task lifecycles are to be "auditable via
  persisted lease/task records" (README.md:339). `RunnerMatchesRow` says that a
  server without a restart leaves none.
- Under the default tag format two dirty builds share a tag; the validation refuses
  hits only while the workspace is dirty, so a build made dirty at a commit is reused
  when the edits are taken back. Outside a git repository the fingerprint has the
  dependency files only.
- A git command that fails or takes more than ten seconds reads as a clean workspace
  (service.py:393-401, 592-597), and an edit while the fingerprint is taken leaves one of
  a state that never was: under the strictest settings an image of other sources can
  then be reused. `HitIsCurrent` is about builds without such disturbances.
- A file that git ignores, such as the `.env` prepare_workspace writes, is in the build
  context and in no part of the fingerprint, and a sync removes nothing from the guest
  (service.py:1781-1789): a reused image may have been built with other ignored files and with
  tracked files that were deleted since. With no dependency file there is no
  dependency hash and labels are not compared (service.py:800).
- Two transports that build at the same time tag each other's image (service.py:1999): `docker tag` goes by name.
- stop_task signals the runner only, not the session it made for it (service.py:2430,
  2523): the command of a task reported stopped may still complete. `Kill` leaves
  `command` alone; no document says what becomes of it.
- A server that dies between opening and writing an `.env` file (service.py:1421), or a
  disk that is full, leaves the file empty; what the user had in it is gone.
- Two injections into one file lose each other's variables, and one that writes over a
  longer file leaves the tail of it (`Overwritten`).
- A numbered artifact target is not looked at again (service.py:2565): a remote file that
  is itself called `1-app` and the second `app` can meet in one target.
  `ArtifactsAreTheirOwn` is about requests without such names.
- delete_instance of Hyper-V looks for the machine with `-ErrorAction SilentlyContinue`
  (backend/hyperv.py:329): when that fails it removes the disk and prints `deleted` while the machine
  stays, and the lease is destroyed (service.py:1241). `DestroyedCannotRun` is what holds.
- A creation that outlives its server may make its VM after the next server destroyed
  the lease, as its process is not ended with the server; the exception in
  `DestroyedLeaseHasNoVM`.
- The pid of a runner that died without a marker answers until the server starts another
  subprocess (service.py:851-858): until then the task is shown as running.
- stop_task catches ProcessLookupError and no other error: when the pid went to another
  user's process between the look and the signal, the PermissionError ends the call and the
  row stays running (service.py:2522-2525); the next status call finds the pid dead.
- start_instance of Hyper-V answers from a script that ignores a failing Start-VM
  (backend/hyperv.py:240); only the wait for an address makes its ok true.

## 6. Not modelled

- **Workspace configuration**: the types of the settings that the three of the model do
  not stand for (numbers and their ranges, lists), the check of the workspace path.
  Each is a test of one value.
- **Sync and artifacts**: temporary files and their removal, directories in
  sync_instance_to_workspace and collect_artifacts, symbolic links. `ImageCache` takes a
  sync as one step that unpacks the workspace over the guest's tree. Files left over in
  the guest, and an archive of the other transport that is newer, are outside
  `SyncedIsCurrent`.
- **A configuration that changes under existing containers** (service.py:1313).
- **Host preflight**: the free memory, CPU and disk are any refusal (`RefuseForCapacity`).
- **Lima**: each operation is one limactl command, a step of `LeaseLifecycle` that fails
  before or after its effect; what limactl does inside is not this repository's. YAML
  templates, ports, SSH and copies of both backends are input and output.
- **Server**: tool registration, argument schemas, environment parsing.
- **docker_run, docker_exec, docker_ps, docker_logs, docker_images**: one command in the
  guest each, with no state of the service behind it.
- **Descriptive columns** of leases and tasks, `last_used_at`, log contents.
- **Keyword scraper** (`keyword_scraper.py`): a stateless script apart from the server.

## 7. Plan

The order is by what could go wrong and be hard to see.

1. What the liveness properties rest on, as safety: that from every state of a call, a
   sweep or a script some step that its fairness covers is possible, without `ENABLED`.
2. `ImageCache` composed with the archive of `WorkspaceFiles` in the place of `Sync`.
3. `WorkspaceServices` with a configuration that changes between calls (network name,
   password), where an existing container is reused with what it was made with.
