# A verification of Basaltwater's build host, deployments and agent tasks

Basaltwater sets up and operates machines: it is mostly sequential orchestration
of external commands (packages, systemd, Proxmox), around a smaller number of
durable, concurrent components. Of these the *build host* carries the most
demanding logic of its own. It accepts build requests over the network, queues
them in a durable ledger, lets exactly one build occupy the machine, supervises
it through systemd, and keeps or prunes the evidence, while setup, unattended
updates and reboots compete for the same machine and any process may die at any
point. What was built is deployed to *targets*, which order deployments,
stage artifacts and replace running services; and everywhere systemd units are
replaced in *groups*, with a rollback. *Agent tasks* are saved prompts that one
worker runs unattended, with budgets and recovery of their own. This directory holds TLA+ models of these, TLC
configurations that check them, and TLAPS proofs about each of them.

All paths below are relative to the repository's `lib/` unless they say otherwise.
In a source reference, `build_jobs.py:846` is line 846 of `lib/build_jobs.py`.

## 1. Inventory

### 1.1 The components of the build host

| Component (files) | State it keeps | Operations | Interacts through | Hard behaviours |
|---|---|---|---|---|
| **Job ledger** (`build_jobs.py`) | one JSON file: jobs, drain flag, last sequence, last time; a state flock and a worker-lease flock | `submit`, `status`, `cancel`, `set_draining`, `worker`, `claim_oldest`, `claim_exact`, `finish`, `recover_interrupted` | calls; the lease descriptor a build child inherits; `work_stopped` and cleanup callbacks | wall clock set back, expiry sweeps, two-section `finish`, dead workers whose children live on |
| **Host capacity** (`build_coordinator.py`, `maintenance_lock.py`) | `slot.lock` with a lease marker in it, the drain file, the setup lock | `host_slot`, `maintenance`, `maintenance_lock`, `write_reboot_drain`, `recover_reboot_drain` | flock, drain file and marker, shared by builds, Actions jobs, setup and updates | check-then-lock, reboots between any two file operations, an intent written into the file setup creates and deletes |
| **Restarts** (`setup_reboot.py`, `common/service_tools/auto_restart_if_needed.py`) | none of their own | request a reboot, cancel it | setup lock, then slot, then drain file | the reboot is refused after the intent is durable |
| **Build execution** (`build_execution.py`) | a transient systemd unit, the last observation of it | `run_systemd_build` | `systemctl`, cgroup files; the cancellation status it reads | observation and decision are apart; unit state and cgroup population are read at different times; descendants outlive the main process |
| **Build worker** (`build_worker.py`) | where the run stands; scratch, log and bundle on disk | `run_next` | calls to all of the above and below | which outcome after which cancellation check, what an exception leaves behind |
| **Scratch and bundles** (`build_scratch.py`, `build_artifacts.py`) | a mounted image with its marker; linked bundle files | create, release, recover; publish | directories | publication temporaries |
| **Retained storage** (`build_inputs.py`, `build_retention.py`) | intents, sources, staged intents, logs, bundles | admit; settle, prune, release, resume | directory locks; the ledger's state of a job; the worker lease | many file operations per change, any of which may fail or be lost with the power |
| **Payload readers** (`build_payloads.py`, `build_capacity.py`) | none | read-only views | record locks | maintenance made busy |
| **Nested requests, runner lease** (`build_nested.py`, `build_runner_lease.py`, `github_runner_queue.py`) | a guardian process and its socket; registrations; nested evidence | lend the capacity of a running Actions job to one build | messages (request, borrowed, stopped, confirmed, cancel) over a socket, descriptors sent with them | loss of either side at any point |
| **Host service** (`build_host_service.py`, `build_host_policy.py`, `build_protocol.py`, `common/service_tools/build_host.py`) | none between requests | submit, status, log, cancel, worker loop | calls | none of its own |
| **Deployment admission** (`build_admission.py`) | a target-side ledger of deployments with generations | reserve, cancel, activate | the activator it calls under its lock | supersession during an activation, an activation of unknown outcome |
| **Target artifacts** (`build_target_artifacts.py`) | files of each operation: intent, part, bundle, ready or uncertain | stage, open for an activation | directory lock; reads the admission before and after the upload | the lock is released while the admission is read; every file can be the last one written |
| **Target activation, routing** (`build_target_activation.py`, `build_target_maintenance.py`, `build_target_service.py`) | `activation.json`, the release registry, releases, routes | activate, replay installed releases | files, web server, the unit transactions below | a death between any two of replacement, routes, registry, marker |
| **Unit transactions** (`unit_transaction.py`, `operation_state.py`) | a marker with the originals of a group of units | `replace_units`, `remove_units` and their rollback | `systemctl`; timers and sockets that start units meanwhile | every command can fail with or without effect; a rollback can fail as well |
| **Agent tasks** (`agent_tasks.py`, `agent_task_context.py`, `agent_task_worker.py`) | the hot state (tasks, counters, recent runs), a receipt per run, a context per task; the worker lease | `create`, `update`, `action` (run, pause, resume, cancel, reset), `notify`, `start`, `tick`, `close` | the provider process, which inherits the lease; panel, command line and worker over one file lock | three files written one after the other; a provider that outlives its worker; recovery that is itself interrupted |

### 1.2 How the modelled components interact

```
 clients ── submit/status/cancel ──▶  BuildJobs (ledger, state flock, worker lease)
                                        ▲        │ claim / finish / recover
   retention reads job states ──────────┘        ▼
                                   BuildWorker (run_next)
                       scratch, bundle │        │ run_systemd_build
                                        ▼        ▼
   BuildRetention (intents,        BuildExecution (coordinator ↔ systemd unit,
   sources, logs, bundles)          cgroup; reads cancel_requested of the ledger)

   NestedLease: run_worker asks run_pending first, which borrows the capacity of
   the Actions job a request came from (guardian ↔ service, a socket), and only
   then enters host_slot for everything else

   HostSlot (slot.lock, drain file, marker, setup lock):
   run_worker enters host_slot around run_next; setup, unattended updates and
   restarts exclude it with maintenance, maintenance_lock and the reboot drain
```

The seams are the promises one component takes from the other, and each is a
property of the component that has to keep it:

* `finish(..., work_stopped=True)` believes its caller; `PromisesKept` (BuildWorker)
  says the caller is right, and `OutcomeMeansStopped` (BuildExecution) why it can be.
* `recover_interrupted` believes that its cleanup callback verified that nothing runs.
* A worker's death releases its flock but leaves children that hold the inherited
  descriptor, a running record, a scratch filesystem and the coordinator's marker.
* The guardian believes `stopped`, which the service sends once `run_next` has
  returned: again the promise that an outcome means a stopped build.
* Retention trusts the ledger's terminal states not to change: `ImplementsLifecycle`.
* The admission ledger believes its activator about what happened, and holds its lock
  for as long; the registry is what both agree on (`CompletedServes`).

```
 controller ── SSH, one typed request per connection ──▶ TargetDeployment
     admission ledger (lock) ── activation ──▶ activator: marker, release, routes, registry
            ▲ read twice                              │ staged artifact
     staging store (lock) ◀── upload ─────────────────┘
     a local setup replays the installed releases under the exclusive lease

 setup steps ── replace_units, remove_units ──▶ UnitTransaction ◀─ timers, sockets, jobs

 panel, command line ── action, update, notify ──▶ AgentTasks (hot state)
     worker ── claim, finish, recover ─────────────▲   │ receipt, then context
        └── provider process (inherits the lease)      ▼ of each run
```

### 1.3 What makes each component correct

* *Ledger*: never wedged by its own validation; one lease, one build; order of
  admission; receipts are final; a cancellation is not
  overtaken by success; an interrupted claim becomes uncertain and nothing else.
* *Host capacity*: work occupies the machine once; setup is alone; nothing starts
  once a reboot is intended; an intent is only removed by cancellation or a later boot.
* *Execution*: outcomes are earned; an attempt ends when it should.
* *Worker*: the promises above; nothing is executed twice; receipts match the disk.
* *Nested leases*: the host has one tenant at a time, whoever dies; a nested request is
  built on the loan of its own job or not at all; a workflow never waits for a build that
  its own lease holds up; losing either side stops the build.
* *Retention*: charges cover files; credits are exact; evidence is never lost; an
  interrupted pruning can be completed.
* *Target*: the newest reservation wins, also over an activation under way; nothing is
  deployed twice; a completed operation is installed; without a marker no replacement is
  unfinished; what is installed is retained.
* *Unit transactions*: a group changes together or not at all; jobs that ran before are
  left alone; nothing of an undone operation keeps running.
* *Agent tasks*: no run's tokens are lost to a budget that is still trusted; a live provider's
  claim is not given away; interrupted work waits for a person; a context is the one its last
  receipt describes; nothing blocks the scheduler for ever.

### 1.4 The rest of the repository

The controller's side of deliveries, the privilege broker, device pairing and
publishing have durable state of their own and are candidates (section 9). Setup steps,
the web panel, the command line, Proxmox and network administration, enrollment
and reports drive external systems, render, or parse; they keep little state that this
project could state more than one-step properties about. `PROJECT.json` lists every
component with its files, its status and the reason.

## 2. Modules

| Module | Models | Granularity |
|---|---|---|
| `BuildJobs` | `build_jobs.py` | one action per locked section |
| `JobLifecycle` | what a client is promised about one job | the abstract specification |
| `BuildJobsProofs` | theorems about `BuildJobs` and about its composition `BuildWorker` | |
| `HostSlot` | `build_coordinator.py`, `maintenance_lock.py`, the restarts | one action per file operation another process can tell apart |
| `BuildExecution` | `run_systemd_build`; the unit is external | one action per probe or decision |
| `BuildExecutionProofs` | theorems about `BuildExecution` | |
| `BuildWorker` | `run_next`; EXTENDS `BuildJobs` and adds what a run leaves on the host | a ledger action and the worker's position move together |
| `BuildRetention` | `build_inputs.py`, `build_retention.py`, and the parts of log and bundle publication they meet | one action per file operation |
| `NestedLease` | `build_nested.py`, `build_runner_lease.py`, `github_runner_queue.py`, `run_worker` | one action per message, per access to the ledger or the evidence, and per death |
| `NestedLeaseProofs` | theorems about `NestedLease` | |
| `HostSlotProofs` | theorems about `HostSlot` | |
| `TargetRollout` | what a target promises: the newest reservation wins | the abstract specification |
| `TargetDeployment` | `build_admission.py`, `build_target_artifacts.py`, `build_target_activation.py`, `build_target_service.py` | one action per durable file, per lock taken or released, per call of the activator |
| `TargetDeploymentProofs` | theorems about `TargetDeployment` | |
| `UnitGroups` | what a unit transaction promises: all or nothing | the abstract specification |
| `UnitTransaction` | `unit_transaction.py`, `operation_state.py`; systemd is external | one action per command and per file operation |
| `UnitTransactionProofs` | theorems about `UnitTransaction` | |
| `AgentTasks` | `agent_tasks.py`, `agent_task_context.py`, `agent_task_worker.py`; the provider is external | one action per transaction on the hot state, with a choice of how far its writes got; launch, identification and end of a provider apart |
| `AgentTasksProofs` | theorems about `AgentTasks` | |
| `BuildRetentionProofs` | theorems about `BuildRetention` | |
| `MC...` | constant values, symmetry | |

`BuildWorker` is the composition: it reuses the ledger's actions (`Acquire`,
`ClaimOldest`, `ClaimExact`, `StartWork`, `FinishVerify`, ...) and adds the guard
that the code's control flow puts before each. `BuildExecution` is seen there
through its outcome only (a build runs; an outcome comes once it stopped);
`BuildRetention` and `NestedLease` see the ledger reduced to the state of each job.
`TargetDeployment` composes admission, staging and activation, which lock each other
out and call one another; the unit transactions an activation uses are inside its steps
`Deploy` and `Publish`, which may end torn.

Operators marked *Mutant* in a module are plausible bugs in the definition that
follows. No specification uses them; `PROJECT.json` pairs each property with one
that breaks it, so that no property holds for the wrong reason.

### 2.1 BuildJobs

| Variable | Code |
|---|---|
| `jobs`, `draining`, `lastSequence`, `lastTime` | the ledger file |
| `clock` | the wall clock; `SetClock` sets it to anything, also back |
| `lease`, `heirs` | who holds the worker flock: processes, and children with an inherited descriptor |
| `task` | a lease holder between the two locked sections of `finish` or `recover_interrupted` |
| `work` | requests whose supervised build executes (history of the outside world) |

`Admit`, `Refuse`, `Replay` are the outcomes of `submit`; `Status`, `Cancel`,
`SetDraining` are the methods of their names; `Acquire`, `Inherit`, `HeirExits`,
`Exit` are the life of `worker()`'s lease; `ClaimOldest`, `ClaimExact`,
`ClaimNothing` the claims; `FinishVerify` then `FinishSucceeded`, or
`FinishOther`, is `finish`; `RecoverBegin` then `RecoverCommit` is
`recover_interrupted`. Every one first sweeps (`Swept`), as `_expire` does in the code,
and stores under the clamped time `Now` of `_now`.

Notes on faithfulness:

* Python's locked sections are atomic here. A section that saves twice saves the
  sweep first; dying in between leaves what a refusal of the same request leaves,
  and that refusal is an action (`Refuse`, `SweepOnly`).
* The clock counts whole units. The re-check of expiry in the claim
  (`build_jobs.py:873`) can never fire after the sweep in the same section and has no
  disjunct.
* The ceiling on the encoded size of the ledger is one more reason for `Refuse`.
* `recover_interrupted` has no caller outside the tests at this commit; it is the
  store's documented way out of an interrupted claim and is modelled as such.
* Methods that only read, and calls that raise before changing anything, are
  stuttering or disabled.

### 2.2 JobLifecycle

The client's view: a job is absent, queued, running, or ended for good, and moves
only forward; uncertain only from running; a cancellation sticks. `BuildJobs`
implements it under the mapping `Lifecycle`; run `jobs` checks that
(`ImplementsLifecycle`) and `LifecycleImplemented` proves it.

### 2.3 HostSlot

`drain` is the drain file with the intent and boot it names, `marker` the lease
record inside `slot.lock`, `slotLock` and `setupLock` the flocks, `boot` the
boot identifier, `pc` and `goal` where every process stands, `orphans` the work
that outlived its process.

`CheckDrain`, `TakeSlot`, `Recheck`, `Mark`, `Finish`, `GiveUp` are `host_slot`
statement by statement; `OpenDrain`, `LockForSetup`, `EnterSetup`, `LeaveSetup`,
`FailSetup` are `maintenance`; `TakeSetupLock`, `LockForRecovery`, `Recover`,
`EndRecovery` are `maintenance_lock` with `recover_reboot_drain`; `CreateIntent`,
`WriteIntent`, `RequestReboot`, `RebootRefused` are `write_reboot_drain` and the
restart that follows. `Crash`, `OrphanEnds`, `ClearMarker` (the administrator),
`Reboot` are the environment.

### 2.4 BuildExecution

`unit`, `main`, `children` are the external unit: `systemd-run` with `Type=exec`,
`ExitType=cgroup`, `RemainAfterExit=yes`, `RuntimeMaxSec`,
`KillMode=control-group`. `cancelled` and `late` are what the coordinator reads.
`pc`, `fields`, `reason`, `result` are `run_systemd_build`: `Precheck`, `Launch`,
`Observe`, `Decide`, `Settle`; `Unconfirmed` is every way in which a probe fails
or an answer makes no sense, after which the function raises.

### 2.5 BuildWorker

Adds to the ledger `at` (the position in `run_next`), `job`, `scratch`, `bundles`
and `launched` (history). `run_next` reads the cancellation status again before each
of its steps, and each reading is a step here, except the one just before the launch: a cancellation
recorded between that reading and the launch leads to the same states as one
recorded right after the launch. An exception is `EndRun`: the lease
goes, everything else stays.

### 2.6 BuildRetention

`inputs`, `logs`, `artifacts` are three directories as the running system sees
them, `disk` their durable state. A power loss (`PowerLoss`) takes, for each
directory on its own, the cached or the durable state, and
`fsync` of a directory makes the cached one durable. `op` is the one operation that holds
the input lock; `job` and `worker` the ledger reduced to states.
`CreateIntent … SyncSource`, `Submit` are admission; `Settle`, `Prune`, `Resume`
start a maintenance operation, `Stage`, `Fill`, `Replace`, `SyncSave`, `Unlink`,
`SyncDeleted` are its file operations; `Abort` is an exception or a death in between.
`StageBundle`, `PublishBundle`, `DropBundle` are a bundle's publication,
whose temporary name is unlinked without syncing the directory.

Rollback is of whole directories, not of single entries; this is coarser than a
file system allows but contains the loss of everything unsynced. Cancelled and
expired jobs are merged: retention treats them alike.

### 2.7 NestedLease

| Variable | Code |
|---|---|
| `marker`, `drained`, `holders` | `slot.lock`: its content, the drain file beside it, and who has a descriptor of the locked open file description |
| `parent`, `orphans` | `Runner.Worker` of each job, and what it left in the cgroup |
| `guardian` | `GuardianBroker`: `requests`, `borrower`, `parent_exited` (`exited`), `uncertain`, and whether it still serves |
| `mail` | what is on its way: `stopped` to the guardian, `cancel` and `confirmed` to the borrower |
| `client`, `proof` | how far a nested submission is (proved, verified, recorded), and whose job's token it carries |
| `job`, `work` | the ledger reduced to states (*cancelling* is running with `cancel_requested`), and the builds that execute |
| `service` | where `run_worker` stands, with the records it read and the request it handles |

`Acquire`, `HandoffFails`, `Deny` are the outcomes of `acquire_job_slot`;
`NoticeParent`, `Lend`, `FinishBorrow`, `LeaveUncertain`, `End`, `GuardianDies` are
`hold_job_slot` with its broker; `Prove`, `Verify`, `Record`, `Admit` are
a nested submission (`submission_proof`, `verify_proof`, `register`, admission),
any of which may be the last; `Scan` to `NoneLeft` and `AfterFailure` are `run_pending`;
`Receive`, `SendStopped`, `SkipCancel`, `Acknowledged`, `Unacknowledged`, `LoanFails` are
`borrow`; `Claim` to `Raise` the run of one request; `Busy` to `ReleaseSlot` the
part of `run_worker` under `host_slot`. Any exception out of `run_worker` is `Down`: the
descriptors close, everything else stays, and `Restart` begins anew.

Tokens, digests and peer checks are reduced to what they tell apart: the job a request
belongs to. Taking the slot with its checks is one step, since `HostSlot` has the
interleavings of it. The parent may exit, die or be cancelled at any time, and a process
of its may stay in the cgroup; the listener assigns the next job once the worker is gone, which
may be long before the guardian is.

### 2.8 TargetDeployment

| Variable | Code |
|---|---|
| `ops`, `desired` | the admission ledger: operations in order of their identity, and `desired_generations` |
| `evidence`, `staged` | which files of each operation the staging store has, and the artifact its intent names |
| `marker` | `activation.json`: an operation, a replay, or absent |
| `registry`, `release`, `routed` | `releases.json`; whose files and services are in place; whose routes are published; `Torn` in between |
| `conn` | the request each SSH connection serves, and how far it is |
| `admin` | a local replay of installed releases, which holds the exclusive lease |
| `deploys` | how often the activator began with an operation (history) |

`Reserve`, `Cancel` are the ledger's methods of these names; `StageOpen` to `StageAck` are
an upload: intent and part under the store's lock, the admission read again with that lock
released, publication in two files; `StageReplay` a repeated one. `Activate`, `Begin`,
`Open`, `Deploy`, `Publish`, `Save`, `Complete`, `Finish` are `activate` of the admission
with the activator it calls, the lock held throughout. `AbortStaging` and
`AbortActivation` are every end before the last step: an exception, the deadline, a kill, a
crash of the host. What an exception leaves and what a death leaves differ (an
exception of the activator is caught and saved as `uncertain`, and that save can fail), so
`Outcomes` is a set. `ReplayBegin` to `ReplayAborts` are the replay, `OperatorResolves` the
documented resolution of an uncertain activation.

Faithfulness:

* Locks are taken without waiting; a request that finds one taken is refused and
  changes nothing. Identities, owners, policies, deadlines and expiry refuse and
  change nothing either, and are left out.
* Publishing rewrites the routes of the other applications with what they were,
  and is torn for the application it activates only. A replay deploys the applications one
  after the other; here all of them are torn until the last is done.
* A staging intent is written in one step. A crash in mid-write leaves a torn one, for which
  `_scan` refuses the whole store (`build_target_artifacts.py:501`): the code refuses more.
* Activation of an operation that is not staged leaves `activation.json` as an
  exception of the activator does, and blocks all applications until an operator resolves it.
  An interrupted replay of an upload can leave a `.verify` file beside
  `.ready`, which `_scan` then refuses for the whole store (`Readable`): the
  code fails closed, and so does the model. What is installed is still retained
  then (`InstalledIsRetained`), and is replayed once an operator removed the file.

### 2.9 UnitTransaction

| Variable | Code |
|---|---|
| `files` | unit files, by the operation that wrote them |
| `loaded`, `running`, `enabled` | systemd: what `daemon-reload` read, the definition a unit runs under, enablement |
| `marker`, `backup` | the operation's marker and `previous.json` |
| `group`, `gen`, `pc`, `step` | the operation, its number, and the loop and position it is in |
| `touched`, `preserved`, `faults`, `sound` | local variables of the same purpose; `sound` is false once the rollback gives up restoring |

`Begin`, `Snapshot`, `NothingToDo`, `Validate`, `StopUnit`, `ObserveJobs`, `ChangeFile`,
`Reload`, `PreserveJob`, `StartJob`, `ActivateUnit`, `Succeed` are `_reconcile_units`
in its order; `Fail` is an error anywhere, which leads to the rollback: `Quiesce`,
`RestoreFile`, `ReloadRestored`, `Rearm`, `VerifyRestored`, and `Undone` or `Retain`.
`Fire` (an armed timer, path or socket starts its unit), `End` (a job ends), `Die`, `Reboot`
and `OperatorResolves` are the surroundings.

Faithfulness:

* A command that fails may have had its effect. Stopping or disabling one unit and
  inspecting the result is one step, the steps of two units are not.
* The groups are those of the program's callers (`MCUnitTransaction`): a timer with its
  job, a service with its socket, and their removal; the proofs are for any groups that pass the checks of
  `_reconcile_units` and, for `StoppedStaysDown`, are ordered like those.
* Left out: runtime enablement, templates, pairs of mounts and automounts, the early return of
  `preserve_unchanged`, `unit_ownership` (which only borrows the lock), and the double
  fault in which the marker can neither be unlinked durably nor rewritten.
* Two things look odd and are by design: a service that is only staged for its socket
  keeps running a rolled-back definition until it is restarted, and the rollback skips
  a unit whose load state is *not-found* although a process of it may run (`Nonexistent`).

### 2.10 AgentTasks

| Variable | Code |
|---|---|
| `tasks`, `runs` | `tasks.json`: settings and counters of each task, recent runs; `recovery` is `context_recovery` (*accounting* is pending with `accounting_pending`), `repairs` is `usage_repairs` |
| `disk` | the last receipt of each task and its context (`last_run_id`, `checkpoint`, `session_id`, `session_usage` as `total`) |
| `worker` | where `tick` stands in each process that schedules, with the baseline and result in its memory |
| `holders`, `provider` | who has a descriptor of the locked `worker.lock`, and the run whose provider lives |
| `thread`, `spent` | what the provider counts in a conversation, and history: what a task's runs really used |
| `unseen` | history: tasks with interrupted or unsaved work that nobody has run or resumed since |

`Cancel`, `Pause`, `RunNow`, `Resume`, `ResetContext` are `action`, `Update` and `Notify` the
methods of that name; `Start` is `start` with the settlement of a claim left behind
(`LeftBehind`, with `_quarantine_recovery_claim`) and `_reconcile_storage_error` for every task;
`EnforceLimits` and `Claim` are the first transaction of `tick`, `NotLaunched`, `Launch`,
`Identify`, `Collect` what it does outside the lock, `Finish` its second transaction with
`TaskContextStore.record` and `_record_outcome`; `Exit` is `close`, `Die` the loss of the process.

Faithfulness:

* A transaction reloads the state under its lock, so it is one step. Inside it a
  receipt, a context and the hot state are written in this order; `reach` and `saved` say how
  far that got. A transaction that changes nothing is left out. A record that fails when both
  are written, while it drops old receipts, is left out: recording it again changes nothing.
* Every transaction loads the hot state first, and `_validate_state` refuses one with a counter past
  10^15 (`Loads`, `MaxTokens`). A recovery checks this limit before it adds (`Addable`), the charge of a
  run's outcome does not (`Charged`): section 7. `attempts` has the same limit, which `max_runs` keeps
  out of reach.
* `Notify` accepts any enabled task, as the code does. The code also refuses tasks with a
  `stop_reason`; every task that is stopped for one is not enabled here.
* Time is abstracted: an enabled task may be due at any time, so deadlines, backoff and daily limits,
  which only delay or refuse, are left out, as are drafts, creation and deletion, goals
  (`continue_until_done`), follow-ups, storage operations and pruned receipts.
* The usage of a run is one token, or zero if its provider was never launched; what matters is
  whether it is known, and to which counter it is added. A repair states a total that covers
  what was really used, as an operator who looked it up would, and is within the limit, as
  `validate_task` demands. That the 101st repair of a task is refused is left out.

## 3. Runs

| Run | Question | Bounds |
|---|---|---|
| `jobs` | Is the ledger exclusive, ordered, valid and faithful to its clients, with two workers that die and recover? | three requests (one nested), store of 2, queue of 2, two workers, three lease tokens, clock 0..2, time to live 1 |
| `slot` | Are capacity, setup and reboot intents respected by every interleaving of file operations, and is an earlier boot's intent removed eventually? | two producers, two setups, two schedulers, one crash, one reboot |
| `slot_intent` | Can a failed reboot request be released as documented? (No: section 7.) | one of each, no crash, one reboot |
| `execution` | Are outcomes true, and does an attempt end? | two descendants at a time |
| `worker` | Does `run_next` keep the promises the ledger relies on, do receipts agree with the disk, does a cancelled build end in a cancelled receipt? | two requests (one nested), two workers, two tokens, clock 0..1 |
| `retention` | Do charges, credits and evidence survive deaths, errors and power losses, and can an interrupted pruning be completed? | two uploads, two faults |
| `nested` | Does capacity have one tenant, are nested requests built on their own loan, does a workflow ever wait for its own lease, does a loss stop the build? | one job, two requests, one death |
| `nested_retained` | Is a lease retained for orphans and failures only? (No: section 7.) | two jobs, two requests, no death |
| `target` | Does the newest reservation win, is nothing deployed twice, do marker, files, routes and registry agree? | two applications, two connections, two operations, two artifacts |
| `units` | Do groups change together or not at all, are running jobs left alone, does nothing undone keep running? | five groups over a timer, its job, a socket and its service; two operations after each other |
| `units_timer` | Does a unit that the rollback stopped run while files are restored? (Yes: section 7.) | one operation that installs a timer with its job |
| `agents` | Do usage, contexts and reviews of a task survive interruptions, and can one record block the scheduler? | one task of one of three kinds, run at most twice, a budget of two tokens, a limit of two for the counter, a repair to two; a worker that may die twice, one write or read that fails |

Why these are enough to mean something:

* *Three requests against a store of two, two workers, three tokens* in `jobs`. Every
  conflict in the ledger is between two requests or two lease holders; the third
  request finds the store full, and room is made for it by a request that has
  expired or ended. Three tokens let a second and a third lease appear while a child
  of the first still holds its descriptor. A clock of three values with a time to live of
  one has times before, at and after expiry, and a step back across each. The limit of
  the queue cannot bind before that of the store in this instance; `LedgerNeverWedged`
  is proved for all limits.
* *One crash and one reboot* in `slot`: the states a second one reaches are those
  of the first with a marker or an old intent, which are reached too.
* *Two descendants* let one outlive the main process and another be created
  while the unit stops. The safety part of this is proved for any number.
* *Two faults* let recovery itself be interrupted; a payload and a request's
  metadata cost one unit each, so that with a reservation of five and a limit of eight a
  second upload fits only after the first was settled and pruned.
* *One job and two requests* in `nested`: both requests may belong to the job, or one or both
  to none, so that the FIFO competes with loans. The next job, assigned while the guardian of the
  first still serves or is already gone, is in `nested_retained`, and the
  safety part is proved for any number of jobs and requests.
* *Two operations* in `target`: of one application, so that the second supersedes the
  first at every point of its upload and activation, or of two, so that one finds the other's marker.
  Two connections let a reservation, an upload and an activation meet. A third operation
  is out of TLC's reach; the proofs are for any number. The retention limit of
  the staging store never binds here, it only refuses.
* *Two operations* in `units`: the second finds what the first left, a retained marker
  included, and any initial installation is a state the program may be started on.
* *One task, two runs* in `agents`. Tasks share the claim, the lease and the recent runs, and
  nothing else; the second run sees the counters, context and recovery of the first, the list of recent
  runs is as short as one, so the first run's record is gone by then, and both may lose their
  worker. One failed write more lets a recovery be interrupted and retried. A limit of two is reached by a
  repair or by two runs, and passed by one more charge, in an outcome and in a recovery. The three kinds
  are an event task with a conversation and without a failure limit, a repeated one without
  context and a one-time one with checkpoints, each paused after one failure.

Each passing run explores between 4,000 and a little over two million states, in less than
four minutes. Symmetry is declared only in runs without temporal properties under
fairness. Deadlock is checked except in `execution` (an attempt ends), in
`retention` (request IDs are finite and, once pruned, never reused), in `target` (operations
are finite) and in `agents` (once a counter is past its limit every transaction is refused, and
what remains is for the scheduler to stop; in all other states an operator can act).

## 4. Properties

*Ledger.* `LedgerValid`: neither `_save` nor `_load` ever refuses what operations
produced, so no sequence of calls and clock jumps wedges the store.
`SlotExclusive`, `OneBuildAtATime`: one lease counting inherited descriptors, one build
counting those of dead workers. `NoOvertaking`, `InterruptedOnlyUncertain`: section 1.3.
`ImplementsLifecycle`: receipts do not change and a cancellation is not overtaken by success.

*Host capacity.* `CapacityExclusive`, `SetupAlone`, `NoWorkBeforeReboot`,
`IntentKept`, `StaleIntentRecovered`.

*Execution.* `OutcomeMeansStopped`, `SuccessIsReal`; under fairness `Ends`: an attempt that is
cancelled or overdue, or whose unit has failed, comes to its end.

*Worker.* `PromisesKept`, `ReceiptTrue` (`ScratchAccounted` and `ReceiptBacked`), `NeverReplayed`;
`CancelledBuildEnds` under fairness.

*Nested leases.* `CapacityHeld`: a workflow, what it left behind, a build on loan and a
FIFO build never overlap, and the marker outlasts all of them; `BuiltOnItsLoan`;
`NestedResolves` (`ParentNeverStranded` and `LossStopsBuild`) under fairness. `ReleasedSettled`, a released
slot leaves no claim behind, is proved and not run.

*Retention.* `ChargesCover`, `CreditsExact`, `EvidenceKept` (which includes that
what was pruned stays gone); `PruningCompletes` under fairness.

*Target.* `LedgerValid`: the admission's own validation never refuses its ledger (proved, not run).
`ImplementsRollout`: an installed generation is the newest reserved one at that moment, so a
superseded operation is never installed. `DeployedOnce`, `Settled`, `CompletedServes`,
`InstalledIsRetained`: section 1.3.

*Unit transactions.* `ImplementsGroups`: all or nothing, where until the marker is removed the
originals count. `JobsLeftAlone`, `NothingUndoneRuns`, and `QuiescentUnlessNewTimer`: what the
rollback stopped stays stopped while it restores files, save for the case of section 7.

*Agent tasks.* `StateLoads`: no operation saves a state that validation would refuse, or change,
when it loads it - except, by name (`ChargedPast`), one whose counter the charge of a task's last run
took past the limit of 10^15, after a repair or real usage beyond it; the code does not exclude this
(section 7). `UsageAccounted`: the counter a budget is checked against covers
what was really used, or says that it does not; nothing is charged twice. `RecoveryWaits`: while a
provider lives its claim stays open. `ReviewedAfterInterruption`: interrupted work is not claimed
again before a person ran or resumed the task. `ContextCurrent`: checkpoint and conversation total are those
of the last receipt. `NoClaimBlocks`: a scheduler that waits has left no claim open.

Every other module also has a type invariant. They are proved as part of the inductive
invariants of section 6 and are no property of a run.

The comment above each definition states it and
the code behaviour it is about.

## 5. Fairness

* `HostSlot`: a process inside its operation goes on, a body ends in some way;
  strong fairness for taking the setup lock, because scheduled updates come
  back with a timer and find the lock free now and then. Nothing forces a producer
  or setup to start.
* `BuildExecution`: the coordinator polls; systemd carries out the stop it was
  asked for and unloads what ended; killed processes die, and a unit that is being
  killed forks no more (an abstraction: `KillMode=control-group` kills until
  the cgroup is empty). *Nothing* is assumed to make a build end by itself, and no
  deadline has to come: `Ends` speaks of attempts that are cancelled or overdue.
* `BuildWorker`: `run_next` goes on, and a build whose cancellation is recorded stops,
  which is what `Ends` shows of the execution. Workers may raise or die instead: the
  property then leaves the claim to recovery.
* `NestedLease`: service and guardian take their next step; a borrower that gets no
  answer gives up after the two seconds of its socket (`LoanFails`); a build that was told
  to stop stops. Parents, clients, administrators and deaths owe nothing. Where guardian and
  service were both lost, the claim waits for an administrator, and both properties say so.
* `BuildRetention`: whoever holds the input lock goes on, a running job ends in some
  way, and an administrator who repeats an interrupted operation finds the locks free
  now and then.

## 6. Proofs

TLAPS checks, for every value of the constants:

* `BuildJobsProofs`: `Invariance`, `Spec => []JobsInv`, and from it `Typing`,
  `LedgerNeverWedged`, `SlotIsExclusive`, `NoConcurrentBuilds`, `SectionsSettled`;
  `AdmissionOrder` and the action property `InterruptionIsUncertain`; the refinement
  `LifecycleImplemented`. Of the composition `BuildWorker`: `RunInvariance`,
  `RunSpec => []RunInv`, and from it `PromisesAreKept`, `ReceiptsMatchTheDisk`,
  `NothingReplayed`.
* `BuildRetentionProofs`: `RetentionInvariance`, `Spec => []RetentionInv`, and from it
  `EvidenceIsKept`, `CreditsAreExact`, `FilesAreCharged`, `ChargesDoCover`.
* `BuildExecutionProofs`: `Supervision`, `Spec => []SupervisionInv`, and from it
  `NoOutcomeWhileRunning`, `SuccessIsEarned`, `CancelledOnlyOnRequest`.
* `HostSlotProofs`: `Invariance`, `Spec => []HInv`, and from it `CapacityIsExclusive`,
  `SetupIsAlone`, `IntentStopsWork`, `IntentStays`.
* `NestedLeaseProofs`: `Invariance`, `Spec => []LInv`, and from it `CapacityIsHeld`,
  `LoansAreKept`, `ReleaseIsSettled`.
* `TargetDeploymentProofs`: the invariant `IInv`, and from it `LedgerStaysValid`,
  `NeverDeployedTwice`, `MarkerCoversReplacement`, `CompletionIsInstallation`,
  `InstalledStaysRetained`, and the refinement `RolloutImplemented`.
* `UnitTransactionProofs`: `Invariance`, `Spec => []IInv`, and from it `RunningJobsLeftAlone`,
  the refinement `GroupsImplemented`, the action property `NothingUndoneStays`, and
  `StoppedStaysDown`, `Spec => []QuiescentUnlessNewTimer`.
* `AgentTasksProofs`: `Invariance`, `Spec => []IInv`, from it `InLimit`, and from both `SavedStateLoads`,
  `UsageIsAccounted`, `RecoveryDoesWait`, `ContextIsCurrent`, `NoClaimDoesBlock`, and the action
  property `ReviewComesFirst`.

**The argument for the ledger.** `JobsInv` conjoins the type invariant,
`LedgerValid`, `SlotExclusive`, `OneBuildAtATime` and `TasksSettled`. No part is
inductive on its own. That two builds never execute together does *not* follow from
the exclusive lease: a worker may die, its descriptor with it, and leave its build
executing, and then a second worker gets the lease. What stops the second is the
*running record* that stays in the ledger: a claim requires that no record is running,
and `OneBuildAtATime` keeps `work` within the running records, of which `LedgerValid`
(`OneClaim`) admits one. In return `LedgerValid` needs the type invariant (sequence
numbers and times are naturals, `lastTime` bounds all of them, which is what `Now`
clamps for), and `TasksSettled` is what carries the
checks made in the first section of `finish` or `recover_interrupted` to the second:
the holder still has the lease, so no one else may have started work. The proof has a
lemma per helper (the sweep, a save, an update of one record preserve
`StateValid`) and a step per action.

Order and refinement rest on what one locked section does to the ledger: it sweeps, and
then rewrites at most one record (`OneRecord`). A record that is not rewritten keeps its
place, and a claim takes the earliest that waits, at a time that `Now` puts no
earlier than any recorded one. Each of the eight ways to
rewrite a record is one step of `JobLifecycle` or a stutter (`LifecycleStep`).

**The argument for the worker.** Every step of `run_next` is a step of the ledger or leaves
it alone, so `JobsInv` carries over. `RunInv` adds where the one lease holder stands
(`LeaseInHand`: who is inside `run_next` holds the lease), what claim it holds
(`ClaimInHand`), and what each position has left on the host (`TracesKnown`).
`LaunchedOnce` says that a request which was launched is not waiting: no step
puts a claimed record back into the queue, also not recovery.

**The argument for retention.** A power loss combines, for each directory on its own, what is
cached with what is durable, so the invariant speaks of all such combinations:
in each of them the intent accounts for the payloads that are there (`Accounts`,
inside `Accounted`), and evidence that the ledger vouches for is durable until the
settlement that gives it up is (`EvidenceDurable`). `OperationKnows` ties the position of a
maintenance operation to that: before the first `unlink` its target is durable.

That all charges together keep within the store's limit (`ChargesDoCover`) needs the sum of a finite set,
a fold that chooses one element after the other. `Limited` bounds the total of the cached and of the durable
directory, keeps room for the intent that was created but not written, and says that a target costs no
more than what it replaces; that suffices, since after a power loss the directory is one of the two. What a step does to
a total rests on three lemmas: the fold exists (`SumExists`), does not depend on the order in which it chooses
(`SumAdds`) and grows with its summands (`SumMonotone`). They are inductions over the subsets of a finite set. The
library's induction theorems take a predicate, which the provers cannot instantiate; `SetInduction` derives
induction for a *set* of numbers from the fact that `<` is well-founded on the naturals, and
`SubsetInduction` derives it for a set of subsets from their cardinalities.

**The argument for the execution.** The coordinator decides on an *observation*
that may be old. `SupervisionInv` adds to the properties that an observation of an ended unit
still stands (`ObservationStands`: a unit that left `running` never returns to it, the
main process's status is final) and that a reported outcome is final
(`OutcomeIsFinal`: an empty cgroup has nothing in it that could fork). Population is
read after the state, which is why the two readings may be combined.

**The argument for the host's capacity.** Whoever is past the flock holds it (`Holds`), so two
processes never work side by side. Work that outlives its process holds no flock; it is
covered by the marker, which whoever takes the slot next finds (`Covered`). Setup
excludes both and has the drain file to itself (`Quiet`). The drain is read twice by
producers, and only the second reading, under the flock, is one that an intent cannot overtake: who writes an
intent holds the flock too (`Aware`).

**The argument for nested leases.** `OneLease`: all descriptors of the locked file and all that works are of one
lease, because a lease is only taken where nobody has a descriptor and the marker is
clear, and everything else only hands on what is there. The marker is
the weak point: a guardian clears it while a borrower may still have its descriptor. `Lent` says
when it may: as long as a service executes on loan, its guardian has a
borrower and has not been told `stopped`; a guardian without a borrower, that is not
uncertain, has nothing executing. `Clear` ties that to the service's position, and
`Settled` says the same of claims. That a nested request is never claimed in the FIFO
rests on `Evident`: during a FIFO run the records that were read are the records there
are, since the evidence lock is held.

**The argument for the target.** An activation holds the admission lock from the check of its
generation to its outcome, so its generation is the desired one throughout
(`Owning`), although the staging store's lock, under which the artifact was published, is
not held: an intent is never rewritten, and `Progress` says what each step has behind
it. While the marker names an operation every other application is settled, and a
marker left behind blocks every later activation until the operator has settled it.

**The argument for unit transactions.** An operation that may have changed anything has its marker and its
originals (`Marked`). Going forward, the files and enablement are known functions of the originals
and the position in each loop (`Forward`), so that success is the whole change.
What is changed is bounded by what the rollback knows (`Bounded`): units it touched and units
it was to activate; and the rollback restores all of it or reports a fault
(`Restored`), in which case the marker stays. `Jobs` adds that a job in `touched` did not run when
the operation began.

Two theorems need to know more about what runs. `NothingUndoneStays` compares definitions by the
number of the operation that wrote them: what was there before an operation has a smaller number
(`Dated`), so once the restored files are loaded (`Loaded`) nothing that starts, whoever starts it,
runs a definition of the operation, and each unit of the rollback is restarted or compared with
its state before (`Expelled`). For `StoppedStaysDown` the order of the stops is what matters: while
the rollback stops one unit after the other, and then restores files, timers and sockets go on
firing. An activator that was never there does not run (`Grounded`), the operation touches every other
one before what it starts (`Ordered`), and the rollback goes through its units in the order they were
touched (`RollbackOrder`), so that whatever could start a stopped unit was stopped earlier
(`Stopped`). The one exception is the new timer of section 7: it is touched after its job, which
is why the property excludes it.

**The argument for agent tasks.** A run is charged by three writes, of a receipt, a context and
the hot state, and the process may be lost before, between or after them. `Sound` is what they say of each other, of one
task at a time: as long as the claim is open, the receipt either is of an earlier run or holds
exactly the usage that is still due (`Accounts`, `DueFor`); a total in the context or in the last
receipt is where the provider's conversation is (`Meters`), so that it may be taken as the next
baseline; the context is the receipt's unless a recovery is owed (`Records`). What is not written yet is in
a worker's memory (`Carried`), which dies with it. That this is enough rests on the lease: there
is one worker (`Leased`), and `Listed` ties its claim to the one open task, so a successor that
reconciles finds either the receipt or nothing. A provider that outlives its worker keeps the
lease, hence `RecoveryWaits`. Each way to settle a run - its worker's `Finish`, the reconciliation of a
receipt by a later transaction, the quarantine of a claim without one, an operator's repair - is a lemma
about the values of one task (`CloseSound`, `RecordSound`, `ReconcileSound`, `AdjustSound`), and the step lemmas say
which of them an action applies, to which task, with which of its writes done. Two clauses of
`IInv` exist for the counters alone: a repaired total may exceed what was used, so `tokens_used` is bounded
from above only while there are no repairs, and a pending recovery of a receipt
without usage must already be marked uncertain or repaired (`Settings`). `InLimit` is proved apart, relative to
`IInv`: since every transaction loads counters within the limit, a step can only leave one past it by charging a run;
`FinishTokens` and `StartTokens` find that run on record, and `ReconciledWithin`, `OperatorTokens` show that recoveries and
operators stay within. With `Accounts`, the excess must come from a repair or from real usage, which is `ChargedPast`. That a rest after an interruption lasts
(`ReviewComesFirst`) follows from the last conjunct: a task in `unseen` is neither enabled nor queued.

**Assumptions.** `HostSlotAssumption`: the roles are disjoint and none is `None`. `NestedLeaseAssumption`: the
service's own lease is no job, `None` is nothing else. `TargetAssumption`: the limit is a number,
`None` is nothing else. `GroupsAssumption`: what `_reconcile_units` checks of its arguments
before it begins. `TriggersAssumption`: what the groups of the program's callers have in common, of
which it checks only that jobs are services: what starts a unit is not started itself, and is named before the unit
(`remove_units`: "Pass activators before their service"; `cleanup_service`); mounts and automounts,
which are not modelled, are the only groups that differ. Only `StoppedStaysDown` uses it. `BuildJobsAssumption`: finitely many requests, `None` is none of the
other values, limits are positive and the queue limit is within the store's (as the
constructor validates), times are naturals. `BuildExecutionAssumption`: the bound on
descendants is a natural number. `BuildRetentionAssumption`: finitely many requests, `None` is
no request, a reservation covers an intent and its three payloads, limits are natural numbers. `AgentTasksAssumption`:
finitely many tasks, `None` and the provider are nothing else, the budget, the history and the number of
runs are positive, and repairs state totals within the limit of the counters. TLC evaluates each in its runs.

**Only model-checked:** everything temporal under fairness (`StaleIntentRecovered`, `Ends`, `CancelledBuildEnds`,
`PruningCompletes`, `NestedResolves`), which this prover cannot reach. Every other property of a passing run
is proved.

## 7. What was found

**A failed explicit reboot cannot be released as documented** (run `slot_intent`).
`docs/services/build-operations.md:149` says that intent remains drained when the
reboot request fails, to be released by "the existing reboot cancellation or
confirmed boot recovery procedure". When `systemctl reboot` fails,
`setup_reboot.py:64` raises inside the slot, so `host_slot` keeps its lease marker
(`build_coordinator.py:174`), and `recover_reboot_drain` refuses a marker
(`maintenance_lock.py:66`) both when cancelling and after a reboot. Only removing the
marker by hand reopens intake. The scheduled restart handles its failure
inside the lock and is not affected.

**A lease may be retained although nothing went wrong** (run `nested_retained`).
`docs/services/github-runner-operations.md:123` names what retains the lease: crashes,
guardian failures and cgroup orphans. When a job is cancelled while a nested build of it
runs, its guardian waits for the build to stop, while the listener, which stays
online, may already have started the worker of the next job. That worker waits for
capacity in the same cgroup, and `_runner_cgroup_idle` (`github_runner_queue.py:42`)
accepts nothing there but itself and the listener: the guardian keeps the marker, the next
job is denied, and intake stops until an administrator clears it. This errs on the safe side
(`CapacityHeld` holds); what it costs is availability, and what the document says.

**A job of a timer may run while its files are rolled back** (run `units_timer`).
`docs/agents/contributing/transaction-safety.md:45` says that an uncertain start requires checked
quiescence of the job before files are restored, and `replace_units`
(`unit_transaction.py:421`) says the same. The rollback stops units in the order in which they were
touched. In a first installation the timer was not loaded before, so its
deactivation does not touch it, and the job, started before its timer is armed,
comes first: it is confirmed stopped while the timer can start it again, and
then its files are restored or unlinked while it runs. `QuiescentUnlessNewTimer` shows that
this is the only such case.

Observed on the way, and not counted as findings: a power loss soon after a
publication can bring back its temporary, whose removal is not synced, and then every
retention operation refuses the store until an administrator removes it
(`PruningCompletes` excepts it by name); a worker that dies while it publishes leaves
the same.

An operator who repairs the usage of a task (`update`) while a run of it still owes its
accounting is charged for that run again once its receipt is readable (`agent_tasks.py:1196`), although
`docs/agents/agent-tasks.md:665` says that it is charged once; the error is on the safe side of the budget, and
`UsageAccounted` bounds the counter from above only where nothing was repaired. An
explicit run of a task whose failures have reached its limit, but that was not paused for them, is
dropped once by the next tick (`EnforceLimits`), which pauses it; only the second attempt runs.

The charge of a run (`_record_outcome`, `agent_tasks.py:1352`) is added without a limit, while
`_validate_state` (line 877) refuses a counter past 10^15 and a recovery checks for that (line 1200). A
repair may set the counter to 10^15 (lines 284 and 1121); the next run of that task, if it has no token
budget, then saves a state that every later load refuses, and all tasks of the account stop until the file is
mended by hand. It takes a repair to the limit, or as much real usage. No document or test
speaks of this limit, so there is no claim for a run to refute; `StateLoads` excepts the case by name,
and `SavedStateLoads` proves that nothing else makes a saved state one that is refused.

## 8. Hazards

`PROJECT.json` lists the hazards of this code at the lines where they bite, each with the
properties that would notice. All of them belong to modelled components. One has no property, and the one of a
saved state that blocks its account is covered but for the case of section 7; each says so in a note. Three
have a property that the code violates (section 7).

## 9. Plan

What could come next, each with its runs, mutants and proofs:

1. **The controller's delivery** (`build_delivery.py`), which drives several targets and retries, over
   `TargetRollout` as what it may assume of each.
2. The manifest deployment behind `Deploy`, as a composition of unit transactions.
3. The privilege broker and device pairing; publishing; the follow-ups, goals and storage operations of agent tasks.

## 10. Not modelled

File identity, ownership and permission checks; formats, digests and encodings beyond
equality; logging; authentication; the readers' record locks, which only make
maintenance fail without a change; initialisation of stores; the preparation marker and
native commands of scratch filesystems; the external-power variant of the reboot drain
and reentrant maintenance; expiry of deployments, and their owners and policies, which only refuse; the
controller's side of a delivery; of agent tasks what section 2.10 lists; the guarded replay of setup (`_check_expected`), which only
refuses; all components marked `not_modelled` in `PROJECT.json`, each
with its reason there.
