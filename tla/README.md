# A TLA+ development of Symphony Pilot

Symphony Pilot drives one repository task at a time through a contained coding agent. A Runtime (not in this
repository) dispatches tasks; short-lived host processes prepare the task's Git workspace, allocate an
"Architect" attempt, judge its result and record it in a SQLite control-plane database; the operator queues tasks,
resolves blockers, repairs workspaces, publishes and starts or stops the Runtime. This directory models that
system in TLA+, checks it with TLC on small instances and proves its main safety properties with TLAPS for all of them.

All line numbers in `PROJECT.json` and in this file are of the repository's source.

## 1. Inventory

| Component | Source | State | Operations | Talks to |
|---|---|---|---|---|
| task lifecycle | `runtime/lifecycle.py`, `before_run.py`, `after_run.py` | rows of tasks, workpads, role_runs, findings, blockers, events; inbox and result files | allocate, stage, reconcile (9 outcomes), fail an attempt | database (one `BEGIN IMMEDIATE` each), workspace (Git), Runtime (hook exit codes) |
| workspace preparation | `runtime/prepare_workspace.py` | checkout, branch, `.git/symphony-preparation.json` | `prepare`: facts, boundary, ownership, fetch, reset or continuation check | database (outside any transaction), Git, `/proc` |
| task commands | `scripts/task.py` | none of its own | create, queue, list, show, resolve-blocker, fail-attempt, publish | database, lifecycle, publication |
| control-plane database | `runtime/control_db.py` | all rows; schema version; open handles of the process | migrations, one method per transition, backup, restore | everyone |
| rendered workflow / Runtime | `runtime/render_workflow.py` | Runtime's own, external | polls active tasks, runs the hooks around an agent, one agent at a time | hooks |
| publication broker | `runtime/publication.py` | publications row, `published_head`, lock file; branch and pull request on GitHub | publish | database, Git, GitHub |
| rulesets | `runtime/rulesets.py` | none | evaluates the default branch's rulesets | publication, project control |
| publication key | `runtime/publication_key.py`, `scripts/provision_*.py` | key file | load, provision | publication |
| project control | `scripts/project.py`, `runtime/process_identity.py` | pid file, Runtime process | start, stop, stop-now, finish, status | Runtime (signals, HTTP), awake guard, deployment |
| host integration | `runtime/host_integration.py` | awake guard file and helper process; notification records | establish, recover, release; notify | project control |
| host API, control UI | `runtime/host_api.py`, `scripts/serve_control_ui.py`, `web/` | none | read views, dispatch of control commands | project control, database |
| deployment | `scripts/deploy.py`, `runtime/deployment_contract.py` | installed tree, manifest | build a stage, swap it in | project control |
| registry, profiles | `runtime/project_registry.py`, `scripts/validate_profile.py`, `schemas/`, `projects/` | none | validate, resolve | all commands |
| workspace boundary | `runtime/workspace_boundary.py` | none | path and link checks | preparation, lifecycle |
| containment, WSL adapter | `runtime/containment.py`, `wsl_contained_exec.py`, `launch_codex.sh`, `scripts/wsl_adapter.py` | child processes, drain threads | bounded execution, teardown | Runtime, agent |
| runtime lock | `runtime/runtime_lock.py`, `scripts/pin_runtime.py` | lock file | pin, verify | project control |
| retired paths | `runtime/outbox.py`, `task_admission.py`, `before_remove.py` | none in use | - | - |

### What is hard, and what makes each part correct

* **Lifecycle.** Every hook is a process of its own that reads, decides and commits; hooks of the Runtime and the
  operator's commands overlap, are killed between any two steps, and compensate failures on a best-effort basis.
  Correct means: one attempt at a time; a result is judged against rows that still are what its packet said; every
  acceptance belongs to one exact HEAD and dies with it; a correction owed is never skipped and never becomes
  impossible to complete; an attempt never ends without a trace; an attempt never stays started for ever; no attempt
  passes an open blocker.
* **Preparation.** Facts, ownership and the reset are three separate moments. Correct means: the agent starts at the
  HEAD its packet names; a HEAD that is accepted is the one that is checked out.
* **Publication.** Effects on GitHub cannot be rolled back, answers get lost, publishers are killed, people act on the
  repository meanwhile. Correct means: durable intent before effects; at most one pull request; never overwriting
  somebody's branch; row, `published_head` and state agree; READY is final and backed by GitHub; a retry can always
  take up what is left.
* **Project control and host integration.** The pid file, the Runtime's process and the awake guard change separately;
  concurrent `start`, `stop` and `status` see each other's intermediate states. Correct means: SAFE TO SHUT DOWN only
  when nothing runs; never a signal to a reused pid; no helper without a record.
* **Database maintenance.** SQLite keeps what is committed in a file and in a log beside it; processes are killed, close
  in any order, migrate at the same time, back up and restore. Correct means: all of that is one store whose content
  grows by one task at a time; nobody works on a replaced file; a restore installs exactly what it validated.
* **Deployment.** Two renames with a kill or another deployer between them, and readers between those. Correct means:
  nothing partial is ever found, one complete tree always exists, and what was accepted is what the checkout asked for.
* **Contained execution.** A deadline, an output limit, a reader error, a kill and the child's own end race each other at
  two levels. Correct means: every call is answered, and "completed" means all output, no process left, sound outputs.

`PROJECT.json` lists each hazard at its line with the properties that watch it.

## 2. Modules

| Module | Role |
|---|---|
| `TaskContract` | abstract specification: phase, head, evidence for exactly that head, correction owed, attempt busy |
| `Lifecycle` | the task from PREPARED on: rows, workspace, hooks, operator commands, agent, crashes; a publication in two actions |
| `MCLifecycle` | instances of `Lifecycle` (symmetry) |
| `LifecycleProofs` | inductive invariant and safety theorems of `Lifecycle` |
| `ContractProofs` | `Lifecycle` implements `TaskContract` |
| `Publication` | `task.py publish` from ARCHIVIST to READY_FOR_HUMAN_MERGE against GitHub |
| `MCPublication` | instances of `Publication` |
| `PublicationProofs` | inductive invariant and all safety theorems of `Publication` |
| `TaskSystem` | `Lifecycle` and `Publication` on the same rows, from PREPARED to READY_FOR_HUMAN_MERGE |
| `MCTaskSystem` | instance of `TaskSystem` (symmetry, one bound) |
| `TaskSystemProofs` | the composition keeps both invariants and implements both parts; the end-to-end theorems |
| `ProjectControl` | `project.py` and the awake guard over pid file, Runtime process, helper process, kills and reboots |
| `MCProjectControl` | instances of `ProjectControl` |
| `ControlProofs` | inductive invariants and safety theorems of `ProjectControl` |
| `StoreContract` | abstract specification: one content, one backup file, copies under way |
| `ControlStore` | `control_db.py` below its transactions: open, migrate, allocate, close, backup, restore over SQLite's file and log |
| `MCControlStore` | instances of `ControlStore` |
| `StoreProofs` | safety theorems of `ControlStore`; it implements `StoreContract` |
| `Deployment` | `deploy.py`'s stage and swap, and those who verify and import from the path |
| `MCDeployment` | instance of `Deployment` |
| `DeploymentProofs` | inductive invariant and all safety theorems of `Deployment` |
| `ContainedExecution` | the WSL adapter's call, the Linux supervisor and the contained namespace |
| `MCContainedExecution` | instance of `ContainedExecution` |
| `ContainedProofs` | inductive invariant and all safety properties of `ContainedExecution` |

### Lifecycle

A SQLite transaction is one action; whatever a process reads outside of it is an earlier action that stores what was
read in the process's local record `process[p]` (`step`, `head`, `run`, `aim`).

| Code | Actions |
|---|---|
| `task.py create`, `queue`, `resolve-blocker` | `Init`, `QueueTask`, `ResolveBlocker` |
| `task.py fail-attempt` | `OperatorFailsAttempt` (launched for an attempt the operator saw), `FindStartedAttempt` (read before the transaction), `FailAttempt` (transaction) |
| `prepare` | `Dispatch` (facts read), `PrepareWorkspace` (ownership check, then reset or continuation check, marker rewritten), `PrepareFails` |
| `_allocate_architect_attempt` | `AllocateAttempt`, `AllocationConflict` (exit without a blocker), `AllocationFails` |
| `prepare_attempt` after the allocation | `StageAttempt` (inbox and marker; the Runtime starts the agent), `StagingFails` |
| contained agent | `AgentWorks` (any commit on the base, or a refused tree), `AgentEnds` |
| `reconcile` | `AfterRun` (marker and started run), `VerifyGitTruth`, then one action per outcome of `_reconcile`, or `RejectResult` |
| `after_run`'s compensation | `FindStartedAttempt`, `FailAttempt` |
| a killed process | `Crash`, at any step |

The nine outcomes of `_reconcile` are `PlanningComplete`, `ImplementationComplete`, `ReviewApproved`,
`AdversaryPass`, `ValidationPass`, `ArchiveComplete`, `CorrectionRequired` (asked for by the reviewer, the
adversary or the validation), `CorrectionComplete`, and `blocked` split by whether an IMPLEMENTER ran
(`BlockedReadOnly`, `BlockedImplementer`).

Abstractions: a result is chosen when it is reconciled, so that it may have any content the agent could have
written; `RejectResult` stands for every content that is refused. The agent echoes the identifiers of its packet
honestly (a dishonest echo is refused, which is `RejectResult`). A finding keeps only whether it is unused, licensed
for a correction, and for which round, or resolved. `changes` counts `head_changed` events, which is what
`_current_acceptance` compares event sequence numbers with. The tree of the checkout is clean, dirty, or elsewhere
(another branch, or a commit off the base). The operator repairs a checkout only when no agent and no hook runs.

### Publication

`publisher[p].step` is the program counter of `publish_task`; every remote call and every transaction is an action,
with its own failure (`CallFails`, `LoseLease`, `RefuseBranch`, `FinalizationFails`, `CleanUp` that raises after the
commit) and, for the push and the creation, an outcome in which the effect happened and the answer was lost. A failure
goes to `FailPublication`, the handler at line 424. The task's head is not a variable: it cannot change at ARCHIVIST
(`CloseoutComplete`, `ExactHeadEvidence`), so a remote head is the task's or it is not. A call's effect lands before
its process's next step or its death; an effect that is delayed past the death of its process is not modelled.
Other people push, delete, close, undraft, open and change the ruleset when `OthersAct`; the history variable
`disturbed` remembers that they did, because READY can be relied on to have its evidence on GitHub only while they have
not. Until ARCHIVIST nothing is published, and `BeforeCloseout` lets state, blockers and hooks change in any way that ends at
closeout without an effect outside; from then on `LateHookEnds` is a hook that began before and ends, with a blocker or without.

### TaskSystem

`SystemNext` has the real hooks, commands and agents of `Lifecycle` (`LifecycleStep`) where `Publication` has
`BeforeCloseout`, `LateHookEnds` and its own `ResolveBlocker`, and the publishers of `Publication` (`PublisherStep`) where
`Lifecycle` has `PublicationBlocked` and `PublicationFinalized`. They share `tasks.state` and the open blockers. What remains
between them is `verify_workspace` with `process_owns_workspace`: `PublisherStep` reaches `start_publication` only when the
checkout is free, clean and at the task's head (`WorkspaceAtHead`). The hooks that may still record a blocker at closeout are
those in `prepare` or before the allocation (`Preparing`); all others that end then compensate an attempt that is over.

### ProjectControl

A command is a host process (`command[p]`) whose reads, signals, waits and writes are separate actions.

| Code | Actions |
|---|---|
| `start` up to its launch | `StartAdmitted`, `StartRefused` |
| `establish_awake_guard` | `GuardStands`, `RecoverGuard`, `LaunchHelper`, `GuardRefused`, `HelperUnverified`, `CreateGuardFile`, `WriteGuardFile` |
| `Popen`, `capture`, `_write_process_state` | `LaunchRuntime`, `LaunchFails`, `RuntimeUnverified`, `CreatePidFile`, `WritePidFile` |
| the wait for the dashboard and the shutdown after it | `StartSucceeds`, `StartSeesExit`, `StartTimesOut`, `SignalRuntime`, `StartGivesUp` |
| `stop`, `stop-now`, `recovery_stop_now` | `ReadNothing`, `ReadRefused`, `ReadStale`, `ReadLive`, `ViewIdle`, `ViewRefused`, `SignalRuntime`, `WaitForExit`, `CompleteStop` |
| `finish` | `FinishFindsNothing`, `FinishFinds`, `Drained`, `DrainRefused`, then `stop` |
| `status` | `StatusRunning`, `StatusStopped`, `CompleteStop` |
| `release_awake_guard_at` and the report | `ReleaseNothing`, `ReleaseRefused`, `ReleaseStale`, `ReleaseLive`, `SignalHelper`, `HelperReleased`, `HelperRetained`, `Report` |

A launched process is up, serving its dashboard, working, ending after a signal, a zombie, gone, or gone with its pid
reused. `IdentityAlive` is `matches` (boot id and start time); a zombie keeps both. A child that ends while the command
that launched it lives is a zombie until the command polls it or exits. A file is created empty and written later, so
that a kill in between leaves an empty one. A reboot ends every process and leaves the files. `recorded`, `guarded` and
`struck` are history variables: whom the files have ever named, and whether a signal reached a stranger.

Abstractions: the deployment, lock and containment checks of `start` are one refusal; failed signals and keyboard
interrupts end a command as `Crash` does; `recovery_status` and `test` change nothing and are left out; a pid is not
handed out again in the moment between a command's look at an identity and its signal (the code has no pidfd, and the
models say nothing of that window). A Runtime whose `start` was killed before it wrote the pid file is seen by no
command: SAFE TO SHUT DOWN is claimed of recorded processes only.

### ControlStore

`file[f]` are the rows of the file that was at the database's path before the f-th restore, `live` says which of them is
there now, and `wal` the rows in the log. What SQLite does is external and modelled by its documented behaviour: a
reader sees its open file with the log over it (`Seen`), a commit goes to the log, a checkpoint moves the log into the
file its connection has open, and the last writable connection to close does that too. A killed process, or a read-only
connection that closes last, leaves the log.

| Code | Actions |
|---|---|
| `_connect_raw`, `_configure_connection`, the version read in `_migrate` | `Connect` |
| `open_readonly` | `ConnectReadonly` |
| the transaction of `_migrate`; its failure in `open` | `Migrate`; `MigrationOvertaken` |
| `create_task` with `_allocate_identifier` | `Create` |
| `close` | `Close` |
| `backup_to` up to and including the validation; `os.replace` | `BackupCopies`; `BackupReplaces` |
| `restore_from`: guard and copies; `os.replace` | `RestoreCopies` (`RestoreAdmitted`); `RestoreReplaces` |

A row is the schema with its history, a task by its number, or `Damage`, which stands for everything that
`_validate_schema` refuses. Other writes are transactions like `Create` and are the subject of `Lifecycle` and
`Publication`. A create with an identifier given by the caller is used by tests only and left out. `RestoreWhen` is the operator's discipline: `any` time, with all others `offline`, or offline with the log empty
(`clean`).

### Deployment

A tree is where its files were copied from, the contract and the commit in its manifest, and whether `DEPLOYMENT.json`
has been written; digests are compared by comparing what they are digests of. `Begin`, `CopyFiles`, `Seal`, `Look`,
`MoveAside` and `Install` are `deploy()` between its reads and writes of shared files; a rename onto a directory that is
not empty raises (`Overtaken`), anything else may raise or be killed (`Fail`). A reader is a start
(`verify_deployment`) or a supervisor (`_validate_deployment`, then `_load_containment`): manifest, files, and contract
or import are separate reads of whatever the path names by then. Assumption: the operator does not move the checkout
while a deployer works (`Switch`); the code reads the commit first and digests the contract last and would not notice.
Two renames aside within the same second are one name, which is one of the failures.

### ContainedExecution

Two waits of the same shape, one inside the other: `host["adapter"]` is `_bounded_process`, `host["domain"]` is
`run_task_domain`. Each launches a child and two draining threads, watches for the child's end, a reader's failure, a
full buffer and the deadline (`Stop`, for one of the `Reasons` that hold), waits again after a kill (`WaitExpires`),
joins the threads (`JoinExpires`) and makes an answer (`AdapterAnswer`, `DomainAnswer`). Between them `entry` is
`wsl_contained_exec`: checks, the run, `_validate_outputs` in the `finally` clause, printing and the exit status.
Output is counted in chunks of the 8192 bytes that a thread reads; the limit of 4 MiB is 512 of them, and a
`MaxOutput` of 1 has every case of it (below, at, above). The deadline is a choice that may be made at any iteration.
The contained processes write, close their streams, change the release outputs, end or are killed with their parent.

## 3. Runs

| Run | Instance | Question |
|---|---|---|
| `task_system` | 2 processes, 1 publisher, 2 commits, 1 finding, 6 attempts, 1 blocker, 1 pull request; others act late | the safety properties and the refinement of `TaskContract` when hooks, commands, agent, publisher, other people and crashes interleave, up to READY; each part does what the other one lets it |
| `lifecycle_serial` | 1 process, 3 commits, 1 finding, 8 attempts, 9 blockers, fair | long histories, to ARCHIVIST with corrections and blocked rounds: agents start at the selected HEAD when hooks do not overlap; every started attempt ends |
| `lifecycle_stale_facts` | 2 processes, 4 attempts | finding 1 |
| `lifecycle_wrong_attempt` | 2 processes, 4 attempts | finding 2 |
| `publication` | 2 publishers, others act, 2 pull requests, 2 blockers, 2 hooks | rows, intent, pull request, branch and READY are as they should be, whoever else acts |
| `publication_live` | 1 publisher, 3 blockers, fair | the task becomes ready |
| `control` | 1 command at a time, 2 Runtimes, 2 helpers | records outlive their processes, the guard its Runtime; SAFE TO SHUT DOWN is true; no stranger is signalled; every command ends |
| `control_overlap` | 2 commands at once | finding 3 |
| `contained_execution` | 1 call, 1 chunk per stream and pipe, fair | "completed" is whole, over and clean; every call is answered; a domain is ended |
| `control_store` | 3 processes, 3 numbers, 2 restores, `clean` | handles are live, restores exact, and the whole is `StoreContract` |
| `restored_is_backup` | 2 processes, 3 numbers, 1 restore, `offline` | finding 4 |
| `deployment` | 2 deployers, 1 reader, 2 releases, 2 failures, fair | nothing partial is found, nothing is lost, an empty target is repaired |

Bounds. Two processes are enough for every race here, since each race is between one reader and one writer of the
rows; the proofs cover any number. In `task_system` six attempts are the way to ARCHIVIST (planning, implementation, review,
adversary, validation, archive), or a correction round on part of it; two commits are the base and one accepted HEAD, between
which a correction may go to and fro. In `lifecycle_serial` a third commit allows a correction and a return to an old HEAD,
and eight attempts reach ARCHIVIST with corrections and blocked rounds in between. `MaxBlockers` only bounds how many are open at
once; in the fair run it exceeds the attempts, so that the bound never stops a hook. Two pull requests are one more than is
ever allowed; `task_system` has one, because `publication` has two. `OthersActLate` bounds `task_system` further: other
people begin to act when the task is at closeout and the last hook has ended, since the repository is nothing to a hook, and
`publication` has both at once. Every safety property of `task_system` is a theorem without these bounds.

In `control_store` two restores give three files: the one before, the one that a stale handle would keep, and the one at
the path; three numbers let a hole and an exhausted space occur. In `deployment` two releases are an installed one and
its successor, two failures put a kill between each pair of renames and on the deployer that repairs it; one reader is
enough because readers change nothing. In `contained_execution` one chunk more than the buffer is what every limit needs,
and the two levels do not share a pipe.

In `control` two launches are a Runtime and the one after it, which is what a stale record, a reused pid or a second
start needs. Commands there run one after the other, killed anywhere: `project.py` takes no lock, and the last run
shows that the records mean nothing when commands overlap.

The invariants of the proofs were model-checked with these instances first. `NoAttemptPastBlocker`, `PublishedIsFinal`,
`CloseoutIsFrozen`, `NumbersAreDense` and the types of `ControlStore`, `Deployment` and `ProjectControl` were too; they are
proved (`BlockersStopAttempts`, `FinalizedStaysFinal`, `CloseoutFreezes`, `NumbersStayDense`, `StoreTypes`, `DeploymentTypes`,
`ControlTypeCorrect`) and have no run any more.
Deadlock is checked in every run but `contained_execution`, whose one call ends: elsewhere an operator can always act.
Symmetry is used in safety runs only.

### Fairness

`Lifecycle`: a hook that is not killed takes its next step (weak), the agent ends by its time limit (weak), the
operator resolves blockers (weak) and repeats `fail-attempt` as `docs/RECOVERY.md` prescribes; for the last command and
its two reads fairness is strong, i.e. it is not killed or disabled at the same point for ever. Nothing is assumed of
`Dispatch`, of the agent's success or of `Crash` not happening.
`Publication`: the operator publishes again while the task is not ready and resolves blockers; no call fails, and no
process is killed, for ever at the same point (strong, on each step of the successful path).
`ContainedExecution`: the main loops of adapter and supervisor go on, which includes that a deadline is met (weak), the
supervisor's own steps (weak) and the kernel's: what was signalled ends (weak). Nothing is assumed of the command, nor of
the draining threads: the code joins them with a limit of time for that reason.
`Deployment`: a deployer takes its next step, and an operator who finds nothing at the target deploys again (weak).
`ProjectControl`: a command takes its next step, a signalled process ends, an issue ends (all weak); a finish that waits
is shown an idle Runtime at last rather than the next issue each time (strong), and gives up when nobody answers (weak).
The first three are the operating system's and the agent's time limit; the fourth is an assumption on the Runtime's
queue, since `finish` refuses any other issue it sees.

## 4. Proofs

Assumption: `LifecycleAssumption` (the base is a commit, `NoHead` is not, the bounds are naturals). The sets of
processes, commits and findings are arbitrary, infinite ones included.

`LifecycleProofs` proves `Spec => []Inv` for

    Inv = TypeOK /\ GitTruthIsCommit /\ QuietUntilQueued /\ SingleAttempt /\ PacketIsCurrent
          /\ LicenseForNextRound /\ ExactHeadEvidence /\ CloseoutComplete

The properties are not inductive one by one. `GitTruthIsCommit` says that a hook about to reconcile holds a commit on
the base, without which a moved HEAD has no type. `QuietUntilQueued` says that nothing is started before the task is
queued, without which `QueueTask` would change what a packet says. `PacketIsCurrent` needs `SingleAttempt`, because a
second attempt's result would change the rows under the first; `CloseoutComplete` at ARCHIVIST needs it as well.
`ExactHeadEvidence` uses that every move of the HEAD lands in a state without evidence, or leaves a correction owed, and
that `CorrectionComplete` goes back to IMPLEMENTED. `LicenseForNextRound` follows the two actions that consume a round.
`StepCases` classifies the steps of `Next` as seen from the task's rows (queue, quiet, allocate, reconcile), so that the
later lemmas have four cases instead of thirty. From `[]Inv` follow the theorems `TypeCorrect`,
`AttemptsAreExclusive`, `PacketsStayCurrent`, `LicensesStayUsable`, `EvidenceIsExact`, `CloseoutIsComplete` and the
action properties `BlockersStopAttempts` and `AttemptsLeaveTraces`.

`AcceptedHeadsAreCheckedOut` has an invariant of its own, `WorkspaceIsHeld`. The checkout is read before the transaction
that accepts its HEAD, with no lock on it; what keeps everybody else out is that a preparation looks for other hooks'
processes, and that it clears the marker, so that until its attempt is staged no hook takes an attempt for one to judge.
Hence a hook between preparation and staging is the only one, and no agent can be started under a hook that judges.

`CheckoutStaysAtHead` says that the checkout a publication bundles is the accepted one, although a hook that began before
closeout may still prepare it, from facts that are stale by then. Its invariant `CheckoutInv` adds to these
`CloseoutIsQuiet` (at closeout no agent works and none is about to be launched) and `StaleFactsAreLate`: a hook prepares from
an older HEAD than the task's only as long as no attempt is started and none can be, for whoever could start one would have
to prepare too, and looks for that hook's process. So stale facts never meet a task at closeout, which takes another attempt.

Findings 1 and 2 are violations of what the documents promise, and the theorems `LaunchesAreCurrent` and `AimedAttemptsFail`
name exactly what lets them happen. `LaunchedAtSelectedHead` holds whenever no hook reconciles while another prepares and no
attempt is failed while it is staged (`FactsStayCurrent`); `ExactAttemptFailed` holds whenever no hook allocates while a
`fail-attempt` runs (`NoneAllocatedBeside`). Hooks, crashes, commands and agents overlap otherwise as they like. The hypotheses
are on the behaviour, since nothing in the code gives them; with each as a constraint on the instances of the findings, TLC
finds the property true, and without it the counterexample.

`ContractProofs` adds `AcceptancesPast` (no acceptance is numbered with a later count of changes than the present one,
so that a new `head_changed` event empties the evidence) and proves that initial states map to initial states and every
step to a step or a stutter: `Spec => ImplementsContract`.

`ControlProofs` has two invariants, under `ControlAssumption` (the number of launches is a natural). `SafetyInv` holds
for any set of commands: types, `StepsNameProcesses` (a step that works on a process names a launched one) and
`SignalsAreProven` (whoever is about to be signalled was looked at and its pid is not reused yet), from which
`StrangersAreNotSignalled` follows. `RecordsInv` holds under the hypothesis `OneAtATime` (no two commands overlap; finding
3 shows that it is needed), for any number of launches: `RecordsName` (a recorded process that runs is named by its
file), what each file holds at each step of a command (`PidFileAtStep`, `AwakeFileAtStep`), whose Runtime a command works
on (`RuntimeAtStep`), and that nothing runs from the release on (`QuietAtRelease`). `RecordsName` alone is not
inductive: that `CompleteStop` removes the right record needs the file's content at `complete`, which needs it at every
step that leads there; and that a launch does not revive a recorded number needs `RecordedAreLaunched`. The theorems
`RuntimeIsSingle`, `RecordsAreKept`, `GuardIsKept` and `SafeIsSafe` follow, and so does `BookkeepingIsKept`: with one command at a
time the property of finding 3 holds.

`PublicationProofs` proves every safety property of `Publication`, for any number of publishers, blockers, hooks and
pull requests and whatever other people do. `PublicationInv` adds to the properties `LockHeld` (one publisher at most is
under way), `PublishersAreSound` (from `start_publication` to the finalization the row is "started"; a publisher that is
about to open a pull request knows of none that is ours; in an undisturbed repository one that works with a pull request
works with the first and only one) and `UndisturbedIsOurs` (branch and pull request are then as we made them). The first
makes the listing of a publisher true until it creates: nobody else of ours can create in between. One lemma per action
that changes something; the many that change only the publisher are instances of `QuietSteps`.

`TaskSystemProofs` composes the two. Each part has an abstraction of the other, and what a theorem of one part is worth in the
whole depends on that abstraction. `SystemInv` is the conjunction of both invariants; `LifecycleSteps` shows that a step of
a hook, command or agent is one that `Publication` has (one of `BeforeCloseout`, `LateHookEnds`, `ResolveBlocker`, or a stutter),
and `PublisherSteps` that a step of a publisher is one that `Lifecycle` has. For the first it needs `CheckoutInv`: at closeout
nothing is started, so a compensation has nothing to fail and a late allocation is refused. For the second it needs
`PublicationInv`: who is past `start_publication` holds the only started row, and the task is at ARCHIVIST.
`SystemImplementsLifecycle` and `SystemImplementsPublication` follow, and with them all theorems of both parts.
`NothingLeavesUnearned` joins the intent, which `Publication` knows to precede every effect, with the evidence, which
`Lifecycle` knows to be complete at closeout; `CloseoutFreezes` says that what a publisher has read of it stays; and
`ReadyIsEarnedAndPublished` is the whole way, from `task.py queue` to the pull request that waits for a human. There are no
assumptions beyond those of the two parts.

`StoreProofs` proves the types of `ControlStore` for every discipline of the operator, `HandlesStayLive` under
`RestoresOffline` (restores happen with every other process offline), and density, exact restores and the refinement of
`StoreContract` under `RestoresClean` (the log is empty too). These two are hypotheses on the constant `RestoreWhen`;
finding 4 shows that the second is needed. `OfflineInv` says that whoever restores is alone and without a connection, for
`restore_from` itself knows nothing of the other processes. `CleanInv` adds that the log stays empty while a restore is
under way, that a content without its schema is empty, and that backup and copies under way are dense and, where they
are to be installed, sound. The steps of a process map to a step of the store or to a stutter, a checkpoint and a close always to one.

`DeploymentProofs` proves every safety property of `Deployment` for any number of deployers, readers and releases:
`DeploymentInv` says what a stage holds at each step of its deployer (`files`, then `contract` and seal, of one commit,
since the checkout does not move under it), that every tree at or beside the target is whole, and what a reader's two
reads have established.

`ContainedProofs` proves the types of `ContainedExecution` and `CompletedIsTrue`, for any limit of output and size of
pipe. `WaitsAreSound` says what a wait's termination means for its child and its threads, `EndsAreReal` that a thread that
met the end left nothing, `NothingTooEarly` that what the adapter reads was printed by the supervisor, `DomainIsOver` what
the domain's answer implies, and `PrintsAreWhole` that buffer, pipe and what is still to print add up to the output of
the command unless the adapter's limit cut it.

A note for whoever extends the proofs: tlapm 1.4.5 encodes `[f EXCEPT ![x].a = .., ![x].b = ..]` wrongly for its SMT
backend (it can then prove FALSE), and expands a doubly nested `@` wrongly; the modules write
`[f EXCEPT ![x] = [@ EXCEPT !.a = .., !.b = ..]]` and name inner updates (`Sealed`). The proofs of `Publication`, `ControlStore`,
`ContainedExecution`, `ProjectControl` and of who holds the checkout were tried against deliberately false variants of model or lemma and fail there.

Only model-checked is liveness (`AttemptEnds`, `EventuallyReady`, `CommandEnds`, `CallEnds`, `DomainIsEnded`, `TargetReturns`): fairness
and `ENABLED` are out of the prover's reach. `LaunchedAtSelectedHead` in `lifecycle_serial`, with a single host process, is an
instance of `LaunchesAreCurrent`: one process is never at two steps.

## 5. Where the code and its documents disagree

1. `lifecycle_stale_facts`: `prepare` reads the task's facts (`prepare_workspace.py:453`) before it checks ownership
   (`:488`) and resets by them (`:561`). If another hook accepts the first HEAD in between, the checkout is reset to the
   base although `current_head` is set, and the next agent starts there. `docs/STEP6_IMPLEMENTATION.md:106-109` promises
   exact equality between the local HEAD and `current_head`. What bounds the damage is proved: the evidence stays exact.
2. `lifecycle_wrong_attempt`: `fail-attempt` fails whatever run is started when it reads (`lifecycle.py:787`);
   `docs/RECOVERY.md:13-14` says it marks that exact run failed.
3. `control_overlap`: `status` looks (`project.py:528`), and unlinks (`:531`) what a `start` has written since; the
   Runtime then runs without a record. `stop` and `_complete_process_stop` can do the same to the next Runtime, although
   `:165` says that bookkeeping is removed only after the stop.
4. `restored_is_backup`: `restore_from` replaces the main file (`control_db.py:1641`) and leaves the log at the path. After
   a kill, or when the last handle to close was read-only, the log is replayed over the restored file and its commits are
   back. The open-handle count (`:1618`) is of the own process only. `docs/SQLITE_CONTRACT.md:203-208` says that restore
   requires the database offline, tracked by handles, and then atomically replaces it.

Two more observations have no run of their own. A correction may complete at the base or at an older HEAD
(`lifecycle.py:656` compares with the selected HEAD only), where `docs/STEP6_IMPLEMENTATION.md:96` speaks of a new
descendant HEAD; `Lifecycle` allows it as the code does, and `ExactHeadEvidence` holds all the same. And a `start` that
fails after it has launched the awake helper signals it but never reaps it: the zombie still matches at the deadline
(`host_integration.py:193`), so the record is retained and the cleanup reported incomplete, although `:165-166` says that
False means a malformed record or a live helper; `ProjectControl` models the zombie.

A second process that opens a fresh database while the first migrates it does not wait for the result: the version was
read before `BEGIN IMMEDIATE` (`control_db.py:666`, `:681`), the first `CREATE TABLE` fails, and `open` raises
(`MigrationOvertaken`). Nothing is damaged, which is what `ImplementsStore` shows.

## 6. Not modelled

* The ruleset evaluation, key handling, registry, boundary checks and runtime lock are pure checks whose refusal is a
  failure the models already allow.
* The mount script, capability probe and self-test fixtures of `containment.py` and `launch_codex.sh` are shell text.
* Role policies and the fixture tools have no state. The host API and the control UI show what others keep and call
  project control.
* Two contained calls at once (they share `bin` and `burrito_out` without a lock), an effect on GitHub that lands after the
  death of its process, a checkout that moves under a deployer, and a pid that is reused between a look and its signal.

## 7. Plan

1. Pure algorithms: ruleset evaluation and result validation as operators against reference definitions.
2. The Runtime's dispatch against the idle view of `stop` and `finish` (`project.py:482`), which needs `ProjectControl` and
   the hooks of `Lifecycle` together.
3. Proofs: `OneAtATime` as a hypothesis on behaviours, as `FactsStayCurrent` is, so that the theorems name the windows
   that overlapping commands may not enter, rather than forbid a second operator altogether.
4. Two tasks over one Runtime: one agent at a time, a workspace each, one publication lock each.
