# Formal verification of AI_ENT

TLA+ modules, TLC configurations and TLAPS proofs for the AI_ENT program: a
controller that keeps a plan of tasks in PostgreSQL, hands each task to a coding
executor in a git worktree, verifies what it produced, commits it, and records
what happened so that nothing is lost, repeated or believed without evidence.

## 1. The system

### Components, state, operations

| Component (source) | State it keeps | Operations | Hard behaviour |
|---|---|---|---|
| Guarded run (`scheduler/guarded.py`) | one database session, a summary checkpoint | `run` | start-up after a crash; two runs at once |
| Bounded run (`scheduler/bounded.py`) | counters of the run, the session | `run`, `_run_task`, the repair loop, `_persist_attempt_boundary` | order of commits, limits, exceptions that roll back |
| Iteration (`scheduler/iteration.py`) | none | `run_once` | a ready list that is old by the time it is used |
| Readiness (`scheduler/readiness.py`) | none (derived) | `list_ready_tasks`, `evaluate_task` | reads unrefreshed objects of the session |
| Claiming and leases (`scheduler/claiming.py`, `repositories/leases.py`) | `TaskLease` rows, row locks | `claim_task`, `renew`, `release`, `complete` | expiry against a frozen clock, stale status under a lock |
| Durability (`scheduler/durability.py`) | none | `persist_execution_ownership` | the commit before the execution |
| Claimed execution (`scheduler/execution.py`) | `Execution`, worktree | `run_claimed` | executor outlives the lease |
| Finalization (`scheduler/finalization.py`) | `Execution`, checkpoint, git | `finalize` | git commit and database commit are two commits |
| Repair (`scheduler/repair.py`) | a new `Execution` and lease | `classify`, `plan`, `run_once` | budgets, abandoned attempts |
| Recovery (`scheduler/recovery.py`) | none | `recover_project`, `recover_execution` | interrupted work is found, not guessed at |
| Hardening baseline (`scheduler/hardening_baseline.py`) | runtime checkpoints of the owner task | `advance`, `blocking_dependencies_for_claim` | generations, provenance of each integration |
| Runtime operations (`runtime_operations.py`) | leases, state snapshots | `plan`, `apply`, migration checks, shutdown | a clean-up plan older than the rows it changes |
| Bootstrap state (`bootstrap/state.py`, `state_reconciliation.py`) | a JSON file, `BootstrapRun`, its checkpoints, the authority row | `load_state`, `mark_completed`, `mark_blocked`, `migrate` | two stores and a cut-over between them |
| Runtime hand-off (`*_runtime_handoff.py`) | imports, task bindings, gates, authorities | import of a frozen plan | artifacts that change while they load; repeated, concurrent and conflicting imports |
| Runtime kernel (`runtime_kernel.py`) | none (reads the tables) | `evaluate_task` | gates and readiness are read one after the other |
| Project manifest (`project_manifest.py`) | artifacts under `.build` | compile, plan, feasibility, dry run, freeze | graph algorithms; artifacts that do not fit each other |
| External projects (`external_project.py`) | workspace directories, marker, git remote, archive | validation, provisioning, operations | nothing is locked; calls end halfway |
| Residual planning (`post_implementation.py`, `residual_*.py`) | PIR-001, plan, feasibility report, RPG-001 | review, plan, feasibility, freeze, acceptance, loading | the review and the environment are read again in every step |
| Product planning (`product_*.py`) | artifacts | feasibility, dry run, acceptance | a second chain of the same kind, pinned to one plan |
| Knowledge, generation, governance | artifacts, versions | staged pipelines | stale and superseded versions |
| Product API, UI, deployment | what the tables hold | read-only projections | none |

The components meet in four places: the database tables (tasks, executions,
leases, checkpoints, imports, gates), the git repository with its worktrees, the
artifacts under `.build`, and the Python session object that one run carries
through all its steps. None of them calls back into another; what makes the
program hard is that several processes share the tables while each keeps its own
unrefreshed copy, that git and the database cannot commit together, and that an
artifact is read some time after it was computed from something that has changed
since.

### What makes each component correct

* Scheduler: a passed task is proved; a dependency is proved before a dependent
  starts; one runner works on a task at a time; nothing is committed twice or
  run again while its outcome is unknown; the repair budget holds over all runs;
  a run ends.
* Baseline: generations grow by one verified integration at a time, and what is
  claimed builds on what is integrated.
* Bootstrap state: whichever store answers, it calls completed only what was
  verified or proved, in order; the cut-over takes over everything.
* Runtime operations: cleaning up never takes a lease from its holder or removes
  what the current state is rebuilt from.
* Hand-off: an import is done once and whole or not at all; what is imported is
  what was dry run and accepted; follow-up plans come after what they follow;
  nothing that ended is reopened; what is held by a gate or a decision does not
  run, and everything else does in the end.
* Kernel: what it permits stands on approved gates and finished dependencies.
* Planning: orders respect dependencies, batches respect gates, what is frozen
  can be executed under its policy.
* Residual planning: what is accepted is of one review, one plan and one
  environment, covers every gap that was found and nothing else, and comes out the
  same when it is loaded elsewhere.
* External projects: only who found a workspace free uses it; a workspace
  whose marker cannot be read is left alone; an archive shows what its writers found;
  a remote is never replaced; an accepted plan is a graph.

## 2. Modules

| Module | Models |
|---|---|
| `FailurePolicy` | failure classes and the repair decision, as operators (`repair.py`) |
| `BoundedScheduler` | guarded runs, claims, leases, execution, finalization, repair, crashes, the lease sweep |
| `TaskLifecycle` | abstract specification: what one scheduler promises about a project |
| `SchedulerProperties` | the type invariant, the properties, the refinement to `TaskLifecycle` |
| `MCScheduler` + `*.cfg` | instances for TLC |
| `SchedulerInvariant` | the inductive invariant, in named layers |
| `SchedulerProofs` | theorems and proofs, for any number of schedulers |
| `SingleProofs` | theorems and proofs for one scheduler, among them the refinement |
| `HardeningBaseline` | the cumulative baseline: its checkpoints, the claims it blocks, the packages it binds |
| `IntegrationOrder` | abstract specification: integrated tasks grow in the order of the plan |
| `BaselineProperties` | the baseline's type invariant, properties, refinement |
| `MCBaseline` + `*.cfg` | instances for TLC |
| `BaselineProofs` | theorems and proofs, among them the refinement |
| `BootstrapState` | the two stores of the bootstrap program, its commands, the cut-over |
| `BootstrapProperties` | its type invariant and properties |
| `MCBootstrap` + `*.cfg` | instances for TLC |
| `BootstrapProofs` | the inductive invariant, theorems and proofs |
| `ImplementationPlan` | from a compiled manifest to a frozen plan: resolution, traces, tasks, edges, waves, batches, feasibility, dry run, as operators |
| `PlanProperties` | reference definitions: what a plan and its dry run must satisfy |
| `RuntimeHandoff` | the importers of the four kinds of plan, readiness under gates and decisions, the kernel's evaluation |
| `HandoffProperties` | its type invariant and properties |
| `ResidualPlan` | from the review of an implemented plan to the plan of what is left: gaps, tasks, feasibility, dry run, what acceptance finds wrong, as operators |
| `ResidualAcceptance` | the commands of that chain and the files they leave to each other |
| `PlannedHandoff` | composes planner, hand-off and residual chain: native plans are those the planner generates and freeze where its dry run does; reviews look at the imported tasks |
| `MCHandoff` + `Handoff.cfg` | the instance for TLC |
| `HandoffProofs` | the inductive invariant, theorems and proofs |
| `PlannedProofs` | generated plans and the residual chain: what the algorithms compute, the inductive invariants, theorems and proofs |
| `ExternalProject` | validation of external projects and their frozen plans, what an import makes of one, as operators |
| `ExternalWorkspace` | provisioning of workspaces and repositories, operations of generated applications |
| `WorkspaceProperties` | its type invariant and properties |
| `MCWorkspace` + `Workspace.cfg` | the instance for TLC |
| `WorkspaceProofs` | the inductive invariants, theorems and proofs |
| `DependencyOrder` | lemmas for the proofs: induction over a set of numbers, recursion on a number and along dependencies, acyclic graphs and their waves, ordered finite sets |

`BoundedScheduler` and `HardeningBaseline` are two views of the same tasks: the
first resolves a claim, an execution and its verification into their steps and
leaves the baseline out, the second takes them as single steps and resolves the
integration of their results. `RuntimeHandoff` is where their tasks come from: it
takes the whole of an execution as two steps and resolves the import instead.

### State and actions of `BoundedScheduler`

| Variable | In the code |
|---|---|
| `task` | committed `Task.status` |
| `attempt[t][a]` | committed `Execution` number `a` of task `t`, its `TaskLease`, its latest checkpoint |
| `lock` | row lock of the task: `FOR UPDATE` or an unfinished `UPDATE` |
| `git`, `trees` | commits made by attempts, worktree directories |
| `pc`, `job`, `no` | where a process is, the task object and the attempt it holds |
| `base` | `now()` of the open transaction, `NoTx` between transactions |
| `row`, `cached` | the session's copies of the attempt and of the task's status |
| `attempted`, `repairs`, `runs` | counters of the limits |
| `sweep` | the lease a clean-up has selected and not yet written |

One action is one stretch of the code between two points where another process
can be seen or see something: a statement that takes a lock, a commit, a call of
an external program. `StartRun`/`RefuseRun` are `GuardedRunner.run` with
`recover_project`; `ListReady`, `LockForClaim`, `LockRefused`, `ClaimRefused`,
`Claim`, `CommitClaim`, `PackageRejected` are `run_once` with `claim_task` and
`persist_execution_ownership`; `LoseOwnership`, `CannotExecute`,
`StartExecutor`, `ExecutorFails`, `ExecutorSucceeds` are `run_claimed`;
`FinalizationRefused` to `RecordSuccess` are `finalize`; `Repair`, `GiveUp`,
`RepairAssertion` are the repair loop; `SettleFailure`, `SettleSuccess`,
`SettleForfeit` are the attempt boundary. `Crash` may follow any step.

Three facts about the libraries carry the model, and each is a definition of its
own: a transaction's `now()` is the time of its first statement (`TxTime`); an
object the session still references is not refreshed by a query (`Seen`), not
even by one `FOR UPDATE`, since no statement asks for `populate_existing`; an
unmodified attribute is not written back (`TaskAfter`).

### State and actions of `HardeningBaseline`

| Variable | In the code |
|---|---|
| `stage` | `Task.status`; `"claimed"` from the claim until the scheduler commits it with the package's binding |
| `execution` | of the task's latest `Execution`: `baseline_generation`, what its worktree holds, whether it left a commit |
| `checkpoints` | the committed `hbl-…` rows of the owner task |
| `current` | what `current_for_binding` reads: the newest row by `(created_at, id)` |
| `inserting` | the row an uncommitted `advance` has inserted |

`Claim` is `list_ready_tasks` and `claim_task` with the blockers of
`blockers_by_task`; `BuildPackage` is `ExecutionPackageFactory.build`, which
reads the baseline again, later than the claim did; `PackageRejected` and
`RollBack` are the ways a claim comes to nothing; `Pass`, `Block` and `Repair`
are the ends of an attempt. `Advance` is `advance` with
`_validate_advancement_provenance` up to the flush, `CommitAdvance` and
`RollBackAdvance` the end of its session. The owner's row lock (`OwnerFree`,
`MayUpdate`) is what separates advances from each other and from claims and
updates of the owner.

A commit stands for its tree, the set of tasks whose results it holds. Who
integrates is an operator outside the repository; the one thing assumed of them
is that the integrated commit holds the baseline the execution started from and
the task's own commit. The code checks everything else: record by record that
the integration is of this execution, and that the execution was made on the
generation the caller expects.

### State and actions of `BootstrapState`

| Variable | In the code |
|---|---|
| `file`, `torn` | `.bootstrap/state.json`: what it says, and whether it can be parsed |
| `db` | the `BootstrapRun` row with its checkpoints: `points` counts them, since the next sequence number is `max + 1` |
| `authority` | the active `BootstrapStateAuthority` row |
| `up` | the database settings are there and it answers |
| `cmd` | each command: the task it works on, what it will record, the state it has read and will write back |
| `verified` | the tasks `verify_task` has accepted for `run` (a history variable) |
| `proved` | the task `codex-proof` has completed (a history variable) |

`RunTask`, `RunWaits`, `Verified`, `Rejected` are `run` of `scripts/bootstrap.py`
up to the recording; `CodexProof` and `Proved` are its `codex-proof`, which
completes TASK-0013 (the constant `ProofTask`) without asking for the state or for
what the task depends on; `InsertPoint` and `CommitPoint` are the session of the
reconciler's `mark_completed` or `mark_blocked`, between which a guarded run may
commit its summary (`GuardedSummary`) under the same sequence number; `FallBack`,
`LoadLocal`, `SaveState` are the way through the file, and `SaveTorn` a kill
while it is written. `ReadForMigration`, `Migrate` and `MigrationRefused` are
`migrate`, which reads the file before it opens its session and commits whatever
it wrote, in sync or not. `Outage` may come between any two steps, and back.

The order of completed tasks is left out: in both stores it is the order of
recording. `run --force` is left out too: with it the operator answers for the
dependencies, and `DependenciesVerified` says nothing.

### State and actions of `RuntimeHandoff`

| Variable | In the code |
|---|---|
| `manifest`, `dirty`, `environment` | the manifest in the work tree, `git status`, whether `AIENT_CODEX_COMMAND` is set |
| `accepted` | the dry-run hash that PAG-001 accepted |
| `importer` | each importing process: its step, its plan, the artifacts it has loaded, the outcome it returned |
| `receipt` | `RuntimePlanImport`: the environment its feasibility hash was computed in |
| `task`, `edge`, `gate` | `Task` with its binding, `TaskDependency`, `RuntimeHumanGate` |
| `authority` | `RuntimeAuthorityState` of each project |
| `kernel`, `package` | an evaluation of the kernel between its two reads, and the tasks it permitted |

`LoadPlan` to `ReloadDryRun` are `load_runtime_handoff_artifacts`, each load a
computation from the manifest and the environment of that moment; `Preflight` is
`_preflight_blockers` of each importer, `Lookup` the look for the receipt and for
rows in the way, `Insert` the rows and their commit, with the constraints of the
tables (`Violates`) for importers that run at once. `StartTask`, `PassTask` and
`FailTask` stand for the scheduler; `Readiness` is `evaluate_task` with gates and
decisions. `KernelRead` and `KernelDecide` are `evaluate_task` of the kernel.
`EditManifest`, `CommitManifest`, `ChangeEnvironment` and `DecideGate` are the
operator: no code under `src/` approves a gate.

A hash is the thing hashed: of a native plan its revision, of a feasibility or a
dry run its revision and environment. `PlannedHandoff` closes the gap to
`ImplementationPlan`: the assumption `Planner`, which TLC evaluates on the
instance, says that `Plannable`, `FreezesIn` and the native part of `PlanOf` are
what the planner computes of the instance's manifests. `DraftPlan` is the
planning command itself, over a survey of manifests.

### State and actions of `ResidualAcceptance`

| Variable | In the code |
|---|---|
| `pir` | `artifacts/pir-001/PIR-001.json` |
| `planFile`, `report` | `.build/compiled/residual-implementation-plan.json` and `residual-feasibility-report.json` |
| `rpg` | `artifacts/rpg-001/RPG-001.json`: its result, the plan and feasibility it counts, the dry run whose hashes it binds |
| `command` | the running command of `scripts/project_manifest.py`: its step and what it has read or computed so far |
| `handed` | the artifacts that were last loaded and passed the importer's questions about them |

`WriteReview` is `post-implementation-review` over the imported tasks (`Settled`);
`GeneratePlan` and `WriteFeasibility` are the commands that write the two files;
`Freeze`, `GenerateAgain` and `WriteGate` are `accept-residual-plan`, which
freezes a dry run and then generates and evaluates everything once more;
`LoadGate` to `LoadRecorded` are `load_residual_runtime_handoff_artifacts` with
the importer's preflight. Every step that reads a file or the environment is an
action, a command may die before any of them, and reviews, imports and changes of
environment fall in between. `ResidualPlan` numbers capabilities and kinds of work
in the order of their names, so that waves, critical path and batches are those of
`ImplementationPlan`; a hash is the thing hashed, and a review stands for the HEAD
and the manifest it was made of. The plan `RESIDUAL_PLAN_ID` names is the constant
`Released`.

The files a freeze leaves (`.lock`, `residual-plan-freeze.json`, the dry run) are
read by no later command, so that freezing and dry-running alone are prefixes of
accepting. `ResidualImport` of `RuntimeHandoff` takes from here only that there is
such a plan: its tasks are the constant `PlanOf[Residual]`.

### State and actions of `ExternalWorkspace`

| Variable | In the code |
|---|---|
| `entries` | whether a workspace root exists with something in it |
| `marker` | `.ai-enterprise/workspace.json`: absent, unreadable, or what it says |
| `remote` | `.git` and the URL of `origin` |
| `tree` | the files of the application, as far as archives of them differ |
| `app` | whether `docker compose` has the project up |
| `archive` | the archive file: absent, or what each of its blocks shows |
| `caller` | each process: its step, its project record, the commands it has left, and of an archive what it has listed and how many blocks it has written |
| `claimed` | history: who found a root free |
| `seen`, `cut` | history: what the last writers of each archive found in the workspace, and whether one of them ended halfway |
| `frozen` | the frozen plan validated last |

`CheckWorkspace` to `WriteMarker` are `prepare_workspace`, `RequireMarker` to
`AddRemote` are `initialize_repository`, `PlanOperation` to `CloseArchive` are
`GeneratedAppOperationController.run`. `End` may follow any step: a kill, a full
disk, a refusal of git or docker. The code locks nothing, so nothing is locked
here. Writing a marker is two steps, since `write_bytes` empties it first, and two
callers that write different ones at once may leave one that cannot be read.

Writing an archive is many steps: `_write_generated_app_archive` opens its final
path with `"wb"`, which empties it under whoever else is writing it
(`OpenArchive`), then walks the live tree and writes on from its own place in the
file (`WriteBlock`), as long as there is something to pack (`CloseArchive`). A block
is as much as one write of the buffered and compressed stream; it shows the files
and the marker as they were listed or as they are when it is written
(`Packable`). How many blocks there are depends on the files (`Length`), so that
the archives of two callers may end at different places. Developers may change the
files at any time (`Edit`). A block that nobody wrote is a `Hole`: zeros, if another
block follows it.

### Abstractions

* Human gates and open decisions never hold a task up, nor baseline blockers in
  `BoundedScheduler`: they only remove behaviours of readiness.
* Wall-clock limit, shutdown request and an empty ready list are one choice,
  `Stop`, between two tasks.
* Executor, verifier, policies and git are choices over their outcomes.
* Developers change the files of an application, never its `.git` or
  `.ai-enterprise`.
* Logging, summaries and the contents of prompts and diffs are left out.
* `COMMIT_CREATED_DB_PENDING` is an exception between the two commits: `Crash`.
* Two runners listing at the same instant see the same table; a session reads
  each table as of its statement (READ COMMITTED).

## 3. Runs

| Run | Instance | Shows |
|---|---|---|
| `single` | 1 runner, 2 independent tasks, budget 2, 4 attempts, 2 runs, clock to 2 | 139 thousand states: evidence, no second commit, no blind rerun, budget, no lease left, refinement to `TaskLifecycle` |
| `pair` | 2 runners (budgets 1 and 0), 2 tasks, 3 attempts, clock to 1, 1 run each | 246 thousand states: mutual exclusion by leases, dependencies across stale sessions, termination |
| `baseline` | a diamond of 4 tasks, 2 advancers, clocks reading 1 or 2 | a thousand states: kept results, one history, executions on their dependencies, refinement to `IntegrationOrder` |
| `bootstrap` | 1 command at a time, a chain of 3 tasks, the middle one that of `codex-proof`, 2 checkpoints | 4.1 million states: nothing unverified is recorded, tasks are verified in order, the cut-over is complete |
| `handoff` | 2 importers, 4 revisions of the manifest, 3 environments, 4 kinds of plan; 768 manifests planned; 4 findings of a review, 20 capabilities | 213 thousand states: imports are whole, accepted and in order, nothing is reopened or run while held, plans are ordered and soundly frozen, accepted residual plans are of one piece and come out again, all work settles |
| `workspace` | 2 callers, 7 project records, 3 roots, archives of 1 or 2 blocks; 900 frozen plans | 634 thousand states: a workspace is used by who claimed it and left alone when its marker is unreadable, archives show what their writers found, remotes stay, accepted plans are graphs |
| `stale_claim`, `contention`, `repair_executor`, `zero_repairs`, `repair_baseline`, `outage_fallback` | small | what tests and an assertion say and the code does not keep |

Bounds. `single` has two independent tasks, so that one may be blocked, running
or orphaned while the other is next; `pair` has two with one dependency, the
smallest plan with an order; one task more repeats the same interplay. `MaxAttempt = 4` leaves room for the first
attempt, two repairs and one more, so a budget overrun would be seen;
`MaxTime = 2` with leases of length 1 lets a lease expire, and expire again,
while its holder executes; `MaxRuns = 2` gives a crash and a restart. `pair`
needs one tick for an expiry and one run per process: each crash already leaves
the other process to find what remained. `SweepGrace = 9` keeps the sweep out of
the runs where it is not the question. Deadlock is not checked: runs end, and
the bounds end the rest.

`baseline`: in a diamond two tasks are executed on the same generation, so that
the second integration is stale, and one task needs both. Two readings let every
later advance have the smaller stamp. Nothing is unbounded there: tasks pass once
and each is integrated once.

`bootstrap`: any number of commands one after the other, since a command that has
ended may start again. Three tasks in a chain, the middle one that of
`codex-proof`, let a completion go to one store and the check for its dependent to
the other, a task be proved before what it depends on, and another be run upon it.
Of the three outcomes the database holds two, or one and a guarded summary, and the
file the rest: a third checkpoint only repeats what the second met. Several
commands at once are left to the theorems: they cannot record what is not
verified, but each writes the whole file back and one may lose the completion of
another, so `CutOverComplete` is claimed of one command at a time only. Deadlock
is not checked: with the checkpoints used up and the database back, nothing may
be left to do but to wait.

`handoff`: the budget goes with the first revision. From `First`, four imports
(each kind of plan in its order, and one again), or one import and two
evaluations of the kernel (a gate decided between the two reads), or two imports
and a failed task. From `Second`, two imports and two edits or changes of
environment, so that any artifact an importer has loaded can be of another
revision or environment than the next. From `Cycle`, one import of a manifest no
plan can be generated from, or four residual commands and reviews and one change of
environment, with or without the released review to begin with: evaluate, accept
and load need three, and one review may fall between any two of their steps. The
reviews find the evidence that leaves the five gaps of the repository, the same
with C08 closed, the same with evidence for C07, or one proof less, which make a
plan of seven tasks, none, seven of another hash, and eight. `First` has two
commands beside an import, so that a review meets tasks that are imported and
have not passed. From `Done`, two imports of a plan without tasks,
which the table's check on the width refuses, or one planned manifest: all 64
dependency graphs of three capabilities, three ways for components to realise
them, with and without a finished capability and a validated component, under 5
policies in 3 environments. Three capabilities give chains, forks, joins and
cycles of length two and three; with a component that realises two capabilities
and a capability realised by two, every source of edges meets every other. The code
chains the tasks of seven components it names (CMP-001 to CMP-007) and of no others;
`ComponentSequence` is that list, here the first two of the components.

`workspace`: four calls and one end, or three calls, one end and one edit of the
files, or one validated plan. Two callers of four calls are what provisioning,
binding a repository and operating need with one interruption; preparing a
workspace and two archives of it are three, with the edit between any two of their
steps. The files make an archive of two blocks before the edit and of one after
it, so that a shorter archive meets a longer one; archives of any length are
left to the theorem. The records are the same project before and after its gates
are approved, with another remote, after the import, and others that want the
same root. Plans: every graph of three tasks, every gate of two, three scopes,
widths zero and one.

Fairness. `FairSpec` asks for weak fairness of each runner's own steps: the
process is scheduled, git, verifier and executor return (the executor is killed
at its timeout), PostgreSQL serves those who wait for a row. Nothing forces a
crash, a restart, a tick or a clean-up. `PlannedSpec` asks for weak fairness of
each importer's own step (the process is scheduled, reads, computes and commits)
and of the run loop as a whole, which takes some ready task and brings some
running one to its end; it asks nothing of the editor, of the operator who
decides on gates, of the requests or of the kernel's evaluations, which change no
table. `ImportedWorkSettles` therefore lets stand behind a gate what nobody
approves.

### Disagreements with tests and assertions

1. `stale_claim`: `claim_task` tests a status its session read before it had the
   lock; with the first lease given up, a second process runs the task again.
   `tests/integration/test_task_claiming_postgres.py:117` promises exactly one
   winner.
2. `contention`: after `NOWAIT` fails the transaction is aborted, yet the loop
   goes on in it and ends in an exception;
   `tests/test_bounded_scheduler_runner.py:406` promises the opposite.
3. `repair_executor`: an executor failure in a repair attempt leaves its task
   running and leased; the test at `:359` promises it is terminalized.
4. `zero_repairs`: `assert repair_result is not None` (`bounded.py:273`) fails
   with a budget of zero, and the recorded failure is rolled back.
5. `repair_baseline`: the package of a repair is built without
   `ExecutionPackageFactory` (`repair.py:276`), so it names no baseline, its
   worktree is made from `HEAD`, and what it produces can never be integrated;
   `tests/test_hardening_baseline.py:704` promises that a runtime package is bound
   to the authoritative generation.
6. `outage_fallback`: the manifest of the cut-over
   (`manifest/bootstrap/tasks/TASK-0022.yaml:6`) makes PostgreSQL authoritative
   and the JSON file a pre-database fallback; but while the database is out of
   reach `mark_completed` writes to the file (`state.py:46`), and when it is back
   `load_state` does not see the completion.

The first two do not break the safety properties above: the proofs hold with
both behaviours in the model.

### What the models say beyond their properties

* A rejected gate makes a task ready for the scheduler: readiness holds only
  pending gates (`readiness.py`), while the kernel asks for approved ones. The
  properties are stated of what each of the two does.
* A task that is blocked in the feasibility report blocks its direct dependents
  only. The text beside it says "transitively blocked"
  (`project_manifest.py:2494`); since a plan with any blocked task is never
  frozen, nothing depends on it, and `FreezeSound` holds.
* A decision is unresolved or not as the lock said at the import; nothing ever
  unblocks such a task.
* Native and external plans of disjoint tasks can be imported by two processes at
  once that each saw an empty project: both commit. The primary keys separate
  only plans that share a task.
* The hash of an external plan that names none covers its state, so a project
  whose plan goes from frozen to imported is refused by its own workspace.
* A restart whose second command fails leaves the application stopped; two
  projects whose identifiers reduce to one compose name share their containers.
* Two projects that find the same root empty may both prepare it; the marker of the
  one that writes later stays, and the other is refused from then on.
* A `prepare_workspace` that dies after it made a directory and before its marker is
  written leaves a workspace that every later call is refused, its own project's
  included (`UnreadableStaysShut`); somebody has to remove it by hand.
* Two archives of one application that overlap while its files change leave a file
  that mixes what each of them found, or, where the one is shorter by two blocks or
  more, has a gap of zeros; both calls report success. `ArchivesSound` says where
  that ends: nothing from before the two is in it, and if nobody changed the files it
  is whole.
* `codex-proof` completes TASK-0013 whatever its dependencies are; what runs after
  it finds it completed. `DependenciesVerified` therefore speaks of verified *or
  proved* dependencies, and of the tasks `run` executes.

## 4. Proofs

The theorems about the scheduler hold for every value of the constants that the
four assumptions of `BoundedScheduler` allow: tasks are positive numbers, `Deps` maps
tasks to tasks, `NoRunner` is not a runner, times and bounds are naturals and
leases last at least one unit. Any number of runners, any graph, any budgets.

The inductive invariant has four layers (`SchedulerInvariant`), each proved
over the ones before it:

1. `TypeOK`.
2. `Ownership`: between claim and settlement the attempt a runner works on is
   running in the table, nobody else works on it, the claiming runner holds the
   row lock. Without it the next layers could not say whose row a commit writes.
3. `EvidenceInv`: what is passed, in the table or in a session's unrefreshed
   copy, has its evidence, and every attempt's dependencies had theirs. It is
   the statement about *stale copies* that makes it inductive: evidence is never
   withdrawn, so an old "passed" is as good as a new one.
4. `LeaseInv`: one active lease per task; for whoever is claiming, the committed
   lease of whoever executes is live at the claimer's frozen clock. It is why
   renewed but uncommitted leases do no harm.

| Theorem | Property |
|---|---|
| `SchedulerProofs!TypeCorrect` | `TypeOK` |
| `SchedulerProofs!OwnershipHolds` | the ownership layer |
| `SchedulerProofs!PassedIsProved` | `PassedHasEvidence` |
| `SchedulerProofs!DependenciesProved` | `DependenciesVerifiedFirst` |
| `SchedulerProofs!WorktreesExplained` | `WorktreeHasExecution` |
| `SchedulerProofs!OneRunnerPerTask` | `OneLiveAttempt` |
| `SchedulerProofs!LeaseIsUnique` | `OneActiveLease` |
| `SchedulerProofs!ClaimNeverWaits` | `NoLeaseRowWait` |
| `SingleProofs!OneCommitPerTask` | `NoDuplicateCommit` |
| `SingleProofs!AttemptsFollowFailures` | `NoBlindRerun` |
| `SingleProofs!RepairsWithinBudget` | `RepairBudget` |
| `SingleProofs!EndedTasksAreFree` | `EndedTaskNotLeased` |
| `SingleProofs!SchedulerImplementsLifecycle` | `LifecycleImplemented`, the refinement |
| `BaselineProofs!BaselineTypeCorrect` | `TypeOK` of `BaselineProperties` |
| `BaselineProofs!IntegratedResultsAreKept` | `TreeHoldsIntegrated` |
| `BaselineProofs!BaselinesFormOneHistory` | `OneHistory` |
| `BaselineProofs!ExecutedOnDependencies` | `DependenciesInTree` |
| `BaselineProofs!BaselineImplementsOrder` | `IntegrationOrdered`, the refinement |
| `BootstrapProofs!BootstrapTypeCorrect` | `TypeOK` of `BootstrapProperties` |
| `BootstrapProofs!NothingUnverifiedIsRecorded` | `RecordedIsVerified` |
| `BootstrapProofs!VerifiedInOrder` | `DependenciesVerified` |
| `BootstrapProofs!CutOverIsComplete` | `CutOverComplete` |
| `HandoffProofs!HandoffTypeCorrect` | `TypeOK` of `HandoffProperties` |
| `HandoffProofs!ImportsComplete` | `ImportComplete` |
| `HandoffProofs!AcceptedImportsOnly` | `ImportedAsAccepted` |
| `HandoffProofs!FollowUpsInOrder` | `ImportsInOrder` |
| `HandoffProofs!EndsStay` | `NothingReopened` |
| `HandoffProofs!PermittedPackages` | `PackageJustified` |
| `HandoffProofs!HeldWorkWaits` | `HeldTaskNeverRuns` |
| `PlannedProofs!PlansAreOrdered` | `PlanOrdered` |
| `PlannedProofs!FreezesAreSound` | `FreezeSound` |
| `PlannedProofs!AcceptedResidual` | `ResidualAsAccepted` |
| `PlannedProofs!ResidualComesOutAgain` | `ResidualReproducible` |
| `WorkspaceProofs!WorkspaceTypeCorrect` | `TypeOK` of `WorkspaceProperties` |
| `WorkspaceProofs!ClaimantsOnly` | `UsedByClaimant` |
| `WorkspaceProofs!ArchivesAreSound` | `ArchivesSound` |
| `WorkspaceProofs!ShutWorkspacesStay` | `UnreadableStaysShut` |
| `WorkspaceProofs!RemoteStays` | `RemoteKept` |
| `WorkspaceProofs!AcceptedPlansOrdered` | `AcceptedPlanSound` |

Five theorems ask for one scheduler (`OneScheduler`: `Runner` has one element), with
any number of crashes and restarts: what they say is not true of two, whose claims
may be stale (the run `stale_claim`), and `single` is the run that checks them. They
rest on a fifth layer, `SoleInv`. With one runner the session's view of its task is
never stale (`SoleView`), its attempt is the last one of its task and the only one
with a lease (`SoleAttempt`), and what its row says fits where it is: only a
recorded failure is repaired, a commit whose record is missing is never behind an
attempt that may be repaired (`SoleRecord`). `CommittedIsLast` is the heart of it: a
commit of an attempt that crashed before its record leaves the task running for good,
so nothing is ever attempted after it. `SoleBudget` ties the counter of the loop,
which a crash forgets, to the repair rows on record: a task that was repaired in an
earlier run is passed, blocked or left running, and the new run never takes it up.
With these, each step of the scheduler is a step of `TaskLifecycle` or a stutter:
`CommitClaim` is its start, `PackageRejected` its rejection, and the attempt boundary
(`SettleSuccess`, `SettleFailure`, `SettleForfeit`) its ends; a repair, a crash and a
clean-up change nothing it sees.

The theorems about the baseline hold for every plan (`PlanAssumption`: `Deps`
maps tasks to tasks, the owner is one of them), any number of advancers and any
clocks. `BaselineInv` adds to the types: the committed baselines are one history
*without a gap* (`History`), the row being inserted extends the current baseline
by one task and is the only one (`InFlight`), and every bound execution was bound
to a baseline that is on record (`Bound`). The gap is what a clock that goes back
would make: then the next generation is already taken, `Unused` fails and no
advance is made any more, which is why nothing written before is ever lost.

The theorems about the bootstrap state hold for any tasks and any number of
commands at once (`TaskAssumption`). `BootstrapInv` adds what a command carries
between its steps (`Carries`): the state it has read holds only tasks that were
verified or proved, an outcome "completed" is of such a task, and the dependencies
of the task it executes were. Neither is ever taken back, so all of it stays true
however long the command takes and whatever happens to either store meanwhile.
`CutOverIsComplete` asks for commands that run one at a time (`OneCommand`): then
what a migration has read is still in the file when it commits (`ReadIsFile`),
whatever outages and guarded runs come between, and only a migration in sync with
what it read sets the authority. Of two commands it is not true: the other may
record a completion in the file between the read and the cut-over.

The theorems about the hand-off hold for any number of importers, any plans with
any graphs, any edits and environments. They assume that plans keep to their
tasks, gates and names (`PlanAssumption`, `EnvAssumption`), that `None` is no row
(`RowAssumption`) and that the residual plan has tasks, finitely many
(`ResidualAssumption`): an importer refuses an empty one, and an empty plan would be "complete"
before it is there. `HandoffInv` adds to the invariants what an importer *knows*
between its steps (`Knows`): behind the preflight its plan and its dry run are of
one revision, frozen and accepted, although the manifest and the environment may
have changed since, and the plan it follows was complete. That what it follows
stays complete until it inserts is the part that needs the others: rows keep their
plan (`ImportComplete`), and a passed task stays passed. The counting in `Complete`
(as many tasks as the plan has, all passed) implies that every task of the plan
passed only because no row of that kind can come from elsewhere.

`ReleaseInv` is what a task starts with: when it is no longer pending, its gates
were decided, it has no open decision and what it depends on has passed
(`StartedReleased`). That stays true only because no later import can add a gate or
an edge to a task that is there, which takes three facts: a gate on record is the
one its plan defines (`GatesInPlan`), the gates and edges of a plan are of the
plan's own tasks, and two plans with a task in common cannot both be inserted. The
middle one is an assumption on plans (`PlanAssumption`), and the code sees to it:
the planner makes edges between generated tasks only, the residual plan keeps those
between its tasks, the product import refuses a graph with an endpoint that is no
task (`_graph_blockers`), and an external plan is validated. For the kernel the
invariant says what its first read is worth later: a task it found bound to its
project had all its gates then (`KernelSaw`), so approved gates stay approved until
it decides. Without the binding it could meet a task that a later import brings in
with gates. `HeldTaskNeverRuns` is about everything downstream; `Downstream` is the
least set that is closed under dependents, and what is pending is such a set as far
as held tasks reach.

The theorems about generated plans hold for every manifest, review, environment,
policy and order of commands, with plans of any size. The invariant is small
(`PlansInv`): the draft is a manifest, a review on file was written by a review or is
the released one, and the plan on file was generated from such a review. What is
proved is that the algorithms compute, for each of them, what the reference
definitions of `PlanProperties` say (`OnGraphSound`).

* Waves. Sorting by identifier lists every task once (`Listed`). The test for
  cycles follows dependencies as many steps as there are tasks, which is enough
  (`ReachReaches`, `NoCycle`); what passes it is placed wave by wave, each task one
  wave after the latest of its dependencies (`WavesLayered`). In a residual plan
  every edge falls along a numbering of the kinds of work, so that it has no cycle
  and its command never raises (`ResidualNotCyclic`).
* Critical path. The code's recursion with a cache is a function that satisfies its
  own equation. Such a function exists where dependencies fall along the waves
  (`FixedPoint`), and every one gives each task a chain of dependencies as long as
  the number of its wave (`PathsAreChains`, `PathsFound`), so that the longest is as
  long as there are waves (`CriticalOfLayers`).
* Batches. Waves laid end to end run each task after its dependencies (`FlatRuns`,
  `RunOrderRuns`). Collecting tasks until one is gated, and closing the batch before
  and behind it, cuts that order into consecutive pieces (`BatchAppended`,
  `BatchesCut`), from which follow the place of every task, the single task of a
  gated batch and the gate each batch resumes after (`PlacesOfCut`).
* Freezing. The tasks chosen to run at once are of one wave and have disjoint write
  scopes (`ParallelDisjoint`), and the width the dry run promises is at most the size
  of the largest choice and at most the policy's (`WidthMeans`), so that there is a
  choice of just that many (`SmallerPart`).

They assume that capabilities, components and reviewed capabilities are finitely
many and numbered in the order of their identifiers, with the contract task last
(`PlanNumbering`, `ReviewAssumption`): they come from files. A requirement names
known capabilities only (`ManifestAssumption`): `_validate_capability_refs` refuses
others (`project_manifest.py:3316`) before anything is planned. The width of a
policy is an integer (`PolicyAssumption`). The released plan was generated from
some review (`ReviewAssumption`).

The theorems about the residual chain hold for any reviews, files, facts,
environments and interleavings with the hand-off, and need none of these
assumptions.
`ResidualInv` has three parts. `CommandSound`: when it comes to decide, an
accepting command carries a plan of some review (`OfReview`: the review asked
for it, and its tasks are those of the review's gaps). `GateSound`: an accepted
gate binds what it counts, its plan is of a review and not empty, no task of it
is blocked, and its feasibility is that of its plan in some environment; since
every task needs the executor, that environment had one. `HandedSound` is the
second conjunct of `ResidualAsAccepted`. That the live environment makes no
difference follows from the tool: where the recorded environment had the
executable, looking again can only find it too. What waves, critical path and
batches are does not enter there: both sides compute them alike.

The theorems about workspaces hold for any callers, records and roots
(`WorkspaceAssumption`: records are of known projects and roots, no marker is
mistaken for none). `WorkspaceInv` has the knowledge of a caller: once past the
check its signature is among the `claimed` ones of its root, once past the marker
the marker is there, and neither is ever taken back. `ArchiveInv` adds the archives,
of any length and with any number of writers (`Good`): each block shows what one of
the last writers found, or nothing; and as long as all of them found the same and
none was cut off, every block either shows that, or one of the writers is before it
in the file and has yet to write it, and behind the last block there is nothing
(`Covered`). That is why emptying the file under another does no harm then: whoever
empties it is at its beginning, and writes every block again. `ShutWorkspacesStay` is
an action property of `WorkspaceInv`: a caller gets past the check only where the
marker is its own or nothing is there, and a workspace that is shut offers neither
to anyone (`StaysShut`).

`AcceptedPlansOrdered` is a theorem about algorithms: a plan of any size that the
validator's search for cycles lets through has an order in waves. The search looks
as many steps ahead as there are tasks (`HasDependencyCycle`), and placing a wave
takes all that remain when none is ready (`PlacedIn`), so that both always end. The
argument has three parts, in `DependencyOrder`: a way as long as there are tasks
meets a task twice, by the pigeonhole principle, so the search finds every cycle
(`CycleFound`) and a graph it passes is `Acyclic`: every set of tasks has one that
depends on none of the set; in such a graph each wave places something until all are
placed (`PlacedAll`); and what is placed stays placed, so each task has one wave
(`OneWave`). `FrozenPlanAssumption` says that a frozen plan is a file: finitely many
tasks, and for each one what it depends on.

The provers cannot instantiate the induction theorems of the library, which take
an operator. `DependencyOrder!Induction` is induction over a *set* of numbers, from
the well-foundedness of the naturals; `Recursion` and `Iteration` are the existence
of what a recursion on a number defines, and `FixedPoint` of what one along
dependencies defines. Waves, paths, batches and the search for cycles need no more.

Only model-checked: liveness (`RunEnds`, `ImportedWorkSettles`), which is beyond
the prover. Every other property of a passing run is stated by a theorem. The
properties of the runs that end in a violation are refuted, not proved.

## 5. Not modelled

* `recover_execution`, which no program of the repository calls; the retention
  rules of the clean-up beyond stale leases; migration checks and shutdown.
* Reading, validating and compiling manifest documents: parsing and field checks.
* The search for secrets in texts and the redaction of output of external
  projects; duplicate gate definitions, which the validator collapses by name
  while the import iterates over all (`gateTask` is a function).
* The contents of the product plan and its chain of artifacts: the plan is written
  out in the source and its hashes are pinned there; the hand-off takes what an
  import reads of it as a constant. The record of its acceptance (PAG-001), and in
  `RuntimeHandoff` that of the residual plan, does not change while imports run.
* Of the runtime counts a review decides on, those of active leases and of running
  executions (`post_implementation.py:1021`): `Settled` asks for imported and passed
  tasks only, so that the model's reviews find the runtime settled more often.
* The second review (PIR-002) after the residual plan, and what the reports of the
  reviews say beyond gaps and decision.
* Knowledge, generation, governance, acceptance evidence: pipelines and reports
  over documents, each a pure function of its inputs. Project memory and
  operational events add checkpoints that nothing modelled reads.
* Product API and UI: projections that change nothing, also where they show the
  decision on a gate.
* Parsing and rendering, deployment, schema migrations, wrappers of external
  programs.
