---------------------------- MODULE RuntimeHandoff ----------------------------
(***************************************************************************)
(* The import of frozen plans into the runtime database and the work that  *)
(* runs under their gates: src/ai_ent/runtime_handoff.py, its residual and *)
(* product variants, scheduler/readiness.py and runtime_kernel.py.         *)
(*                                                                         *)
(* A plan is named by what identifies it: a native plan by the revision of *)
(* the manifest it is generated from, the others by a constant.  Its       *)
(* contents are PlanOf of that name; a hash of an artifact is the revision *)
(* and the environment it was computed from.  Each importer is a process   *)
(* with its own database session: what it reads is committed, and its      *)
(* transaction commits or fails as one step.                               *)
(***************************************************************************)
EXTENDS Integers, FiniteSets

CONSTANTS
    Importer,       \* processes that import plans
    Revision,       \* revisions of the manifest
    Plannable,      \* the revisions a plan can be generated from
    Residual, Product, External,    \* the plans that are not generated here
    PriorPlan,      \* the native plan the residual and product plans follow
    Env,            \* environments; whether AIENT_CODEX_COMMAND is set
    Configured,     \* the environments where it is
    PlanningEnv,    \* the environment plans are accepted in
    FreezesIn,      \* for each revision, where its dry run freezes
    PlanOf,         \* the contents of each plan
    TaskId, GateId, \* keys of the task and gate tables
    KernelTask,     \* the tasks that implement the runtime kernel
    EditsOf,        \* the revisions an edit of each one leads to
    Budget,         \* how many imports, edits, task failures, kernel evaluations
                    \* and plans are explored together, from each first revision
    None

Main == "main"              \* the project of the native plans
Outside == "external"       \* the project of the external plan
Project == {Main, Outside}

Native == Plannable
PlanName == Native \cup {Residual, Product, External}
ProjectOf(p) == IF p = External THEN Outside ELSE Main

ASSUME PlanAssumption ==
    /\ Plannable \subseteq Revision /\ PriorPlan \in Plannable
    /\ Cardinality({Residual, Product, External}) = 3
    /\ Revision \cap {Residual, Product, External} = {}
    /\ None \notin PlanName
    /\ \A p \in PlanName :
        /\ PlanOf[p].tasks \subseteq TaskId
        /\ PlanOf[p].edges \subseteq PlanOf[p].tasks \X PlanOf[p].tasks
        /\ DOMAIN PlanOf[p].gates \subseteq GateId
        /\ \A g \in DOMAIN PlanOf[p].gates :
            /\ PlanOf[p].gates[g].task \in PlanOf[p].tasks
            /\ PlanOf[p].gates[g].status \in {"pending", "approved"}
        /\ PlanOf[p].undecided \subseteq PlanOf[p].tasks
    /\ KernelTask \subseteq TaskId
ASSUME EnvAssumption ==
    /\ Configured \subseteq Env /\ PlanningEnv \in Env
    /\ FreezesIn \in [Plannable -> SUBSET Env]
    /\ EditsOf \in [Revision -> SUBSET Revision]
ASSUME RowAssumption ==
    /\ None \notin Env
    /\ None \notin [import : PlanName, status : {"pending", "running", "passed", "failed"}]
    /\ None \notin [import : PlanName, task : TaskId, status : {"pending", "approved", "rejected"}]
\* The residual importer refuses a plan without tasks.
ASSUME ResidualAssumption == IsFiniteSet(PlanOf[Residual].tasks) /\ PlanOf[Residual].tasks # {}

VARIABLES
    manifest,   \* the revision in the work tree
    dirty,      \* whether it differs from what git has
    environment, \* the environment now
    accepted,   \* the artifact PAG-001 accepted: None, or its revision and environment
    importer,   \* each importer's step, request and loaded artifacts
    receipt,    \* RuntimePlanImport: the environment of the feasibility each
                \* import was frozen with, or None
    task,       \* Task and its binding: import and status, or None
    edge,       \* TaskDependency
    gate,       \* RuntimeHumanGate: import, task and status, or None
    authority,  \* the import whose run holds each project's authority, or None
    kernel,     \* the evaluation in progress, or None
    package,    \* the tasks a worker package was permitted for
    budget      \* what is left of Budget

source == <<manifest, dirty, environment, accepted>>
tables == <<receipt, task, edge, gate, authority>>
vars == <<manifest, dirty, environment, accepted, importer, receipt, task, edge, gate,
          authority, kernel, package, budget>>

Artifact == Plannable \X Env

Step == {"idle", "plan", "feasibility", "dryrun", "reload", "rerun", "preflight",
         "lookup", "insert"}
Outcome == {"none", "IMPORTED", "ALREADY_IMPORTED", "CONFLICT", "BLOCKED", "FAILED"}

Idle(outcome) == [step |-> "idle", plan |-> None, feasibility |-> None,
                  dryrun |-> None, outcome |-> outcome]

Init ==
    /\ manifest \in Revision
    /\ dirty = FALSE
    /\ environment \in Env
    /\ accepted \in {None} \cup {a \in Artifact : /\ a[1] = manifest
                                               /\ a[2] = PlanningEnv
                                               /\ a[2] \in FreezesIn[a[1]]}
    /\ importer = [i \in Importer |-> Idle("none")]
    /\ receipt = [p \in PlanName |-> None]
    /\ task = [t \in TaskId |-> None]
    /\ edge = {}
    /\ gate = [g \in GateId |-> None]
    /\ authority = [p \in Project |-> None]
    /\ kernel = None
    /\ package = {}
    /\ budget \in Budget[manifest]

Spend(what) == budget[what] > 0 /\ budget' = [budget EXCEPT ![what] = @ - 1]

-----------------------------------------------------------------------------
(* Around the importers: the manifest is edited and committed, the         *)
(* environment changes.                                                    *)

EditManifest ==
    /\ Spend("edits")
    /\ \E r \in EditsOf[manifest] : manifest' = r
    /\ dirty' = TRUE
    /\ UNCHANGED <<environment, accepted, importer, tables, kernel, package>>

CommitManifest ==
    /\ dirty
    /\ dirty' = FALSE
    /\ UNCHANGED <<manifest, environment, accepted, importer, tables, kernel, package, budget>>

ChangeEnvironment ==
    /\ Spend("edits")
    /\ \E e \in Env \ {environment} : environment' = e
    /\ UNCHANGED <<manifest, dirty, accepted, importer, tables, kernel, package>>

-----------------------------------------------------------------------------
(* Loading the artifacts of a native plan.  Each of them is computed from  *)
(* the manifest and the environment as they are at that moment.            *)

RequestImport(i, p) ==
    /\ importer[i].step = "idle"
    /\ Spend("imports")
    /\ importer' = [importer EXCEPT ![i] =
            [Idle("none") EXCEPT !.step = IF p = None THEN "plan" ELSE "preflight", !.plan = p]]
    /\ UNCHANGED <<source, tables, kernel, package>>

Advance(i, row) ==
    /\ importer' = [importer EXCEPT ![i] = row]
    /\ UNCHANGED <<source, tables, kernel, package, budget>>

Stop(i, outcome) == Advance(i, Idle(outcome))

\* A manifest no plan can be generated from raises out of the importer.
LoadPlan(i) ==
    /\ importer[i].step = "plan"
    /\ IF manifest \in Plannable
       THEN Advance(i, [importer[i] EXCEPT !.step = "feasibility", !.plan = manifest])
       ELSE Stop(i, "FAILED")

LoadFeasibility(i) ==
    /\ importer[i].step = "feasibility"
    /\ IF manifest \in Plannable
       THEN Advance(i, [importer[i] EXCEPT !.step = "dryrun", !.feasibility = <<manifest, environment>>])
       ELSE Stop(i, "FAILED")

\* When the dry run is not the accepted one, feasibility and dry run are
\* computed again in the environment plans are accepted in.
LoadDryRun(i) ==
    /\ importer[i].step = "dryrun"
    /\ IF manifest \in Plannable
       THEN Advance(i, [importer[i] EXCEPT
                            !.step = IF accepted \notin {None, <<manifest, environment>>}
                                     THEN "reload" ELSE "preflight",
                            !.dryrun = <<manifest, environment>>])
       ELSE Stop(i, "FAILED")

ReloadFeasibility(i) ==
    /\ importer[i].step = "reload"
    /\ IF manifest \in Plannable
       THEN Advance(i, [importer[i] EXCEPT !.step = "rerun",
                                           !.feasibility = <<manifest, PlanningEnv>>])
       ELSE Stop(i, "FAILED")

\* Mutant: after the reload the accepted dry run is looked at again.
CompareAgain(i) ==
    /\ importer[i].step = "rerun"
    /\ IF manifest \in Plannable
       THEN Advance(i, [importer[i] EXCEPT !.step = "dryrun"])
       ELSE Stop(i, "FAILED")

ReloadDryRun(i) ==
    /\ importer[i].step = "rerun"
    /\ IF manifest \in Plannable
       THEN Advance(i, [importer[i] EXCEPT !.step = "preflight",
                                           !.dryrun = <<manifest, PlanningEnv>>])
       ELSE Stop(i, "FAILED")

-----------------------------------------------------------------------------
(* The import. *)

\* The rows of a project or of a kind of plan (its prefix IMPL-, RES- or PRD-).
Imported(P) == {t \in TaskId : task[t] # None /\ task[t].import \in P}

PlansIn(project) == {p \in PlanName : ProjectOf(p) = project}

\* Mutant: complete when none of the rows is unfinished.
NoneUnfinished(P, p) == \A t \in Imported(P) : task[t].status = "passed"

\* As many tasks of a kind as the plan has, all passed.
Complete(P, p) ==
    /\ Cardinality(Imported(P)) = Cardinality(PlanOf[p].tasks)
    /\ \A t \in Imported(P) : task[t].status = "passed"

\* Mutant: the plan is not compared with what was dry run.
PlanUnchecked(row) ==
    /\ row.dryrun[2] \in FreezesIn[row.dryrun[1]]
    /\ row.feasibility = row.dryrun
    /\ accepted \in {None, row.dryrun}
    /\ environment \in Configured

NativeArtifactsAgree(row) ==
    /\ row.dryrun[2] \in FreezesIn[row.dryrun[1]]
    /\ row.plan = row.dryrun[1]
    /\ row.feasibility = row.dryrun
    /\ accepted \in {None, row.dryrun}
    /\ environment \in Configured

ResidualReady ==
    /\ receipt[PriorPlan] # None /\ Complete(Native, PriorPlan)
    /\ authority[Main] # None
    /\ environment \in Configured

ProductReady ==
    /\ Complete(Native, PriorPlan)
    /\ Complete({Residual}, Residual)
    /\ authority[Main] # None

\* What each importer requires before it looks at the database for the plan.
PreflightPasses(i) ==
    /\ ~dirty
    /\ \/ importer[i].plan \in Native /\ NativeArtifactsAgree(importer[i])
       \/ importer[i].plan = External /\ environment \in Configured
       \/ importer[i].plan = Residual /\ ResidualReady
       \/ importer[i].plan = Product /\ ProductReady

Preflight(i) ==
    /\ importer[i].step = "preflight"
    /\ IF PreflightPasses(i)
       THEN Advance(i, [importer[i] EXCEPT !.step = "lookup"])
       ELSE Stop(i, "BLOCKED")

EnvOf(row) == IF row.plan \in Native THEN row.dryrun[2] ELSE PlanningEnv

\* The receipt is of this artifact and its rows are all there.
InSync(row) ==
    LET p == row.plan
    IN  /\ receipt[p] = EnvOf(row)
        /\ \A t \in PlanOf[p].tasks : task[t] # None /\ task[t].import = p
        /\ {e \in edge : e[1] \in PlanOf[p].tasks} = PlanOf[p].edges
        /\ {g \in GateId : gate[g] # None /\ gate[g].import = p} = DOMAIN PlanOf[p].gates

\* The rows that keep a plan without a receipt out of its project.
InTheWay(p) ==
    Imported(IF p \in {Residual, Product} THEN {p} ELSE PlansIn(ProjectOf(p)))

Lookup(i) ==
    LET row == importer[i]
    IN  /\ row.step = "lookup"
        /\ IF receipt[row.plan] # None
           THEN Stop(i, IF InSync(row) THEN "ALREADY_IMPORTED" ELSE "CONFLICT")
           ELSE IF InTheWay(row.plan) # {} THEN Stop(i, "CONFLICT")
           ELSE Advance(i, [row EXCEPT !.step = "insert"])

\* Mutant: task rows are merged instead of added.
TasksMerged(p) ==
    \/ receipt[p] # None
    \/ \E g \in DOMAIN PlanOf[p].gates : gate[g] # None
    \/ PlanOf[p].width < 1

\* Mutant: so are all others.
RowsMerged(p) == PlanOf[p].width < 1

\* A primary key or a check constraint refuses the rows.
Violates(p) ==
    \/ receipt[p] # None
    \/ \E t \in PlanOf[p].tasks : task[t] # None
    \/ \E g \in DOMAIN PlanOf[p].gates : gate[g] # None
    \/ PlanOf[p].width < 1

\* The residual and product importers take no approval from a plan.
GateStatus(p, g) ==
    IF p \in {Residual, Product} THEN "pending" ELSE PlanOf[p].gates[g].status

InsertRows(p, e) ==
    /\ receipt' = [receipt EXCEPT ![p] = e]
    /\ task' = [t \in TaskId |-> IF t \in PlanOf[p].tasks
                                 THEN [import |-> p, status |-> "pending"] ELSE task[t]]
    /\ edge' = edge \cup PlanOf[p].edges
    /\ gate' = [g \in GateId |-> IF g \in DOMAIN PlanOf[p].gates
                                 THEN [import |-> p, task |-> PlanOf[p].gates[g].task,
                                       status |-> GateStatus(p, g)]
                                 ELSE gate[g]]
    /\ authority' = [authority EXCEPT ![ProjectOf(p)] = p]

Insert(i) ==
    LET p == importer[i].plan
    IN  /\ importer[i].step = "insert"
        /\ IF Violates(p) THEN Stop(i, "FAILED")
           ELSE /\ InsertRows(p, EnvOf(importer[i]))
                /\ importer' = [importer EXCEPT ![i] = Idle("IMPORTED")]
                /\ UNCHANGED <<source, kernel, package, budget>>

\* The process ends before it commits: its session rolls back.
Crash(i) == importer[i].step # "idle" /\ Stop(i, "FAILED")

-----------------------------------------------------------------------------
(* Readiness and execution.  Claims, leases and verification are the       *)
(* subject of BoundedScheduler; here a task starts when it is ready.       *)

DependenciesOf(t) == {e[2] : e \in {e \in edge : e[1] = t}}

GatesOf(t) == {g \in GateId : gate[g] # None /\ gate[g].task = t}

\* The decision states are those the lock had when the plan was imported.
Undecided(t) == t \in PlanOf[task[t].import].undecided

\* Mutant: a gate is not looked at.
GatesIgnored(t) ==
    IF task[t] = None THEN "NOT_FOUND"
    ELSE IF task[t].status \in {"passed", "failed"} THEN "TERMINAL"
    ELSE IF task[t].status = "running" THEN "RUNNING"
    ELSE IF \E d \in DependenciesOf(t) : task[d] = None THEN "INVALID_GRAPH_STATE"
    ELSE IF \E d \in DependenciesOf(t) : task[d].status = "failed" THEN "BLOCKED_DEPENDENCY"
    ELSE IF \E d \in DependenciesOf(t) : task[d].status # "passed" THEN "WAITING_DEPENDENCIES"
    ELSE IF Undecided(t) THEN "DECISION_BLOCKED"
    ELSE "READY"

Readiness(t) ==
    IF task[t] = None THEN "NOT_FOUND"
    ELSE IF \E g \in GatesOf(t) : gate[g].status = "pending" THEN "NOT_SCHEDULABLE"
    ELSE IF task[t].status \in {"passed", "failed"} THEN "TERMINAL"
    ELSE IF task[t].status = "running" THEN "RUNNING"
    ELSE IF \E d \in DependenciesOf(t) : task[d] = None THEN "INVALID_GRAPH_STATE"
    ELSE IF \E d \in DependenciesOf(t) : task[d].status = "failed" THEN "BLOCKED_DEPENDENCY"
    ELSE IF \E d \in DependenciesOf(t) : task[d].status # "passed" THEN "WAITING_DEPENDENCIES"
    ELSE IF Undecided(t) THEN "DECISION_BLOCKED"
    ELSE "READY"

SetStatus(t, status) ==
    /\ task' = [task EXCEPT ![t].status = status]
    /\ UNCHANGED <<source, importer, receipt, edge, gate, authority, kernel, package>>

StartTask(t) ==
    /\ Readiness(t) = "READY"
    /\ SetStatus(t, "running")
    /\ UNCHANGED budget

\* Mutant: a passed task is given another status.
SucceedTask(t) ==
    /\ task[t] # None /\ task[t].status = "running"
    /\ SetStatus(t, "succeeded")
    /\ UNCHANGED budget

PassTask(t) ==
    /\ task[t] # None /\ task[t].status = "running"
    /\ SetStatus(t, "passed")
    /\ UNCHANGED budget

FailTask(t) ==
    /\ task[t] # None /\ task[t].status = "running"
    /\ Spend("failures")
    /\ SetStatus(t, "failed")

\* The operator's decision on a gate, which no code under src/ takes.
DecideGate(g, status) ==
    /\ gate[g] # None /\ gate[g].status = "pending"
    /\ gate' = [gate EXCEPT ![g].status = status]
    /\ UNCHANGED <<source, importer, receipt, task, edge, authority, kernel, package, budget>>

-----------------------------------------------------------------------------
(* The runtime kernel reads the task's binding and its gates, then         *)
(* readiness, and permits a worker package or not.                         *)

GateState(t) ==
    LET states == {gate[g].status : g \in GatesOf(t)}
    IN  IF states \subseteq {"approved"} THEN "approved"
        ELSE IF "rejected" \in states THEN "rejected"
        ELSE "pending"

KernelRead(t) ==
    /\ kernel = None
    /\ Spend("evaluations")
    /\ kernel' = [task |-> t, gates |-> GateState(t),
                  imported |-> \E p \in PlansIn(Main) : receipt[p] # None,
                  bound |-> task[t] # None /\ task[t].import \in PlansIn(Main)]
    /\ UNCHANGED <<source, importer, tables, package>>

\* Mutant: readiness is not evaluated after the gates are read.
DecideOnGates(withinLimits) ==
    /\ kernel # None
    /\ package' = IF withinLimits /\ kernel.imported /\ kernel.bound /\ kernel.gates = "approved"
                  THEN package \cup {kernel.task} ELSE package
    /\ kernel' = None
    /\ UNCHANGED <<source, importer, tables, budget>>

\* withinLimits: the limits of the run leave room for a task, the manifest
\* validates, and the task's binding covers the requirements of its capability.
KernelDecide(withinLimits) ==
    /\ kernel # None
    /\ package' = IF /\ withinLimits
                     /\ kernel.imported
                     /\ kernel.bound
                     /\ kernel.gates = "approved"
                     /\ Readiness(kernel.task) = "READY"
                  THEN package \cup {kernel.task} ELSE package
    /\ kernel' = None
    /\ UNCHANGED <<source, importer, tables, budget>>

-----------------------------------------------------------------------------

\* The importers of each kind of plan.
Import(i) == Preflight(i) \/ Lookup(i) \/ Insert(i)

NativeImport(i) ==
    \/ LoadPlan(i) \/ LoadFeasibility(i) \/ LoadDryRun(i)
    \/ ReloadFeasibility(i) \/ ReloadDryRun(i)
    \/ importer[i].plan \in Native /\ Import(i)

ExternalImport(i) == importer[i].plan = External /\ Import(i)
ResidualImport(i) == importer[i].plan = Residual /\ Import(i)
ProductImport(i) == importer[i].plan = Product /\ Import(i)

ImportStep(i) ==
    NativeImport(i) \/ ExternalImport(i) \/ ResidualImport(i) \/ ProductImport(i)

RunTask(t) == StartTask(t) \/ PassTask(t)

Next ==
    \/ EditManifest \/ CommitManifest \/ ChangeEnvironment
    \/ \E i \in Importer : \/ \E p \in {None, Residual, Product, External} : RequestImport(i, p)
                          \/ ImportStep(i)
                          \/ Crash(i)
    \/ \E t \in TaskId : RunTask(t) \/ FailTask(t)
    \/ \E g \in GateId, status \in {"approved", "rejected"} : DecideGate(g, status)
    \/ \E t \in KernelTask : KernelRead(t)
    \/ \E withinLimits \in BOOLEAN : KernelDecide(withinLimits)

Spec == Init /\ [][Next]_vars

\* A running import ends, and the run loop keeps taking and finishing some
\* task; nothing is assumed of the editor, the operator or the requests.
Fairness ==
    /\ \A i \in Importer : WF_vars(ImportStep(i))
    /\ WF_vars(\E t \in TaskId : RunTask(t))

FairSpec == Spec /\ Fairness
=============================================================================
