-------------------------- MODULE HandoffProperties --------------------------
(***************************************************************************)
(* What the hand-off of plans to the runtime database promises.            *)
(***************************************************************************)
EXTENDS RuntimeHandoff

ImporterRow ==
    [step : Step, plan : PlanName \cup {None}, feasibility : Artifact \cup {None},
     dryrun : Artifact \cup {None}, outcome : Outcome]
TaskRow == [import : PlanName, status : {"pending", "running", "passed", "failed"}]
GateRow == [import : PlanName, task : TaskId, status : {"pending", "approved", "rejected"}]

\* Every variable has the rows of its table or file.
TypeOK ==
    /\ manifest \in Revision /\ dirty \in BOOLEAN /\ environment \in Env
    /\ accepted \in Artifact \cup {None}
    /\ importer \in [Importer -> ImporterRow]
    /\ receipt \in [PlanName -> Env \cup {None}]
    /\ task \in [TaskId -> TaskRow \cup {None}]
    /\ edge \subseteq TaskId \X TaskId
    /\ gate \in [GateId -> GateRow \cup {None}]
    /\ authority \in [Project -> PlanName \cup {None}]

-----------------------------------------------------------------------------
(* Imports. *)

\* A receipt stands for exactly the tasks, dependencies and gates of its plan,
\* and no row belongs to a plan without a receipt, whatever imports ran at
\* once, failed or were repeated; the authority of a project is held by the run
\* of an import made into it (import_frozen_plan, _import_new).
ImportComplete ==
    /\ \A p \in PlanName :
        /\ Imported({p}) = IF receipt[p] = None THEN {} ELSE PlanOf[p].tasks
        /\ {g \in GateId : gate[g] # None /\ gate[g].import = p}
                = IF receipt[p] = None THEN {} ELSE DOMAIN PlanOf[p].gates
        /\ receipt[p] # None => authority[ProjectOf(p)] # None
    /\ edge = UNION {PlanOf[p].edges : p \in {p \in PlanName : receipt[p] # None}}
    /\ \A x \in Project : authority[x] # None =>
            receipt[authority[x]] # None /\ ProjectOf(authority[x]) = x

\* A native plan is imported with a feasibility and a dry run of its own
\* revision, frozen, and with those PAG-001 accepted when it accepted any: an
\* edit of the manifest or a change of environment between the loads never
\* mixes two of them (load_runtime_handoff_artifacts, _preflight_blockers).
ImportedAsAccepted ==
    \A p \in Native : receipt[p] # None =>
        /\ receipt[p] \in FreezesIn[p]
        /\ accepted \in {None, <<p, receipt[p]>>}

\* The residual plan is in the database only behind the whole prior plan,
\* passed, and the product plan only behind both.
ImportsInOrder ==
    /\ receipt[Residual] # None => \A t \in PlanOf[PriorPlan].tasks :
            task[t] # None /\ task[t].status = "passed"
    /\ receipt[Product] # None =>
            /\ receipt[Residual] # None
            /\ \A t \in PlanOf[Residual].tasks : task[t].status = "passed"

\* A row, once there, keeps its plan; no step takes back the end of a task or
\* the decision on a gate: importing a plan again, or another one, reopens
\* nothing (_existing_import_conflicts).
NothingReopened ==
    [][/\ \A t \in TaskId : task[t] # None =>
            /\ task'[t] # None /\ task'[t].import = task[t].import
            /\ task[t].status \in {"passed", "failed"} => task'[t].status = task[t].status
       /\ \A g \in GateId : gate[g] # None =>
            /\ gate'[g] # None /\ gate'[g].import = gate[g].import
            /\ gate[g].status # "pending" => gate'[g].status = gate[g].status
       /\ \A p \in PlanName : receipt[p] # None => receipt'[p] = receipt[p]]_vars

-----------------------------------------------------------------------------
(* Gates and decisions. *)

Held(t) == Undecided(t) \/ \E g \in GatesOf(t) : gate[g].status = "pending"

\* The tasks of T and those that depend on them, directly or not: the least
\* set of tasks that has T and every task that depends on one it has
\* (downstream_task_ids_json).
Downstream(T) ==
    LET closed == {S \in SUBSET TaskId :
                        T \subseteq S /\ \A e \in edge : e[2] \in S => e[1] \in S}
    IN  {t \in TaskId : \A S \in closed : t \in S}

Present == {t \in TaskId : task[t] # None}

\* While a gate of a task waits for approval, or a decision it needs is
\* unresolved, the task and everything downstream of it is still pending.
HeldTaskNeverRuns ==
    \A t \in Downstream({t \in Present : Held(t)}) : task[t].status = "pending"

\* The kernel permits a worker package only for a task none of whose gates is
\* pending or rejected and none of whose dependencies is unfinished, although
\* it reads the gates before it evaluates readiness (RuntimeKernelService).
PackageJustified ==
    \A t \in package :
        /\ \A g \in GatesOf(t) : gate[g].status = "approved"
        /\ \A d \in DependenciesOf(t) : task[d].status = "passed"

-----------------------------------------------------------------------------
(* Liveness. *)

Ended == {t \in Present : task[t].status \in {"passed", "failed"}}

\* What stands behind a gate, a decision or a failure.
Waiting == Downstream({t \in Present : Held(t) \/ task[t].status = "failed"})

\* The run always comes to the point where every imported task has ended or
\* stands behind a gate, a decision or a failure: no import strands a task in
\* the graph, and no request to import stays open.
ImportedWorkSettles ==
    []<>(/\ Present = Ended \cup Waiting
         /\ \A i \in Importer : importer[i].step = "idle")
=============================================================================
