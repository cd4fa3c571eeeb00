---------------------------- MODULE PlannedHandoff ----------------------------
(***************************************************************************)
(* The planner and the hand-off together: the native plans that are        *)
(* imported are those ImplementationPlan generates from the revisions of   *)
(* the manifest, and they freeze where its dry run does.  The residual     *)
(* work is reviewed, planned and accepted beside the imports and the run.  *)
(***************************************************************************)
EXTENDS HandoffProperties, PlanProperties, ResidualAcceptance

CONSTANTS
    ManifestOf,     \* the manifest of each revision
    Manifest,       \* manifests that are planned
    EnvRecord,      \* what each environment has
    DefaultPolicy,  \* default_feasibility_policy
    Policy          \* the policies a plan is evaluated under

\* A requirement that names an unknown capability is refused when the manifest
\* is validated (_validate_capability_refs).
ASSUME ManifestAssumption ==
    \A m \in Manifest : \A r \in m.requirements : r.caps \subseteq Capability

ASSUME PolicyAssumption == \A policy \in Policy : policy.maxWidth \in Int

\* generate_implementation_plan, for each revision.
Generated == [r \in Revision |-> Generate(ManifestOf[r])]

FreezingEnv(r) ==
    {e \in Env : Frozen(DryRun(Generated[r], Evaluate(Generated[r], EnvRecord[e], DefaultPolicy)))}

\* What an import reads of a generated plan.
NativePlan(r) ==
    LET plan == Generated[r]
    IN  [tasks |-> plan.tasks, edges |-> plan.edges,
         gates |-> [t \in plan.gates |-> [task |-> t, status |-> "pending"]],
         undecided |-> {},
         width |-> Evaluate(plan, EnvRecord[PlanningEnv], DefaultPolicy).width]

Planner ==
    /\ Plannable = {r \in Revision : Generated[r] # Rejected}
    /\ \A r \in Plannable : FreezesIn[r] = FreezingEnv(r) /\ PlanOf[r] = NativePlan(r)

-----------------------------------------------------------------------------
(* The planning commands, beside the imports: they write the plan of the   *)
(* manifest they are given, and its dry run, under .build.                 *)

VARIABLE draft      \* the manifest that was planned last, or None

DraftPlan(m) ==
    /\ Spend("plans")
    /\ draft' = m
    /\ UNCHANGED <<source, importer, tables, kernel, package, chain>>

\* Every task of the prior plan is imported and has passed.
Settled ==
    /\ Imported({PriorPlan}) = PlanOf[PriorPlan].tasks
    /\ \A t \in Imported({PriorPlan}) : task[t].status = "passed"

RequestCommand ==
    /\ Spend("commands")
    /\ \/ \E facts \in Facts : WriteReview(facts, Settled)
       \/ \E goal \in Goal, expected \in {Absent, planFile} : StartCommand(goal, expected)
    /\ UNCHANGED <<source, importer, tables, kernel, package, draft>>

RunCommand == CommandStep(EnvRecord[environment]) /\ UNCHANGED <<vars, draft>>

\* Where commands are explored, the review of the released plan may be there
\* from the start, as it is in a checkout beside a new database.
PlannedInit ==
    /\ Init
    /\ draft = None
    /\ ChainInit(IF budget.commands > 0 THEN {Absent, Released} ELSE {Absent})

PlannedNext ==
    \/ Next /\ UNCHANGED <<draft, chain>>
    \/ \E m \in Manifest : DraftPlan(m)
    \/ RequestCommand
    \/ RunCommand

PlannedSpec == PlannedInit /\ [][PlannedNext]_<<vars, draft, chain>> /\ Fairness

Drafted == IF draft = None THEN Rejected ELSE Generate(draft)

Plans == {Drafted, planFile} \ {Rejected, Absent}

\* A plan that is generated, from a manifest or from a review, is Ordered, and
\* its execution is Batched (_implementation_waves, _execution_batches).
PlanOrdered == \A plan \in Plans : Ordered(plan) /\ Batched(plan)

\* A plan that is generated from a manifest is SoundlyFrozen in the present
\* environment, under every policy.
FreezeSound ==
    Drafted # Rejected =>
        \A policy \in Policy : SoundlyFrozen(Drafted, EnvRecord[environment], policy)

\* An accepted residual plan is of one review, one plan and one environment,
\* although each is read twice: what the gate counts is what it binds, the
\* review asked for the plan, the plan has a task for every gap and nothing
\* else, and no task of it is blocked; and what is loaded for import is what
\* was accepted then (accept_residual_plan, _preflight_blockers).
ResidualAsAccepted ==
    /\ rpg # Absent /\ GateAccepts(rpg) =>
        /\ rpg.plan = rpg.dry.plan /\ rpg.feasibility = rpg.dry.feasibility
        /\ rpg.plan.review.result = "RESIDUAL_GAPS_REQUIRE_NEW_DAG"
        /\ rpg.plan.tasks = UNION {TasksFor(g) : g \in rpg.plan.review.gaps}
        /\ \A t \in rpg.plan.tasks : rpg.feasibility.results[t] # "BLOCKED"
    /\ handed # Absent => handed.plan = ReleasedPlan /\ AsAccepted(handed)

\* Wherever it is loaded, an accepted plan comes out as it was accepted, if it
\* is evaluated in the environment of its acceptance: the tools of the moment,
\* which are looked at all the same, make no difference
\* (_executor_feasibility, load_residual_runtime_handoff_artifacts).
ResidualReproducible ==
    rpg # Absent /\ GateAccepts(rpg) =>
        \A e \in Env :
            EvaluateResidual(rpg.plan, rpg.feasibility.env, EnvRecord[e]) = rpg.feasibility
=============================================================================
