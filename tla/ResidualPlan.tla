----------------------------- MODULE ResidualPlan -----------------------------
(***************************************************************************)
(* From the review of an implemented plan to the plan of what is left:     *)
(* post_implementation.py, residual_dag.py, residual_feasibility.py,       *)
(* residual_dry_run.py and residual_plan_acceptance.py of src/ai_ent.      *)
(*                                                                         *)
(* A task is a capability and a kind of work, numbered in the order of     *)
(* their names, so that the order of task identifiers, the waves, the      *)
(* critical path and the batches are those of ImplementationPlan.  The     *)
(* facts of a review are records: "refs", the capabilities with evidence   *)
(* references in the manifest, "artifacts", the gates with an artifact     *)
(* (BEAG-001, IPCG-001), and "proved", the capabilities of passed tasks.   *)
(* A hash is the thing hashed.                                             *)
(***************************************************************************)
EXTENDS ImplementationPlan

CONSTANTS
    Reviewed,       \* the capabilities that are reviewed
    Before,         \* the satisfaction of each one before implementation
    SourceFiles     \* the capabilities whose source files exist

-----------------------------------------------------------------------------
(* The review (PIR-001): what each capability's evidence amounts to. *)

PreviousGaps == {1, 2, 3, 4, 8} \cup 14..20

\* The evidence collected for a capability, named by where it comes from.
EvidenceFor(c, facts) ==
    {e \in {"task", "BEAG-001", "IPCG-001", "manifest"} :
        \/ e = "task" /\ c \in facts.proved
        \/ e = "BEAG-001" /\ e \in facts.artifacts /\ c \in {3, 4, 5, 6, 10, 11, 12, 20}
        \/ e = "IPCG-001" /\ e \in facts.artifacts /\ c \in {3, 4} \cup (14..20)
        \/ e = "manifest" /\ c \in facts.refs \cap {7, 8, 9}}

NewSatisfaction(c, facts) ==
    LET evidenced == EvidenceFor(c, facts) # {}
    IN  IF Before[c] \in {"DEFERRED", "NOT_APPLICABLE"} THEN Before[c]
        ELSE IF c \in PreviousGaps /\ evidenced THEN "SATISFIED"
        ELSE IF c \in {12, 13} /\ Before[c] = "SATISFIED" THEN "SATISFIED"
        ELSE IF c \in {5, 6, 7, 9} /\ evidenced THEN "PARTIALLY_SATISFIED"
        ELSE IF evidenced /\ Before[c] = "UNSATISFIED" THEN "PARTIALLY_SATISFIED"
        ELSE Before[c]

\* What is left, as pairs of a capability and a type of gap.
ResidualGaps(facts) ==
    {<<c, IF NewSatisfaction(c, facts) = "UNSATISFIED" THEN "IMPLEMENTATION_GAP"
          ELSE "EVIDENCE_GAP">> :
        c \in {c \in Reviewed : NewSatisfaction(c, facts)
                    \notin {"SATISFIED", "DEFERRED", "NOT_APPLICABLE"}}}

\* "settled": every task of the plan is in the database and passed, none is
\* leased and no execution is open.
Decision(facts, settled) ==
    IF ~settled THEN "MANIFEST_DECISION_REQUIRED"
    ELSE IF \E g \in ResidualGaps(facts) : g[2] = "IMPLEMENTATION_GAP"
         THEN "RESIDUAL_GAPS_REQUIRE_NEW_DAG"
    ELSE IF ResidualGaps(facts) # {} THEN "MANIFEST_DECISION_REQUIRED"
    ELSE "NO_RESIDUAL_IMPLEMENTATION_GAPS"

Review(facts, settled) ==
    [facts |-> facts, gaps |-> ResidualGaps(facts), result |-> Decision(facts, settled),
     closed |-> {c \in PreviousGaps \cap Reviewed : NewSatisfaction(c, facts) = "SATISFIED"}]

-----------------------------------------------------------------------------
(* The residual plan. *)

\* The kinds of work, in the order of their names.
Agreement == 1      \* CONTRACT
Evidence == 2
Service == 3
Verification == 4
Verify == 5

TasksFor(gap) ==
    IF gap = <<8, "IMPLEMENTATION_GAP">>
    THEN {<<8, Agreement>>, <<8, Service>>, <<8, Verification>>}
    ELSE IF gap[2] = "EVIDENCE_GAP" THEN {<<gap[1], Evidence>>}
    ELSE {<<gap[1], Verify>>}

ResidualRisk(t) ==
    IF t[2] \in {Agreement, Service} THEN "HIGH"
    ELSE IF t[2] = Evidence /\ t[1] \notin {6, 7, 9} THEN "LOW"
    ELSE "MEDIUM"

\* The edges are fixed; those between tasks of the plan are kept.
ResidualEdges(T) ==
    {<<<<6, Evidence>>, <<5, Evidence>>>>, <<<<7, Evidence>>, <<6, Evidence>>>>,
     <<<<8, Agreement>>, <<7, Evidence>>>>, <<<<8, Service>>, <<8, Agreement>>>>,
     <<<<8, Verification>>, <<8, Service>>>>, <<<<9, Evidence>>, <<7, Evidence>>>>}
    \cap (T \X T)

ResidualHumanGates(T) == {t \in T : ResidualRisk(t) = "HIGH"}

\* Why a plan has ERROR findings.
ResidualFindings(review, T, edges) ==
    {f \in {"WRONG-TYPE", "REGENERATED", "CYCLE", "UNCOVERED"} :
        \/ f = "WRONG-TYPE" /\ <<8, Evidence>> \in T
        \/ f = "REGENERATED" /\ \E t \in T : t[1] \in review.closed \ (5..9)
        \/ f = "CYCLE" /\ Cyclic(Graph(T, edges))
        \/ f = "UNCOVERED" /\ \E g \in review.gaps : TasksFor(g) \cap T = {}}

ResidualPlan(review) ==
    IF review.result # "RESIDUAL_GAPS_REQUIRE_NEW_DAG" THEN Rejected
    ELSE LET T == UNION {TasksFor(g) : g \in review.gaps}
             edges == ResidualEdges(T)
             findings == ResidualFindings(review, T, edges)
             cyclic == "CYCLE" \in findings
         IN  [review |-> review, tasks |-> T, edges |-> edges, findings |-> findings,
              waves |-> IF cyclic THEN <<>> ELSE Waves(T, edges),
              critical |-> IF cyclic THEN <<>> ELSE CriticalPath(T, edges),
              gates |-> ResidualHumanGates(T)]

-----------------------------------------------------------------------------
(* Feasibility, in a recorded environment and with the tools there are at  *)
(* this moment, which the search for the executable consults too.          *)

ExpectedResidualTasks ==
    {<<5, Evidence>>, <<6, Evidence>>, <<7, Evidence>>, <<8, Agreement>>, <<8, Service>>,
     <<8, Verification>>, <<9, Evidence>>}

\* Mutant: only the tools of this moment count.
ToolOfMoment(recorded, live) ==
    IF ~live.codexAvailable THEN "MISSING"
    ELSE IF recorded.codexConfigured THEN "AVAILABLE"
    ELSE "CONDITIONAL"

ResidualTool(recorded, live) ==
    IF ~recorded.codexAvailable /\ ~live.codexAvailable THEN "MISSING"
    ELSE IF recorded.codexConfigured THEN "AVAILABLE"
    ELSE "CONDITIONAL"

ResidualBlockers(t, tool, env) ==
    {b \in {"executor", "infrastructure", "evidence"} :
        \/ b = "executor" /\ tool = "MISSING"
        \/ b = "infrastructure" /\ InfrastructureMissing(env)
        \/ b = "evidence" /\ t[2] = Evidence /\ t[1] \in {5, 6, 7, 9} \ SourceFiles}

ResidualTaskStatus(t, plan, tool, env) ==
    IF ResidualBlockers(t, tool, env) # {} THEN "BLOCKED"
    ELSE IF t \in plan.gates THEN "HUMAN_APPROVAL_REQUIRED"
    ELSE IF tool = "CONDITIONAL" THEN "FEASIBLE_WITH_CONDITIONS"
    ELSE "FEASIBLE"

\* A blocked task blocks its direct dependents, and no further.
ResidualResults(plan, tool, env) ==
    LET blocked == {t \in plan.tasks : ResidualTaskStatus(t, plan, tool, env) = "BLOCKED"}
    IN  [t \in plan.tasks |->
            IF DependsOn(plan.edges, t) \cap blocked # {} THEN "BLOCKED"
            ELSE ResidualTaskStatus(t, plan, tool, env)]

\* Any two residual tasks may write under src/ai_ent, so a wave runs one task
\* at a time.
ResidualWidth(results) ==
    IF \A t \in DOMAIN results : results[t] = "BLOCKED" THEN 0 ELSE 1

ResidualStatus(plan, results) ==
    IF plan.findings # {} \/ plan.tasks # ExpectedResidualTasks THEN "INVALID"
    ELSE IF \E t \in plan.tasks : results[t] = "BLOCKED" THEN "BLOCKED"
    ELSE IF \E t \in plan.tasks : results[t] = "HUMAN_APPROVAL_REQUIRED"
         THEN "READY_WITH_HUMAN_GATES"
    ELSE "READY_FOR_RESIDUAL_DRY_RUN"

EvaluateResidual(plan, recorded, live) ==
    LET tool == ResidualTool(recorded, live)
        results == ResidualResults(plan, tool, recorded)
    IN  [plan |-> plan, env |-> recorded, tool |-> tool, results |-> results,
         width |-> ResidualWidth(results), status |-> ResidualStatus(plan, results)]

-----------------------------------------------------------------------------
(* Dry run, freeze and acceptance.  "expected" is the plan the caller names *)
(* by its hash, or Absent.                                                  *)

Absent == [none |-> TRUE]

ResidualDryRunErrors(plan, feasibility, expected) ==
    \/ expected \notin {Absent, plan}
    \/ plan # feasibility.plan
    \/ Cardinality(plan.tasks) # 7 \/ Cardinality(plan.edges) # 6
    \/ Len(plan.waves) # 6 \/ Cardinality(plan.gates) # 2
    \/ \E t \in DOMAIN feasibility.results : feasibility.results[t] = "BLOCKED"
    \/ feasibility.status = "INVALID"
    \/ ~({<<<<8, Service>>, <<8, Agreement>>>>, <<<<8, Verification>>, <<8, Service>>>>}
            \subseteq plan.edges)

ResidualDryRun(plan, feasibility, expected) ==
    LET conditional == plan.tasks # {} /\ feasibility.tool = "CONDITIONAL"
    IN  [plan |-> plan, feasibility |-> feasibility,
         batches |-> ExecutionBatches(plan), width |-> feasibility.width,
         state |-> IF ResidualDryRunErrors(plan, feasibility, expected)
                   THEN IF feasibility.status = "BLOCKED" THEN "BLOCKED" ELSE "INVALID"
                   ELSE IF conditional THEN "READY_WITH_EXECUTION_PREREQUISITES"
                   ELSE "READY_FOR_RESIDUAL_PLAN_ACCEPTANCE"]

ResidualFrozen(dry) ==
    dry.state \in {"READY_FOR_RESIDUAL_PLAN_ACCEPTANCE", "READY_WITH_EXECUTION_PREREQUISITES"}

\* Mutant: the dry run is not compared with what it was computed from.
DefectsOfPlanOnly(plan, feasibility, dry, expected) ==
    \/ expected \notin {Absent, plan}
    \/ ~ResidualFrozen(dry) \/ dry.width # 1
    \/ Cardinality(plan.tasks) # 7 \/ Cardinality(plan.edges) # 6

\* What acceptance finds wrong with a frozen dry run, when it computes plan and
\* feasibility again.
ResidualDefects(plan, feasibility, dry, expected) ==
    \/ expected \notin {Absent, plan}
    \/ ~ResidualFrozen(dry) \/ dry.width # 1
    \/ Max({0} \cup {Cardinality(dry.plan.waves[k]) : k \in DOMAIN dry.plan.waves}) # 2
    \/ Cardinality(plan.tasks) # 7 \/ Cardinality(plan.edges) # 6
    \/ Len(plan.waves) # 6 \/ Cardinality(plan.gates) # 2
    \/ \E t \in DOMAIN feasibility.results : feasibility.results[t] = "BLOCKED"
    \/ plan # feasibility.plan \/ plan # dry.plan \/ feasibility # dry.feasibility
=============================================================================
