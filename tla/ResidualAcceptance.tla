-------------------------- MODULE ResidualAcceptance --------------------------
(***************************************************************************)
(* The commands that plan the residual work, accept the plan and load it   *)
(* for import, and the files they leave to each other:                     *)
(* src/ai_ent/residual_*.py and scripts/project_manifest.py.               *)
(*                                                                         *)
(* A command reads a file, or the tools of the moment, in each of its      *)
(* steps, and may die before any of them; reviews and changes of           *)
(* environment fall in between.  One command runs at a time beside them.   *)
(* The environment and what the runtime tables say are parameters.         *)
(***************************************************************************)
EXTENDS ResidualPlan

CONSTANTS
    Facts,          \* the facts a review may find
    Released        \* the review of the plan that is released (RESIDUAL_PLAN_ID)

ASSUME ReviewAssumption ==
    /\ Reviewed \subseteq Nat /\ IsFiniteSet(Reviewed)
    /\ \E facts \in Facts, settled \in BOOLEAN : Released = Review(facts, settled)

ReleasedPlan == ResidualPlan(Released)

VARIABLES
    pir,            \* PIR-001.json, or Absent
    planFile,       \* residual-implementation-plan.json, or Absent
    report,         \* residual-feasibility-report.json, or Absent
    rpg,            \* RPG-001.json, or Absent
    command,        \* the running command, or Absent
    handed          \* what was last loaded and passed for import, or Absent

files == <<pir, planFile, report, rpg>>
chain == <<pir, planFile, report, rpg, command, handed>>

Goal == {"generate", "evaluate", "accept", "load"}

ChainInit(reviews) ==
    /\ pir \in reviews
    /\ planFile = Absent /\ report = Absent /\ rpg = Absent
    /\ command = Absent /\ handed = Absent

Do(c) == command' = c /\ UNCHANGED <<files, handed>>

\* The command raises, is blocked or dies, and leaves the files as they are.
GiveUp == Do(Absent)

At(goals, step) == command # Absent /\ command.goal \in goals /\ command.step = step

PlanOfReview == IF pir = Absent THEN Rejected ELSE ResidualPlan(pir)

-----------------------------------------------------------------------------
(* Review, plan and feasibility. *)

WriteReview(facts, settled) ==
    /\ pir' = Review(facts, settled)
    /\ UNCHANGED <<planFile, report, rpg, command, handed>>

\* "expected" is the plan the command line names by its hash: none, or the one
\* in the plan file.
StartCommand(goal, expected) ==
    /\ command = Absent
    /\ Do([goal |-> goal, step |-> IF goal = "load" THEN "gate" ELSE "plan",
           expected |-> expected, gate |-> Absent, plan |-> Absent, feasibility |-> Absent,
           dry |-> Absent])

GeneratePlan ==
    /\ At({"generate", "evaluate", "accept"}, "plan")
    /\ IF PlanOfReview = Rejected THEN GiveUp
       ELSE IF command.goal = "generate"
       THEN planFile' = PlanOfReview /\ command' = Absent /\ UNCHANGED <<pir, report, rpg, handed>>
       ELSE Do([command EXCEPT !.step = "feasibility", !.plan = PlanOfReview])

WriteFeasibility(env) ==
    /\ At({"evaluate"}, "feasibility")
    /\ report' = EvaluateResidual(command.plan, env, env)
    /\ command' = Absent
    /\ UNCHANGED <<pir, planFile, rpg, handed>>

-----------------------------------------------------------------------------
(* Acceptance: the plan is frozen, then generated and evaluated once more  *)
(* and compared with what was frozen.                                      *)

Freeze(env) ==
    /\ At({"accept"}, "feasibility")
    /\ LET dry == ResidualDryRun(command.plan, EvaluateResidual(command.plan, env, env),
                                 command.expected)
       IN  IF ResidualFrozen(dry) THEN Do([command EXCEPT !.step = "again", !.dry = dry])
           ELSE GiveUp

GenerateAgain ==
    /\ At({"accept"}, "again")
    /\ IF PlanOfReview = Rejected THEN GiveUp
       ELSE Do([command EXCEPT !.step = "decide", !.plan = PlanOfReview])

GateResult(plan, feasibility, dry, expected) ==
    IF ResidualDefects(plan, feasibility, dry, expected) THEN "REJECTED"
    ELSE IF dry.state = "READY_WITH_EXECUTION_PREREQUISITES" THEN "ACCEPTED_WITH_PREREQUISITES"
    ELSE "ACCEPTED"

\* The gate counts the plan and the feasibility of the second time and binds
\* the hashes of the first.
WriteGate(env) ==
    /\ At({"accept"}, "decide")
    /\ LET feasibility == EvaluateResidual(command.plan, env, env)
       IN  rpg' = [result |-> GateResult(command.plan, feasibility, command.dry, command.expected),
                   plan |-> command.plan, feasibility |-> feasibility, dry |-> command.dry]
    /\ command' = Absent
    /\ UNCHANGED <<pir, planFile, report, handed>>

-----------------------------------------------------------------------------
(* Loading an accepted plan for import. *)

GateAccepts(g) == g.result # "REJECTED"

LoadGate ==
    /\ At({"load"}, "gate")
    /\ IF rpg = Absent THEN GiveUp ELSE Do([command EXCEPT !.step = "file", !.gate = rpg])

LoadPlanFile ==
    /\ At({"load"}, "file")
    /\ LET plan == IF planFile # Absent THEN planFile ELSE PlanOfReview
       IN  IF plan = Rejected THEN GiveUp
           ELSE Do([command EXCEPT !.step = "current", !.plan = plan])

\* Feasibility and dry run of the loaded plan, for a recorded environment and
\* the tools of the moment.
Loaded(recorded, live) ==
    LET feasibility == EvaluateResidual(command.plan, recorded, live)
    IN  [gate |-> command.gate, plan |-> command.plan, feasibility |-> feasibility,
         dry |-> ResidualDryRun(command.plan, feasibility,
                                IF GateAccepts(command.gate) THEN command.gate.dry.plan ELSE Absent)]

AsAccepted(a) ==
    GateAccepts(a.gate) /\ a.feasibility = a.gate.dry.feasibility /\ a.dry = a.gate.dry

\* What the importer asks of the artifacts before it looks at the database.
ArtifactsPass(a) ==
    /\ GateAccepts(a.gate) /\ a.plan = ReleasedPlan
    /\ ResidualFrozen(a.dry)
    /\ a.dry = a.gate.dry
    /\ Cardinality(a.plan.tasks) = 7 /\ Cardinality(a.plan.edges) = 6
    /\ Cardinality(a.plan.gates) = 2

HandOver(a) ==
    IF ArtifactsPass(a) THEN handed' = a /\ command' = Absent /\ UNCHANGED files ELSE GiveUp

LoadCurrent(env) ==
    /\ At({"load"}, "current")
    /\ LET current == Loaded(env, env)
       IN  IF AsAccepted(current) THEN HandOver(current)
           ELSE Do([command EXCEPT !.step = "recorded"])

\* Another environment than the one of the acceptance: that of the feasibility
\* report is taken instead.
LoadRecorded(env) ==
    /\ At({"load"}, "recorded")
    /\ IF report = Absent THEN GiveUp ELSE HandOver(Loaded(report.env, env))

Die == command # Absent /\ GiveUp

-----------------------------------------------------------------------------

CommandStep(env) ==
    \/ GeneratePlan \/ WriteFeasibility(env)
    \/ Freeze(env) \/ GenerateAgain \/ WriteGate(env)
    \/ LoadGate \/ LoadPlanFile \/ LoadCurrent(env) \/ LoadRecorded(env)
    \/ Die
=============================================================================
