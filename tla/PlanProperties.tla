---------------------------- MODULE PlanProperties ----------------------------
(***************************************************************************)
(* What a generated plan and its dry run promise, as predicates on a plan. *)
(***************************************************************************)
EXTENDS ImplementationPlan

WaveOf(plan, t) == CHOOSE k \in DOMAIN plan.waves : t \in plan.waves[k]

\* The waves partition the tasks; a task is one wave after the latest of its
\* dependencies; the critical path is a chain of dependencies as long as there
\* are waves (_implementation_waves, _critical_path).
Ordered(plan) ==
    /\ \A t \in plan.tasks : Cardinality({k \in DOMAIN plan.waves : t \in plan.waves[k]}) = 1
    /\ \A t \in plan.tasks :
        WaveOf(plan, t) = 1 + Max({0} \cup {WaveOf(plan, d) : d \in DependsOn(plan.edges, t)})
    /\ Len(plan.critical) = Len(plan.waves)
    /\ \A k \in 1..Len(plan.critical) - 1 : <<plan.critical[k + 1], plan.critical[k]>> \in plan.edges

\* The batches run every task once and after its dependencies; a task behind a
\* gate is alone in its batch, and a batch is preceded by a gate exactly when
\* it says that it resumes after it (_execution_batches).
Batched(plan) ==
    LET batches == ExecutionBatches(plan)
        places == UNION {{b} \X DOMAIN batches[b].tasks : b \in DOMAIN batches}
        before(x, y) == x[1] < y[1] \/ (x[1] = y[1] /\ x[2] < y[2])
        at(x) == batches[x[1]].tasks[x[2]]
    IN  /\ {at(x) : x \in places} = plan.tasks
        /\ Cardinality(places) = Cardinality(plan.tasks)
        /\ \A x, y \in places : <<at(x), at(y)>> \in plan.edges => before(y, x)
        /\ \A b \in DOMAIN batches :
            /\ ToSet(batches[b].tasks) \cap plan.gates # {} =>
                    batches[b].tasks = <<batches[b].gate>>
            /\ batches[b].gate = NoGate => \* a gated batch names its own gate
                    batches[b].resume = IF b = 1 THEN NoGate ELSE batches[b - 1].gate

\* A frozen dry run has no task that is blocked or behind a blocked one, asks a
\* human for every task its policy reserves to one, and promises no more tasks
\* at once than it has pairwise disjoint write scopes in a wave
\* (evaluate_implementation_plan_feasibility, dry_run_evaluated_plan).
SoundlyFrozen(plan, env, policy) ==
    LET evaluation == Evaluate(plan, env, policy)
        dry == DryRun(plan, evaluation)
        disjoint(S) == \A t, u \in S : t # u => Scope(t) \cap Scope(u) = {}
    IN  Frozen(dry) =>
            /\ \A t \in plan.tasks :
                /\ Blockers(t, env, policy) = {}
                /\ PolicyDecision(t, policy) = "HUMAN_APPROVAL_REQUIRED" => t \in plan.gates
            /\ dry.width <= policy.maxWidth
            /\ dry.width > 0 =>
                \E k \in DOMAIN plan.waves : \E S \in SUBSET plan.waves[k] :
                    Cardinality(S) = dry.width /\ disjoint(S)
=============================================================================
