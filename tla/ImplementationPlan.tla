-------------------------- MODULE ImplementationPlan --------------------------
(***************************************************************************)
(* The planning algorithms of src/ai_ent/project_manifest.py: from a       *)
(* compiled manifest to the tasks, order, gates, feasibility and dry run   *)
(* of an implementation plan.                                              *)
(*                                                                         *)
(* A manifest is a record: "depends", "status" and "maturity" of each      *)
(* capability, "evidence" (the capabilities with evidence references),     *)
(* "requirements" (the capabilities each one needs, and whether a gate     *)
(* verifies it), and, for each component, the capabilities it "realises"   *)
(* and whether it is "validated".  Identifiers are numbers in the order    *)
(* the code sorts them.  A task is the pair of a capability and the        *)
(* component it implements, Contract when there is none.  A hash is the    *)
(* thing hashed.                                                           *)
(***************************************************************************)
EXTENDS Integers, SequencesExt

CONSTANTS
    Capability,     \* capability identifiers
    Component,      \* component identifiers
    ComponentSequence,  \* the components whose tasks follow one another
    Contract,       \* stands for the component of a contract task
    RiskOf,         \* the risk level of each capability
    ProfileOf,      \* the model profile of each capability
    ScopeOf         \* the paths a task may write

ASSUME PlanNumbering ==
    /\ Capability \cup Component \subseteq Nat /\ Contract \in Nat
    /\ IsFiniteSet(Capability) /\ IsFiniteSet(Component)
    /\ ComponentSequence \in Seq(Component)
    /\ \A k \in Component : k < Contract

Rejected == [rejected |-> TRUE]     \* the code raises ValueError

-----------------------------------------------------------------------------
(* Capability resolution. *)

Satisfaction(status, maturity, evidenced) ==
    IF status = "DEFERRED" THEN "DEFERRED"
    ELSE IF status = "NOT_REQUIRED" THEN "NOT_APPLICABLE"
    ELSE IF status = "CONDITIONAL" /\ maturity = "NOT_IMPLEMENTED" THEN "NOT_APPLICABLE"
    ELSE IF maturity \in {"VALIDATED", "PRODUCTION_READY"} THEN "SATISFIED"
    ELSE IF maturity = "DEVELOPMENT" \/ evidenced THEN "PARTIALLY_SATISFIED"
    ELSE "UNSATISFIED"

\* What is reached from a node over the successors it has in g.
Reach(g) ==
    LET grow[k \in 0..Cardinality(DOMAIN g)] ==
            IF k = 0 THEN g
            ELSE [n \in DOMAIN g |->
                    g[n] \cup UNION {grow[k - 1][d] : d \in g[n] \cap DOMAIN g}]
    IN  grow[Cardinality(DOMAIN g)]

Cyclic(g) == \E n \in DOMAIN g : n \in Reach(g)[n]

RequiredCapabilities(m) ==
    LET required == {c \in Capability : m.status[c] = "REQUIRED"}
    IN  required \cup UNION {Reach(m.depends)[c] : c \in required}

Resolve(m) ==
    IF Cyclic(m.depends) THEN Rejected
    ELSE [c \in Capability |->
            Satisfaction(IF c \in RequiredCapabilities(m) THEN "REQUIRED" ELSE m.status[c],
                         m.maturity[c], c \in m.evidence)]

-----------------------------------------------------------------------------
(* Trace validation. *)

RealisedBy(m, c) == {k \in Component : c \in m.realises[k]}

TraceOk(m) ==
    /\ \A r \in m.requirements :
            /\ r.caps # {}
            /\ \E c \in r.caps : RealisedBy(m, c) # {}
            /\ r.verified
    /\ \A k \in Component : \E r \in m.requirements : r.caps \cap m.realises[k] # {}

Gaps(m) ==
    {c \in UNION {r.caps : r \in m.requirements} :
        Resolve(m)[c] \in {"UNSATISFIED", "PARTIALLY_SATISFIED"}}

-----------------------------------------------------------------------------
(* Task generation. *)

CapabilityOf(t) == t[1]
ComponentOf(t) == t[2]

\* The order of task identifiers: IMPL-<capability>-<component or CONTRACT>.
IdBefore(t, u) ==
    \/ CapabilityOf(t) < CapabilityOf(u)
    \/ CapabilityOf(t) = CapabilityOf(u) /\ ComponentOf(t) < ComponentOf(u)

InIdOrder(S) ==
    [i \in 1..Cardinality(S) |->
        CHOOSE t \in S : Cardinality({u \in S : IdBefore(u, t)}) = i - 1]

GeneratedTasks(m) ==
    UNION {LET open == RealisedBy(m, c) \ m.validated
           IN  IF open = {} THEN {<<c, Contract>>} ELSE {c} \X open : c \in Gaps(m)}

\* The task that stands for a component in the component sequence: the last
\* one, when it implements several capabilities.
TaskOfComponent(T, k) ==
    CHOOSE t \in T : /\ ComponentOf(t) = k
                     /\ \A u \in T : ComponentOf(u) = k => ~IdBefore(t, u)

Planned(T, k) == \E t \in T : ComponentOf(t) = k

DependencyEdges(m, T) ==
    {e \in T \X T : /\ e[1] # e[2]
                    /\ CapabilityOf(e[2]) \in m.depends[CapabilityOf(e[1])]}
    \cup
    {<<TaskOfComponent(T, ComponentSequence[k + 1]), TaskOfComponent(T, ComponentSequence[k])>> :
        k \in {k \in 1..Len(ComponentSequence) - 1 :
                Planned(T, ComponentSequence[k]) /\ Planned(T, ComponentSequence[k + 1])}}

DependsOn(edges, t) == {e[2] : e \in {e \in edges : e[1] = t}}

HumanGates(T) == {t \in T : RiskOf[CapabilityOf(t)] \in {"HIGH", "HUMAN_REVIEW"}}

-----------------------------------------------------------------------------
(* Order: waves, parallel sets and the critical path. *)

\* Mutant: a task is placed once any of its dependencies is.
PlacedEarly(T, edges) ==
    LET placed[k \in 0..Cardinality(T)] ==
            IF k = 0 THEN {}
            ELSE LET before == placed[k - 1]
                 IN  before \cup {t \in T : \/ DependsOn(edges, t) = {}
                                            \/ DependsOn(edges, t) \cap before # {}}
    IN  placed

\* The tasks placed by the first k waves.
PlacedBy(T, edges) ==
    LET placed[k \in 0..Cardinality(T)] ==
            IF k = 0 THEN {}
            ELSE LET before == placed[k - 1]
                 IN  before \cup {t \in T : DependsOn(edges, t) \subseteq before}
    IN  placed

Waves(T, edges) ==
    LET placed == PlacedBy(T, edges)
        depth == Cardinality({k \in DOMAIN placed : placed[k] # T})
    IN  [k \in 1..depth |-> placed[k] \ placed[k - 1]]

Scope(t) == ScopeOf[t]

\* Mutant: the scopes are not compared.
ParallelAll(wave) == wave

\* The tasks of a wave, in order, whose scopes meet none taken before.
ParallelSet(wave) ==
    LET order == InIdOrder(wave)
        taken[k \in 0..Len(order)] ==
            IF k = 0 THEN {}
            ELSE LET before == taken[k - 1]
                 IN  IF \E u \in before : Scope(order[k]) \cap Scope(u) # {} THEN before
                     ELSE before \cup {order[k]}
    IN  taken[Len(order)]

\* A longest chain of dependencies (which of several is left open).
CriticalPath(T, edges) ==
    LET longest(paths) ==
            CHOOSE p \in paths : \A q \in paths : Len(q) <= Len(p)
        pathTo[t \in T] ==
            IF DependsOn(edges, t) = {} THEN <<t>>
            ELSE Append(longest({pathTo[d] : d \in DependsOn(edges, t)}), t)
    IN  IF T = {} THEN <<>> ELSE longest({pathTo[t] : t \in T})

Graph(T, edges) == [t \in T |-> DependsOn(edges, t)]

Generate(m) ==
    IF Resolve(m) = Rejected \/ ~TraceOk(m) THEN Rejected
    ELSE LET T == GeneratedTasks(m)
             edges == DependencyEdges(m, T)
         IN  IF Cyclic(Graph(T, edges)) THEN Rejected
             ELSE LET waves == Waves(T, edges)
                  IN  [manifest |-> m, tasks |-> T, edges |-> edges, waves |-> waves,
                       parallel |-> [k \in DOMAIN waves |-> ParallelSet(waves[k])],
                       critical |-> CriticalPath(T, edges),
                       gates |-> HumanGates(T)]

-----------------------------------------------------------------------------
(* Feasibility.  An environment says which tools there are; a policy which *)
(* risks it lets run, which without approval, and how wide.                *)

ToolStatus(env) ==
    IF ~env.codexAvailable THEN "MISSING"
    ELSE IF env.codexConfigured THEN "AVAILABLE"
    ELSE "CONDITIONAL"

PolicyDecision(t, policy) ==
    LET risk == RiskOf[CapabilityOf(t)]
    IN  IF risk \notin policy.guarded THEN "PROHIBITED"
        ELSE IF risk \in policy.auto THEN "AUTO_ALLOWED"
        ELSE IF risk = "HIGH" THEN "HUMAN_APPROVAL_REQUIRED"
        ELSE "GUARDED_ALLOWED"

\* git, PostgreSQL, Alembic, Docker, Compose, Python and memory enough.
InfrastructureMissing(env) == ~env.infrastructure

WritesProhibited(t, policy) == Scope(t) \cap policy.prohibited # {}

\* Why a task cannot run at all.
Blockers(t, env, policy) ==
    {b \in {"tool", "infrastructure", "model", "policy", "scope"} :
        \/ b = "tool" /\ ToolStatus(env) = "MISSING"
        \/ b = "infrastructure" /\ InfrastructureMissing(env)
        \/ b = "model" /\ ProfileOf[CapabilityOf(t)] \notin policy.profiles
        \/ b = "policy" /\ PolicyDecision(t, policy) = "PROHIBITED"
        \/ b = "scope" /\ WritesProhibited(t, policy)}

TaskFeasibility(t, plan, env, policy) ==
    IF Blockers(t, env, policy) # {} THEN "BLOCKED"
    ELSE IF t \in plan.gates THEN "HUMAN_APPROVAL_REQUIRED"
    ELSE IF ToolStatus(env) = "CONDITIONAL" THEN "FEASIBLE_WITH_CONDITIONS"
    ELSE "FEASIBLE"

\* A blocked task blocks its direct dependents, and no further.
TaskResults(plan, env, policy) ==
    LET blocked == {t \in plan.tasks : TaskFeasibility(t, plan, env, policy) = "BLOCKED"}
    IN  [t \in plan.tasks |->
            IF DependsOn(plan.edges, t) \cap blocked # {} THEN "BLOCKED"
            ELSE TaskFeasibility(t, plan, env, policy)]

PlanStatus(results) ==
    IF \E t \in DOMAIN results : results[t] = "BLOCKED" THEN "BLOCKED"
    ELSE IF \E t \in DOMAIN results : results[t] = "HUMAN_APPROVAL_REQUIRED"
         THEN "READY_WITH_HUMAN_GATES"
    ELSE "READY_FOR_DRY_RUN"

FeasibleWidth(plan, results, policy) ==
    LET width(S) == Cardinality({t \in S : results[t] # "BLOCKED"})
    IN  Min({policy.maxWidth,
             Max({0} \cup {width(plan.parallel[k]) : k \in DOMAIN plan.parallel})})

Evaluate(plan, env, policy) ==
    LET results == TaskResults(plan, env, policy)
    IN  [plan |-> plan, env |-> env, results |-> results, status |-> PlanStatus(results),
         width |-> FeasibleWidth(plan, results, policy)]

-----------------------------------------------------------------------------
(* Dry run and freeze. *)

NoGate == [none |-> TRUE]

\* The tasks of the waves, one wave after the other.
RunOrder(plan) == FlattenSeq([k \in DOMAIN plan.waves |-> InIdOrder(plan.waves[k])])

\* Mutant: a gated task joins the batch before it.
BatchesJoined(plan) ==
    LET order == RunOrder(plan)
        cut == {k \in 1..Len(order) : k = Len(order) \/ order[k] \in plan.gates}
        start(k) == 1 + Max({0} \cup {j \in cut : j < k})
        nth[i \in 1..Cardinality(cut)] ==
            CHOOSE k \in cut : Cardinality({j \in cut : j < k}) = i - 1
    IN  [i \in 1..Cardinality(cut) |->
            [tasks |-> SubSeq(order, start(nth[i]), nth[i]),
             gate |-> IF order[nth[i]] \in plan.gates THEN order[nth[i]] ELSE NoGate,
             resume |-> IF i = 1 THEN NoGate ELSE order[nth[i] - 1]]]

\* Tasks in wave order, cut into batches: a gated task is a batch of its own,
\* and what follows a gate resumes after it.
ExecutionBatches(plan) ==
    LET order == RunOrder(plan)
        flush(s) ==
            IF s.current = <<>> THEN s
            ELSE [batches |-> Append(s.batches, [tasks |-> s.current, gate |-> NoGate,
                                                 resume |-> s.resume]),
                  current |-> <<>>, resume |-> NoGate]
        place(s, t) ==
            IF t \in plan.gates
            THEN [batches |-> Append(flush(s).batches, [tasks |-> <<t>>, gate |-> t, resume |-> t]),
                  current |-> <<>>, resume |-> t]
            ELSE [s EXCEPT !.current = Append(@, t)]
        placed[k \in 0..Len(order)] ==
            IF k = 0 THEN [batches |-> <<>>, current |-> <<>>, resume |-> NoGate]
            ELSE place(placed[k - 1], order[k])
    IN  flush(placed[Len(order)]).batches

\* What an import must still be given before execution.
Prerequisites(evaluation) ==
    IF evaluation.plan.tasks # {} /\ ToolStatus(evaluation.env) = "CONDITIONAL"
    THEN {"AIENT_CODEX_COMMAND"} ELSE {}

\* Whether the dry run finds an ERROR: the two artifacts differ, or a task is
\* blocked.
DryRunErrors(plan, evaluation) ==
    \/ plan # evaluation.plan
    \/ evaluation.status = "BLOCKED"

DryRun(plan, evaluation) ==
    [plan |-> plan, evaluation |-> evaluation,
     batches |-> ExecutionBatches(plan),
     width |-> evaluation.width,
     state |-> IF DryRunErrors(plan, evaluation)
               THEN IF evaluation.status = "BLOCKED" THEN "BLOCKED" ELSE "INVALID"
               ELSE IF Prerequisites(evaluation) # {}
               THEN "READY_WITH_EXECUTION_PREREQUISITES"
               ELSE "READY_FOR_PLAN_ACCEPTANCE"]

Frozen(dry) ==
    dry.state \in {"READY_FOR_PLAN_ACCEPTANCE", "READY_WITH_EXECUTION_PREREQUISITES"}
=============================================================================
