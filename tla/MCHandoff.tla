------------------------------- MODULE MCHandoff -------------------------------
(***************************************************************************)
(* Bounds for PlannedHandoff.  Imports run from four revisions of the      *)
(* manifest; the planner is checked on a survey of dependency graphs.      *)
(***************************************************************************)
EXTENDS PlannedHandoff

CONSTANTS First, Second, Cycle, Done,       \* revisions imports start from
          R1, P1, P2, X1,                   \* tasks of the other plans
          Both, NoCommand, NoCodex          \* environments

MCCapability == 1..3
MCComponent == 1..3
MCComponentSequence == <<1, 2>>
MCContract == 4
MCRiskOf == <<"LOW", "HIGH", "MEDIUM">>
MCProfileOf == <<"CODING_STANDARD", "ARCHITECTURE_REASONING", "SECURITY_REVIEW">>
MCScopeOf == [t \in MCCapability \X (1..4) |-> IF t[2] = 3 THEN {"scripts"} ELSE {"src"}]

-----------------------------------------------------------------------------
(* Manifests: dependencies, what the components realise, what is done and  *)
(* which components are validated.                                         *)

MCManifest(depends, realises, done, validated) ==
    [depends |-> depends,
     status |-> [c \in 1..3 |-> IF c = 2 THEN "CONDITIONAL" ELSE "REQUIRED"],
     maturity |-> [c \in 1..3 |-> IF c \in done THEN "VALIDATED" ELSE "NOT_IMPLEMENTED"],
     evidence |-> {3},
     requirements |-> {[caps |-> 1..3, verified |-> TRUE]},
     realises |-> realises, validated |-> validated]

MCPairs == <<<<1, 2>>, <<1, 3>>, <<2, 1>>, <<2, 3>>, <<3, 1>>, <<3, 2>>>>
MCRealises == <<<<{1}, {2}, {3}>>, <<{3}, {2}, {1}>>, <<{1, 3}, {2}, {1, 2}>>>>

MCGraph(n) ==
    [c \in 1..3 |-> {MCPairs[k][2] : k \in {k \in 1..6 : MCPairs[k][1] = c /\ (n \div 2^(k-1)) % 2 = 1}}]

\* 64 graphs, 3 ways to realise, with the second component validated or not.
MCSurvey ==
    {MCManifest(MCGraph(n), MCRealises[k], done, validated) :
        n \in 0..63, k \in 1..3, done \in {{}, {3}}, validated \in {{}, {2}}}

MCChain == <<{}, {1}, {2}>>
MCRevision == {First, Second, Cycle, Done}
MCManifestOf ==
    First :> MCManifest(MCChain, MCRealises[1], {3}, {})
    @@ Second :> MCManifest(MCChain, MCRealises[1], {2, 3}, {})
    @@ Cycle :> MCManifest(<<{2}, {1}, {}>>, MCRealises[1], {3}, {})
    @@ Done :> MCManifest(MCChain, MCRealises[1], {1, 2, 3}, {})

MCEnv == {Both, NoCommand, NoCodex}
MCEnvRecord ==
    [e \in MCEnv |-> [codexAvailable |-> e # NoCodex, codexConfigured |-> e = Both,
                      infrastructure |-> TRUE]]
MCDefaultPolicy ==
    [guarded |-> {"LOW", "MEDIUM", "HIGH"}, auto |-> {"LOW"},
     profiles |-> {"CODING_STANDARD", "ARCHITECTURE_REASONING", "SECURITY_REVIEW"},
     prohibited |-> {}, maxWidth |-> 2]
MCPolicy ==
    {MCDefaultPolicy, [MCDefaultPolicy EXCEPT !.guarded = {"LOW", "HIGH"}],
     [MCDefaultPolicy EXCEPT !.prohibited = {"scripts"}],
     [MCDefaultPolicy EXCEPT !.profiles = {"CODING_STANDARD", "SECURITY_REVIEW"}],
     [MCDefaultPolicy EXCEPT !.maxWidth = 1]}

MCPlannable == {First, Second, Done}
MCFreezesIn == [r \in MCPlannable |-> IF r = Done THEN MCEnv ELSE {Both, NoCommand}]

-----------------------------------------------------------------------------
(* The plans. *)

MCPlan(tasks, edges, gated, status, undecided, width) ==
    [tasks |-> tasks, edges |-> edges,
     gates |-> [t \in gated |-> [task |-> t, status |-> status]],
     undecided |-> undecided, width |-> width]

MCPlanOf ==
    First :> MCPlan({<<1, 1>>, <<2, 2>>}, {<<<<2, 2>>, <<1, 1>>>>}, {<<2, 2>>}, "pending", {}, 1)
    @@ Second :> MCPlan({<<1, 1>>}, {}, {}, "pending", {}, 1)
    @@ Done :> MCPlan({}, {}, {}, "pending", {}, 0)
    @@ Residual :> MCPlan({R1}, {}, {R1}, "pending", {}, 1)
    @@ Product :> MCPlan({P1, P2}, {<<P2, P1>>}, {P1}, "pending", {P2}, 1)
    @@ External :> MCPlan({X1}, {}, {X1}, "approved", {}, 1)

\* The native plans are those of the planner.
ASSUME MCPlanner == Planner

MCTaskId == UNION {MCPlanOf[p].tasks : p \in DOMAIN MCPlanOf}
MCGateId == UNION {DOMAIN MCPlanOf[p].gates : p \in DOMAIN MCPlanOf}
MCKernelTask == {<<2, 2>>}

MCEditsOf ==
    [r \in MCRevision |-> CASE r = First -> {Second, Cycle}
                            [] r = Second -> {First}
                            [] OTHER -> {}]

-----------------------------------------------------------------------------
(* Reviews: the evidence that leaves the five known gaps, two more of it   *)
(* (the gap of C08 closed, and evidence for C07), and too little of it.    *)

MCReviewed == 1..20
MCBefore ==
    [c \in MCReviewed |-> CASE c \in {1, 2, 8, 16} -> "UNSATISFIED"
                            [] c \in {10, 11} -> "NOT_APPLICABLE"
                            [] c \in {12, 13} -> "SATISFIED"
                            [] OTHER -> "PARTIALLY_SATISFIED"]
MCSourceFiles == {5, 6, 7, 9}

MCEvidence == [proved |-> {1, 2} \cup 14..19, refs |-> {},
               artifacts |-> {"BEAG-001", "IPCG-001"}]
MCFacts ==
    {MCEvidence, [MCEvidence EXCEPT !.refs = {8}], [MCEvidence EXCEPT !.refs = {7}],
     [MCEvidence EXCEPT !.proved = @ \ {1}]}
MCReleased == Review(MCEvidence, TRUE)

-----------------------------------------------------------------------------
(* First: the plans in their order and once more; the gated task of one    *)
(* plan; two plans and a failure; a review beside an import.  Second:      *)
(* edits and changes of environment while artifacts load.  Cycle: the      *)
(* commands for the residual plan.  Done: a plan without tasks, or one     *)
(* manifest planned.                                                       *)

MCSpend(imports, edits, failures, evaluations) ==
    [imports |-> imports, edits |-> edits, failures |-> failures,
     evaluations |-> evaluations, plans |-> 0, commands |-> 0]
MCCommands(imports, edits, commands) ==
    [MCSpend(imports, edits, 0, 0) EXCEPT !.commands = commands]

MCBudget ==
    [r \in MCRevision |->
        CASE r = First -> {MCSpend(4, 0, 0, 0), MCSpend(1, 0, 0, 2), MCSpend(2, 0, 1, 0),
                           MCCommands(1, 0, 2)}
          [] r = Second -> {MCSpend(2, 2, 0, 0)}
          [] r = Cycle -> {MCSpend(1, 0, 0, 0), MCCommands(0, 1, 4)}
          [] r = Done -> {MCSpend(2, 0, 0, 0), [MCSpend(0, 0, 0, 0) EXCEPT !.plans = 1]}]
=============================================================================
