---------------------------- MODULE ExternalProject ----------------------------
(***************************************************************************)
(* Projects that are built outside the control plane, and their frozen     *)
(* plans: src/ai_ent/external_project.py and what runtime_handoff.py makes *)
(* of such a plan.                                                         *)
(*                                                                         *)
(* A project is a record: its "id", "lifecycle", "artifacts", the powers   *)
(* over the control plane that its parts claim, and the "workspace",       *)
(* "repository", "plan" and "binding" of the code.  A path is a value;     *)
(* Below of a root or of a pattern are the paths it covers.  What the      *)
(* validators look for in texts (commands, digests, secrets) is a flag.    *)
(***************************************************************************)
EXTENDS Integers, FiniteSets

CONSTANTS
    Below,          \* the paths at or below each root and pattern
    UnsafePath,     \* paths that are not project-relative
    DefaultProhibited,
    Unset           \* an optional field without a value

LifecycleStates == <<"CREATE", "INTAKE", "PLAN", "FREEZE", "APPROVE", "IMPORT",
                     "EXECUTE", "VERIFY", "COMPLETE", "RUN", "ARCHIVE">>

ExecutionStates == {LifecycleStates[k] : k \in 6..11}

Prohibited(path, patterns) == \E x \in patterns : path \in Below[x]

InRoots(path, roots) == \E r \in roots : path \in Below[r]

-----------------------------------------------------------------------------
(* validate_external_project. *)

IdentityBound(p) ==
    /\ p.workspace.owner \in {Unset, p.id}
    /\ p.repository.workspace = p.workspace.id
    /\ p.binding.bound = [project |-> p.id, workspace |-> p.workspace.id,
                          repository |-> p.repository.id, plan |-> p.plan.id,
                          version |-> p.plan.version]

ScopeSafe(p) ==
    /\ DefaultProhibited \subseteq p.workspace.prohibited
    /\ \A r \in p.workspace.roots :
        r \notin UnsafePath /\ ~Prohibited(r, p.workspace.prohibited)

\* No part claims to write to the control plane, to push without a gate, to
\* answer to another authority or to bypass the verifier.
AuthorityKept(p) == p.powers = {}

GatesDecided(p) ==
    /\ ~p.binding.implicit
    /\ p.binding.approved \cup p.binding.pending \subseteq p.plan.gates
    /\ p.lifecycle \in ExecutionStates => p.plan.gates \subseteq p.binding.approved

VerificationKept(p) == p.plan.verified /\ p.binding.verified

ArtifactsSound(p) ==
    \A a \in p.artifacts :
        /\ a.project = p.id /\ a.workspace = p.workspace.id
        /\ a.sound
        /\ a.path \notin UnsafePath
        /\ ~Prohibited(a.path, p.workspace.prohibited)

Valid(p) ==
    /\ IdentityBound(p) /\ ScopeSafe(p) /\ AuthorityKept(p)
    /\ GatesDecided(p) /\ VerificationKept(p) /\ ArtifactsSound(p)

ServiceSafe(p) == Valid(p) /\ \A a \in p.artifacts : InRoots(a.path, p.workspace.roots)

-----------------------------------------------------------------------------
(* validate_external_project_frozen_plan.  A frozen plan is a record: its   *)
(* "project", "tasks", what each "depends" on and may write ("allowed"),    *)
(* whether it "runs" as it must (verified, by codex), the task of each      *)
(* defined gate ("gateTask") and the "width".                               *)

ReadyToImport(f) ==
    /\ f.project.plan.state = "FROZEN"
    /\ f.project.binding.state = "READY_FOR_IMPORT"
    /\ f.width >= 1

Edges(f) == UNION {{t} \X f.depends[t] : t \in f.tasks}

\* Mutant: only a task that depends on itself is noticed.
HasSelfDependency(f) == \E t \in f.tasks : t \in f.depends[t]

\* A task is met again on a way along its dependencies.
HasDependencyCycle(f) ==
    LET ahead[k \in 1..Cardinality(f.tasks)] ==
            IF k = 1 THEN f.depends
            ELSE [t \in f.tasks |->
                    f.depends[t] \cup UNION {ahead[k - 1][d] : d \in f.depends[t] \cap f.tasks}]
    IN  f.tasks # {} /\ \E t \in f.tasks : t \in ahead[Cardinality(f.tasks)][t]

TasksBound(f) ==
    /\ f.tasks = f.project.plan.tasks
    /\ \A t \in f.tasks : f.depends[t] \subseteq f.tasks /\ f.runs[t]
    /\ ~HasDependencyCycle(f)

GatesDefined(f) ==
    LET p == f.project
    IN  /\ p.binding.approved \cap p.binding.pending = {}
        /\ p.plan.gates \subseteq p.binding.approved \cup p.binding.pending
        /\ DOMAIN f.gateTask = p.plan.gates
        /\ \A g \in DOMAIN f.gateTask : f.gateTask[g] \in f.tasks

ScopesInside(f) ==
    \A t \in f.tasks : \A path \in f.allowed[t] :
        /\ path \notin UnsafePath
        /\ InRoots(path, f.project.workspace.roots)
        /\ ~Prohibited(path, f.project.workspace.prohibited)

Importable(f) ==
    /\ Valid(f.project)
    /\ ReadyToImport(f) /\ TasksBound(f) /\ GatesDefined(f) /\ ScopesInside(f)

-----------------------------------------------------------------------------
(* What the runtime hand-off makes of a frozen plan. *)

\* The tasks placed by the first k waves: when none is ready, all that remain.
PlacedIn(f) ==
    LET placed[k \in 0..Cardinality(f.tasks)] ==
            IF k = 0 THEN {}
            ELSE LET before == placed[k - 1]
                     ready == {t \in f.tasks \ before : f.depends[t] \subseteq before}
                 IN  IF ready = {} THEN f.tasks ELSE before \cup ready
    IN  placed

\* A gate is approved when the binding says so, whatever its definition does.
GateStatusOf(f, g) == IF g \in f.project.binding.approved THEN "approved" ELSE "pending"

Handed(f) ==
    [tasks |-> f.tasks, edges |-> Edges(f),
     gates |-> [g \in DOMAIN f.gateTask |-> [task |-> f.gateTask[g], status |-> GateStatusOf(f, g)]],
     undecided |-> {}, width |-> f.width]

-----------------------------------------------------------------------------
(* The identity of a workspace. *)

\* The hash of a plan, when it names none, is of all it says, its state too.
PlanHash(plan) ==
    IF plan.hash # Unset THEN plan.hash
    ELSE [id |-> plan.id, version |-> plan.version, state |-> plan.state,
          tasks |-> plan.tasks, gates |-> plan.gates]

\* What the marker of a workspace says, and must say of the project that uses it.
Signature(p) ==
    [project |-> p.id, workspace |-> p.workspace.id, root |-> p.workspace.root,
     roots |-> p.workspace.roots, prohibited |-> p.workspace.prohibited,
     repository |-> p.repository.id, plan |-> p.plan.id, hash |-> PlanHash(p.plan)]

MutatingOperations == {"build", "test", "start", "stop", "restart", "archive"}

OperationKinds == MutatingOperations \cup {"log"}

\* Whether an operation may run, under the gate it names and its confirmation.
Permitted(p, operation, gate, confirmed) ==
    operation \in MutatingOperations =>
        /\ gate \in p.plan.gates
        /\ gate \in p.binding.approved
        /\ confirmed

\* The commands of an operation, in order.
Commands(operation) ==
    CASE operation = "start" -> <<"up">>
      [] operation = "restart" -> <<"stop", "up">>
      [] OTHER -> <<operation>>
=============================================================================
