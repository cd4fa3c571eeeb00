------------------------- MODULE HardeningBaseline -------------------------
(***************************************************************************)
(* The cumulative hardening baseline of a plan                             *)
(* (src/ai_ent/scheduler/hardening_baseline.py) with the readiness, claims *)
(* and packages that depend on it.                                         *)
(*                                                                         *)
(* A baseline is a commit that holds the results of the tasks integrated   *)
(* so far.  Each advance writes one more checkpoint, which names the next  *)
(* generation; the newest by (created_at, id) is the current baseline.  A  *)
(* task is claimed only when its dependencies are integrated, and its      *)
(* first attempt is executed on the current baseline.  An advance locks    *)
(* the row of the plan's owner task, and several may be tried at once, by  *)
(* processes whose clocks need not agree.                                  *)
(*                                                                         *)
(* A commit is abstracted to its tree: the set of tasks whose results are  *)
(* in it.  Leases and verification are BoundedScheduler's subject.         *)
(***************************************************************************)
EXTENDS Integers

CONSTANTS
    Task,       \* tasks bound to the plan
    Deps,       \* the tasks each task depends on
    Owner,      \* the task whose row is the lock of the baseline
    Advancer,   \* processes that advance the baseline
    Clock       \* readings of the processes' clocks

ASSUME PlanAssumption == Deps \in [Task -> SUBSET Task] /\ Owner \in Task
ASSUME ClockAssumption == Clock \subseteq Nat

VARIABLES
    stage,        \* Task.status, and "claimed" while the claim is uncommitted
    execution,    \* the latest execution of each task
    checkpoints,  \* committed baseline checkpoints
    current,      \* the newest of them
    inserting     \* checkpoint each advancer has inserted, uncommitted

vars == <<stage, execution, checkpoints, current, inserting>>

\* The baseline generation of a repair attempt: its package names none.
Unbound == -1

Checkpoint == [generation : Nat, created : Nat, integrated : SUBSET Task,
               tree : SUBSET Task]

\* Mutant: the baseline of the plan has no generation.
Unnumbered == [generation |-> Unbound, created |-> 0, integrated |-> {},
               tree |-> {}]

\* _initial_state_from_binding: the baseline the plan was accepted on.
Initial == [generation |-> 0, created |-> 0, integrated |-> {}, tree |-> {}]

Execution == [baseline : Nat \cup {Unbound}, tree : SUBSET Task,
              commit : BOOLEAN]
NoExecution == [baseline |-> Unbound, tree |-> {}, commit |-> FALSE]

\* _latest_baseline_checkpoint orders by the writer's clock, then by the id,
\* which contains the generation.
Newer(c, d) ==
    \/ d = Initial
    \/ c.created > d.created
    \/ c.created = d.created /\ c.generation > d.generation

\* Mutant: a passed dependency is enough.
NoBlockers(t) == {}

\* blockers_by_task: passed dependencies that are not in the baseline.
Blockers(t) ==
    {d \in Deps[t] : stage[d] = "passed" /\ d \notin current.integrated}

\* FOR UPDATE NOWAIT on the owner's row, against advances and claims.
Advancing == \E p \in Advancer : inserting[p] # {}
OwnerFree == ~Advancing /\ stage[Owner] # "claimed"

\* Whoever else updates the owner's row waits for an advance.
MayUpdate(t) == t = Owner => ~Advancing

-----------------------------------------------------------------------------
Init ==
    /\ stage = [t \in Task |-> "pending"]
    /\ execution = [t \in Task |-> NoExecution]
    /\ checkpoints = {}
    /\ current = Initial
    /\ inserting = [p \in Advancer |-> {}]

\* list_ready_tasks and claim_task, which asks for the blockers once more.
Claim(t) ==
    /\ stage[t] = "pending"
    /\ \A d \in Deps[t] : stage[d] = "passed"
    /\ Blockers(t) = {}
    /\ MayUpdate(t)
    /\ stage' = [stage EXCEPT ![t] = "claimed"]
    /\ UNCHANGED <<execution, checkpoints, current, inserting>>

\* ExecutionPackageFactory.build binds the execution to the baseline that is
\* current by then, and claim and binding are committed together.
BuildPackage(t) ==
    /\ stage[t] = "claimed"
    /\ execution' = [execution EXCEPT
         ![t] = [baseline |-> current.generation, tree |-> current.tree,
                 commit |-> FALSE]]
    /\ stage' = [stage EXCEPT ![t] = "running"]
    /\ UNCHANGED <<checkpoints, current, inserting>>

\* The package cannot be built, or the session is rolled back.
PackageRejected(t) ==
    /\ stage[t] = "claimed"
    /\ stage' = [stage EXCEPT ![t] = "blocked"]
    /\ UNCHANGED <<execution, checkpoints, current, inserting>>

RollBack(t) ==
    /\ stage[t] = "claimed"
    /\ stage' = [stage EXCEPT ![t] = "pending"]
    /\ UNCHANGED <<execution, checkpoints, current, inserting>>

\* The finalizer records success; a clean worktree leaves no commit.
Pass(t) ==
    /\ stage[t] = "running"
    /\ MayUpdate(t)
    /\ stage' = [stage EXCEPT ![t] = "passed"]
    /\ \E commit \in BOOLEAN :
        execution' = [execution EXCEPT ![t].commit = commit]
    /\ UNCHANGED <<checkpoints, current, inserting>>

\* RepairPlanner.plan claims a new attempt, but its package is built without
\* the factory: no baseline, and a worktree of HEAD, wherever HEAD then is.
Repair(t) ==
    /\ stage[t] = "running"
    /\ MayUpdate(t)
    /\ Blockers(t) = {}
    /\ \E head \in {c.tree : c \in checkpoints \cup {Initial}} :
        execution' = [execution EXCEPT
            ![t] = [baseline |-> Unbound, tree |-> head, commit |-> FALSE]]
    /\ UNCHANGED <<stage, checkpoints, current, inserting>>

Block(t) ==
    /\ stage[t] = "running"
    /\ MayUpdate(t)
    /\ stage' = [stage EXCEPT ![t] = "blocked"]
    /\ UNCHANGED <<execution, checkpoints, current, inserting>>

-----------------------------------------------------------------------------
(* HardeningBaselineService.advance.                                       *)

\* _validate_advancement_provenance of a verified integration of the task onto
\* the expected generation: the execution succeeded, has a commit, and was
\* executed on that very generation.
Provenance(t, expected) ==
    /\ stage[t] = "passed"
    /\ execution[t].commit
    /\ execution[t].baseline = expected

\* Mutant: the generation the caller expects is not compared.
NotStale(expected) == TRUE

\* STALE_ADVANCEMENT otherwise.
Expected(expected) == current.generation = expected

\* Mutant: the checkpoint's id is not a primary key.
AnyGeneration(generation) == TRUE

\* The id of a checkpoint is made of its generation.
Unused(generation) == ~\E c \in checkpoints : c.generation = generation

\* Mutant: the new state forgets the tasks integrated before.
OnlyThis(t, created) ==
    [generation |-> current.generation + 1, created |-> created,
     integrated |-> {t}, tree |-> execution[t].tree \cup {t}]

\* The integrated commit holds the baseline the task was executed on and the
\* task's own commit: that is what the operator who integrates them makes.
NextState(t, created) ==
    [generation |-> current.generation + 1, created |-> created,
     integrated |-> current.integrated \cup {t},
     tree |-> execution[t].tree \cup {t}]

\* The checkpoint is inserted under the owner's lock.
Advance(p, t, expected, created) ==
    /\ OwnerFree
    /\ Provenance(t, expected)
    /\ t \notin current.integrated
    /\ Expected(expected)
    /\ Unused(current.generation + 1)
    /\ inserting' = [inserting EXCEPT ![p] = {NextState(t, created)}]
    /\ UNCHANGED <<stage, execution, checkpoints, current>>

CommitAdvance(p) ==
    \E c \in inserting[p] :
        /\ checkpoints' = checkpoints \cup {c}
        /\ current' = IF Newer(c, current) THEN c ELSE current
        /\ inserting' = [inserting EXCEPT ![p] = {}]
        /\ UNCHANGED <<stage, execution>>

RollBackAdvance(p) ==
    /\ inserting[p] # {}
    /\ inserting' = [inserting EXCEPT ![p] = {}]
    /\ UNCHANGED <<stage, execution, checkpoints, current>>

-----------------------------------------------------------------------------
TaskStep(t) ==
    \/ Claim(t) \/ BuildPackage(t) \/ PackageRejected(t) \/ RollBack(t)
    \/ Pass(t) \/ Repair(t) \/ Block(t)

\* The generations an integration may have been made on.
Generations == {c.generation : c \in checkpoints \cup {Initial}}

AdvanceStep(p) ==
    \/ \E t \in Task, expected \in Generations, created \in Clock :
        Advance(p, t, expected, created)
    \/ CommitAdvance(p) \/ RollBackAdvance(p)

Next == (\E t \in Task : TaskStep(t)) \/ (\E p \in Advancer : AdvanceStep(p))

Spec == Init /\ [][Next]_vars
=============================================================================
