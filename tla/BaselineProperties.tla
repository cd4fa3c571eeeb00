------------------------- MODULE BaselineProperties -------------------------
(***************************************************************************)
(* What the cumulative baseline guarantees, and what a test says of the    *)
(* packages that repairs do not keep.                                      *)
(***************************************************************************)
EXTENDS HardeningBaseline

Stage == {"pending", "claimed", "running", "passed", "blocked"}

\* Every variable has its type.
TypeOK ==
    /\ stage \in [Task -> Stage]
    /\ execution \in [Task -> Execution]
    /\ checkpoints \in SUBSET Checkpoint
    /\ current \in Checkpoint
    /\ inserting \in [Advancer -> SUBSET Checkpoint]

\* The baseline's commit holds the result of every task it calls integrated:
\* an integration made on an older baseline never replaces a newer one.
TreeHoldsIntegrated == \A c \in checkpoints : c.integrated \subseteq c.tree

\* The baselines form one history, although they are advanced by several
\* processes whose clocks disagree: a generation is written once, and a later
\* one contains all that the earlier ones do.
OneHistory ==
    \A c, d \in checkpoints :
        /\ c.generation = d.generation => c = d
        /\ c.generation < d.generation =>
             c.integrated \subseteq d.integrated /\ c.tree \subseteq d.tree

\* A first attempt is executed on a tree that holds the results of everything
\* the task depends on, whatever was integrated between claim and package.
DependenciesInTree ==
    \A t \in Task :
        execution[t].baseline # Unbound => Deps[t] \subseteq execution[t].tree

Order == INSTANCE IntegrationOrder WITH integrated <- current.integrated

\* The current baseline grows by one task at a time, each after the tasks it
\* depends on, and never goes back, even when clocks do.
IntegrationOrdered == Order!Spec

-----------------------------------------------------------------------------
\* "runtime package is bound to authoritative baseline generation": every
\* execution of a task of the plan names the generation it is executed on.
PackageIsBound ==
    \A t \in Task : stage[t] = "running" => execution[t].baseline # Unbound
=============================================================================
