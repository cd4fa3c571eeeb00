------------------------------ MODULE MCWorkspace ------------------------------
(* Bounds for ExternalWorkspace. *)
EXTENDS WorkspaceProperties, TLC

MCBelow ==
    [x \in {"src", "tests", "build", "**"} |->
        CASE x = "src" -> {"src", "src/app"}
          [] x = "tests" -> {"tests"}
          [] x = "build" -> {"build"}
          [] OTHER -> {"src", "src/app", "tests", "build"}]

MCProject(id, root) ==
    [id |-> id, lifecycle |-> "IMPORT", powers |-> {},
     artifacts |-> {[project |-> id, workspace |-> "W", sound |-> TRUE, path |-> "src/app"]},
     workspace |-> [id |-> "W", owner |-> Unset, root |-> root, roots |-> {"src"},
                    prohibited |-> {"build"}],
     repository |-> [id |-> "R", workspace |-> "W", url |-> Unset],
     plan |-> [id |-> "P", version |-> 1, state |-> "FROZEN", hash |-> Unset,
               tasks |-> 1..3, gates |-> {"g"}, verified |-> TRUE],
     binding |-> [bound |-> [project |-> id, workspace |-> "W", repository |-> "R",
                             plan |-> "P", version |-> 1],
                  state |-> "READY_FOR_IMPORT", approved |-> {"g"}, pending |-> {},
                  implicit |-> FALSE, verified |-> TRUE]]

-----------------------------------------------------------------------------
(* Records: a project with a remote; as it is before its gates are          *)
(* approved, with another remote; after the import, when its plan hashes    *)
(* differently; two projects of other roots and one of the same root; one   *)
(* that claims a power.                                                     *)

MCBound == [MCProject("A", "r1") EXCEPT !.repository.url = "u1"]
MCPlanned ==
    [MCProject("A", "r1") EXCEPT !.lifecycle = "APPROVE", !.repository.url = "u2",
                                 !.binding.approved = {}, !.binding.pending = {"g"}]
MCImported == [MCProject("A", "r1") EXCEPT !.plan.state = "IMPORTED"]
MCOther == MCProject("B", "r1")
MCRecord ==
    {MCBound, MCPlanned, MCImported, MCOther, MCProject("C", "r2"), MCProject("D", "r3"),
     [MCProject("A", "r1") EXCEPT !.powers = {"verifier_bypass"}]}

-----------------------------------------------------------------------------
(* Frozen plans: every graph of three tasks, then every gate of a few.      *)

MCFrozen(project, depends, gateTask, allowed, width) ==
    [project |-> project, tasks |-> 1..3, depends |-> depends,
     runs |-> [t \in 1..3 |-> TRUE], allowed |-> [t \in 1..3 |-> allowed],
     gateTask |-> gateTask, width |-> width]

MCGraphs == [1..3 -> SUBSET (1..3)]
MCChain == <<{}, {1}, {2}>>

MCGated ==
    {[MCProject("A", "r1") EXCEPT !.lifecycle = lifecycle, !.plan.gates = gates,
                                  !.binding.approved = approved, !.binding.pending = pending] :
        lifecycle \in {"APPROVE", "IMPORT"}, gates \in SUBSET {"g", "h"},
        approved \in SUBSET {"g", "h"}, pending \in SUBSET {"g", "h"}}

MCFrozenPlan ==
    {MCFrozen(MCBound, depends, "g" :> 2, {"src/app"}, 1) : depends \in MCGraphs}
    \cup {MCFrozen(p, MCChain, gateTask, {"src"}, 2) :
            p \in MCGated, gateTask \in {<<>>, "g" :> 1, "g" :> 4, "g" :> 2 @@ "h" :> 3}}
    \cup {MCFrozen(MCBound, <<{}, {1}, {1, 4}>>, "g" :> 1, {path}, width) :
            path \in {"src", "tests", "build"}, width \in 0..1}
    \cup {MCFrozen(MCBound, MCChain, "g" :> 1, {path}, width) :
            path \in {"src", "tests", "build"}, width \in 0..1}

\* Calls that may end, calls beside an edit, and plans on their own.
MCBudget ==
    {[calls |-> 4, ends |-> 1, edits |-> 0, plans |-> 0],
     [calls |-> 3, ends |-> 1, edits |-> 1, plans |-> 0],
     [calls |-> 0, ends |-> 0, edits |-> 0, plans |-> 1]}

\* The files of an application are named by the length of their archive.
MCLength == [t \in Tree |-> t]
=============================================================================
