-------------------------- MODULE IntegrationOrder --------------------------
(***************************************************************************)
(* What a cumulative baseline promises: the set of integrated tasks grows  *)
(* by one task at a time, each after the tasks it depends on, and nothing  *)
(* is taken out again.  HardeningBaseline implements it.                   *)
(***************************************************************************)
CONSTANTS Task, Deps
VARIABLE integrated

Init == integrated = {}

Integrate(t) ==
    /\ t \notin integrated
    /\ Deps[t] \subseteq integrated
    /\ integrated' = integrated \cup {t}

Next == \E t \in Task : Integrate(t)

Spec == Init /\ [][Next]_integrated
=============================================================================
