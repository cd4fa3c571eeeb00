---------------------------- MODULE MCScheduler ----------------------------
(***************************************************************************)
(* Instances of BoundedScheduler for TLC.                                  *)
(***************************************************************************)
EXTENDS SchedulerProperties, TLC

CONSTANTS r1, r2

\* Each task depends on the one before it.
Chain == [t \in Task |-> {u \in Task : u = t - 1}]

\* No task depends on another, so that only recovery makes one wait.
Independent == [t \in Task |-> {}]

\* --max-repairs of each runner: 2 is the default; 1 for the first runner and 0
\* for the others is the smallest budget with both outcomes of the repair loop.
TwoRepairs == [r \in Runner |-> 2]
OneRepair == [r \in Runner |-> IF r = r1 THEN 1 ELSE 0]
=============================================================================
