--------------------------- MODULE TaskLifecycle ---------------------------
(***************************************************************************)
(* What one scheduler promises about a project, whatever fails underneath: *)
(* tasks are worked on one at a time, each only after the tasks it depends *)
(* on were proved done, a task is passed in the same instant as its proof  *)
(* is recorded, and passed and blocked are final.  An interrupted task     *)
(* stays running, and holds up every other task, until somebody looks.     *)
(*                                                                         *)
(* BoundedScheduler with one runner implements this specification          *)
(* (SchedulerProperties!LifecycleImplemented).                             *)
(***************************************************************************)
CONSTANTS Task, Deps

VARIABLES
    status,   \* pending, running, passed or blocked
    proved    \* tasks with a verified attempt on record

vars == <<status, proved>>

Init ==
    /\ status = [t \in Task |-> "pending"]
    /\ proved = {}

Idle == \A t \in Task : status[t] # "running"

May(t) ==
    /\ Idle
    /\ status[t] = "pending"
    /\ Deps[t] \subseteq proved

Start(t) ==
    /\ May(t)
    /\ status' = [status EXCEPT ![t] = "running"]
    /\ UNCHANGED proved

\* The task cannot even be packaged for the executor.
Reject(t) ==
    /\ May(t)
    /\ status' = [status EXCEPT ![t] = "blocked"]
    /\ UNCHANGED proved

Pass(t) ==
    /\ status[t] = "running"
    /\ status' = [status EXCEPT ![t] = "passed"]
    /\ proved' = proved \cup {t}

Block(t) ==
    /\ status[t] = "running"
    /\ status' = [status EXCEPT ![t] = "blocked"]
    /\ UNCHANGED proved

Next == \E t \in Task : Start(t) \/ Reject(t) \/ Pass(t) \/ Block(t)

Spec == Init /\ [][Next]_vars
=============================================================================
