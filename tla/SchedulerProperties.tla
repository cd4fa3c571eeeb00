------------------------ MODULE SchedulerProperties ------------------------
(***************************************************************************)
(* What the scheduler is supposed to guarantee, over BoundedScheduler.     *)
(* Properties with a claim to hold come first; the last section states     *)
(* what tests and assertions of the repository say and the code does not   *)
(* keep.                                                                   *)
(***************************************************************************)
EXTENDS BoundedScheduler

\* Every variable has its type: the rows of the tables, the sessions' copies
\* of them and the lock table stay within the values the models allow.
TypeOK ==
    /\ now \in Nat
    /\ task \in [Task -> TaskStatus]
    /\ attempt \in [Task -> [Number -> Row]]
    /\ lock \in [Task -> Runner \cup {NoRunner}]
    /\ git \in SUBSET (Task \X Number)
    /\ trees \in SUBSET (Task \X Number)
    /\ sweep \in SUBSET (Task \X Number)
    /\ pc \in [Runner -> Location]
    /\ job \in [Runner -> Task \cup {NoTask}]
    /\ no \in [Runner -> Number \cup {0}]
    /\ base \in [Runner -> Nat \cup {NoTx}]
    /\ row \in [Runner -> Row]
    /\ cached \in [Runner -> TaskStatus]
    /\ attempted \in [Runner -> Nat]
    /\ repairs \in [Runner -> Nat]
    /\ runs \in [Runner -> Nat]

\* An attempt that proves its task done: verified, recorded as completed, and
\* its commit, if it made one, exists in the repository.
Evidence(t, a) ==
    /\ attempt[t][a].status = "succeeded"
    /\ attempt[t][a].note = "completed"
    /\ attempt[t][a].commit => <<t, a>> \in git
HasEvidence(t) == \E a \in Number : Evidence(t, a)

\* A passed task has a verified attempt on record and the commit it names is in
\* the repository, whatever crashed between the git commit and the database's.
PassedHasEvidence == \A t \in Task : task[t] = "passed" => HasEvidence(t)

\* No attempt of a task is ever made before all its dependencies are proved
\* done: a session that reads stale task objects does not get ahead of them.
DependenciesVerifiedFirst ==
    \A t \in Task : \A d \in Deps[t] :
        (\E a \in Number : ~Free(t, a)) => HasEvidence(d)

\* Two runners never execute, verify or commit the same task at a time, even
\* when one of them claimed it on a lease that had expired for it.
OneLiveAttempt ==
    \A r, s \in Runner :
        /\ r # s
        /\ pc[r] \in HoldsLease /\ pc[s] \in HoldsLease
        => job[r] # job[s]

\* A task has at most one active lease row, expired or not: active_for_task
\* looks at the most recent one only, so an older one would escape the claim
\* that should expire it and the ownership tests.
OneActiveLease ==
    \A t \in Task : \A a, b \in Number :
        attempt[t][a].lease = "active" /\ attempt[t][b].lease = "active" => a = b

\* Whoever is claiming a task that another runner executes still sees its
\* committed lease as valid.  So a claim never expires a lease row that an open
\* transaction has renewed, and never waits for it.
NoLeaseRowWait ==
    \A r, s \in Runner :
        /\ pc[r] \in {"locked", "claimed"} /\ pc[s] \in HoldsLease
        /\ job[r] = job[s]
        => Live(attempt[job[s]][no[s]], base[r])

\* One scheduler commits the result of a task once, through crashes between the
\* git commit and the database commit, restarts and repairs.
NoDuplicateCommit ==
    \A t \in Task : \A a, b \in Number :
        <<t, a>> \in git /\ <<t, b>> \in git => a = b

\* With one scheduler a new attempt is made only when every earlier one is on
\* record as failed: an attempt of unknown outcome is never run again blindly.
NoBlindRerun ==
    \A t \in Task : \A a, b \in Number :
        a < b /\ ~Free(t, b) => attempt[t][a].status \notin {"running", "succeeded"}

\* A task gets no more repair attempts than the largest budget a run has, over
\* all its runs: the loop and the planner each count attempts in their own way.
RepairBudget ==
    \A t \in Task :
        \E r \in Runner :
            Cardinality({a \in Number : attempt[t][a].owner = "repair-planner"})
                <= MaxRepairs[r]

\* A worktree directory always has its execution on record, so no crash leaves
\* the orphan that makes recover_project refuse every later run.
WorktreeHasExecution ==
    \A t \in Task, a \in Number : <<t, a>> \in trees => ~Free(t, a)

\* A task that is done, one way or the other, is not leased to anybody.
EndedTaskNotLeased ==
    \A t \in Task : task[t] \in {"passed", "blocked"} => ~Leased(t, now)

Lifecycle == INSTANCE TaskLifecycle
    WITH status <- task, proved <- {t \in Task : HasEvidence(t)}

\* One scheduler implements the life of a task as TaskLifecycle states it: one
\* task at a time, its proof and its status in one step, nothing started while
\* an interrupted task is unresolved, passed and blocked final.
LifecycleImplemented == Lifecycle!Spec

\* A guarded run comes to an end: the claim loop, which continues on
\* contention, the repair loop and the waits for row locks all terminate.
RunEnds == \A r \in Runner : pc[r] \notin Ended ~> pc[r] \in Ended

-----------------------------------------------------------------------------
(* What the repository says and the code does not keep.                    *)

\* "exactly one winner": a task is claimed from the ready list only once.
ExactlyOneWinner ==
    \A t \in Task :
        Cardinality({a \in Number : attempt[t][a].owner = "guarded-run"}) <= 1

\* "executor failure terminalizes claimed task and commits before stop": when a
\* run stops because the executor failed, its task is left blocked.
ExecutorFailureTerminalizes ==
    [][\A r \in Runner :
        /\ pc[r] = "settling" /\ pc'[r] = "stopped"
        /\ row[r].note \in {"executor_failed", "executor_exception",
                            "executor_timeout"}
        => task'[job[r]] = "blocked"]_vars

\* "claim contention does not count as failure": a run that finds its task
\* locked goes on to look for another, it does not end in an exception.
ContentionIsNotFailure ==
    [][\A r \in Runner : pc[r] = "listed" => pc'[r] # "raised"]_vars

\* "assert repair_result is not None": after an attempt that failed, a repair
\* was at least considered, and the failure is committed.
RepairWasConsidered ==
    [][\A r \in Runner : pc[r] = "failed" => pc'[r] # "raised"]_vars
=============================================================================
