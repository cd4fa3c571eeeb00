------------------------ MODULE SchedulerInvariant ------------------------
(***************************************************************************)
(* The inductive invariant behind the safety properties of the scheduler,  *)
(* in layers: what a runner owns, what the record proves, and how leases   *)
(* and transactions are ordered in time.  Each layer is inductive relative *)
(* to the ones before it.                                                  *)
(***************************************************************************)
EXTENDS SchedulerProperties

InTask(r) == pc[r] \in Claiming \cup Attempting

-----------------------------------------------------------------------------
(* Ownership.                                                              *)

HasJob(r) ==
    /\ InTask(r) => job[r] \in Task
    /\ pc[r] \in Attempting \cup {"claimed"} => no[r] \in Number

\* The row lock is held from SELECT ... FOR UPDATE to the commit of the claim.
ClaimHoldsLock(r) == pc[r] \in {"locked", "claimed"} => lock[job[r]] = r

\* The number a claim will get is still free, and the claim not yet written.
ClaimIsNew(r) ==
    pc[r] = "claimed" =>
        /\ Free(job[r], no[r])
        /\ row[r].status = "running" /\ row[r].note = "none" /\ ~row[r].commit
        /\ row[r].owner = "guarded-run"

\* Until its runner settles it, an attempt is "running" in the database.
AttemptIsRunning(r) ==
    pc[r] \in Attempting =>
        /\ attempt[job[r]][no[r]].status = "running"
        /\ attempt[job[r]][no[r]].note = "none"
        /\ attempt[job[r]][no[r]].owner = row[r].owner
        /\ row[r].status # "none"

\* A task that was claimed is never pending again.
NotPending(r) ==
    /\ pc[r] \in {"listed", "locked"} => cached[r] = "pending"
    /\ pc[r] = "claimed" => cached[r] = "running"
    /\ pc[r] \in Attempting => cached[r] # "pending" /\ task[job[r]] # "pending"

Owns(r) ==
    /\ HasJob(r)
    /\ ClaimHoldsLock(r)
    /\ ClaimIsNew(r)
    /\ AttemptIsRunning(r)
    /\ NotPending(r)

AttemptsDiffer ==
    \A r, s \in Runner :
        /\ r # s
        /\ pc[r] \in Attempting /\ pc[s] \in Attempting
        /\ job[r] = job[s]
        => no[r] # no[s]

Ownership == (\A r \in Runner : Owns(r)) /\ AttemptsDiffer

-----------------------------------------------------------------------------
(* Evidence.                                                               *)

\* A process that ended left its session behind.
NoSessionLeft == \A r \in Runner : pc[r] \in Ended => job[r] = NoTask

\* A session remembers "passed" of a task between two tasks only if it is so.
RememberedHasEvidence ==
    \A r \in Runner :
        pc[r] = "idle" /\ job[r] # NoTask /\ cached[r] = "passed"
            => HasEvidence(job[r])

\* What a runner is about to record of its attempt.
PendingRecord ==
    \A r \in Runner : pc[r] \in Attempting =>
        /\ row[r].commit => <<job[r], no[r]>> \in git
        /\ \/ row[r].note # "completed" /\ cached[r] # "passed"
           \/ /\ pc[r] = "settling"
              /\ row[r].note = "completed" /\ cached[r] = "passed"
              /\ row[r].status = "succeeded"

\* A runner is at a task only once its dependencies are proved.
ClaimingAfterDependencies ==
    \A r \in Runner : pc[r] \in Claiming =>
        \A d \in Deps[job[r]] : HasEvidence(d)

EvidenceInv ==
    /\ PassedHasEvidence
    /\ NoSessionLeft
    /\ RememberedHasEvidence
    /\ PendingRecord
    /\ ClaimingAfterDependencies
    /\ DependenciesVerifiedFirst
    /\ WorktreeHasExecution

-----------------------------------------------------------------------------
(* Leases in time.                                                         *)

\* A transaction is open, and began in the past, wherever a runner reads now().
TransactionTime ==
    \A r \in Runner :
        /\ base[r] <= now
        /\ pc[r] \in Claiming \cup (Attempting \ {"owned"}) => base[r] # NoTx
        /\ pc[r] = "idle" /\ job[r] # NoTask /\ cached[r] = "pending"
               => base[r] # NoTx

\* An executing runner's committed lease was valid when it began.
LeaseWasValid ==
    \A r \in Runner : pc[r] \in HoldsLease => Live(attempt[job[r]][no[r]], base[r])

\* A runner that still takes a task for pending looked before any runner that
\* now executes it got its lease.
PendingWasSeenBefore ==
    \A r, s \in Runner :
        /\ pc[s] \in Claiming \cup {"idle"} /\ cached[s] \in {"pending", "running"}
        /\ pc[r] \in HoldsLease
        /\ job[s] = job[r]
        => base[s] <= base[r]

\* What a claim found out under the row lock stays true until it commits.
ClaimFindsNoLease ==
    \A r \in Runner : pc[r] = "claimed" => ~Leased(job[r], base[r])

\* A failure that may be repaired has given up its lease.
FailureGivesUpLease ==
    \A r \in Runner :
        /\ pc[r] \in {"claimed", "owned", "executing"} => row[r].note = "none"
        /\ pc[r] \in {"finalizing", "verified", "committed"}
               => row[r].status = "succeeded" /\ row[r].note = "none"
        /\ pc[r] = "failed"
               => \/ row[r].status = "succeeded" /\ row[r].note = "none"
                  \/ row[r].lease # "active"

LeaseInv ==
    /\ TransactionTime
    /\ FailureGivesUpLease
    /\ LeaseWasValid
    /\ PendingWasSeenBefore
    /\ ClaimFindsNoLease
    /\ OneActiveLease

-----------------------------------------------------------------------------
(* One scheduler.                                                          *)

OneScheduler == \E r : Runner = {r}

\* A number that is free has never been claimed or leased, and every number of
\* a task that is still pending is free.
Untried ==
    \A t \in Task, a \in Number :
        /\ Free(t, a) => attempt[t][a].owner = "none" /\ attempt[t][a].lease # "active"
        /\ task[t] = "pending" => Free(t, a)

\* A commit hash on record names a commit of the repository.
CommitExists ==
    \A t \in Task, a \in Number : attempt[t][a].commit => <<t, a>> \in git

\* Nothing is attempted after an attempt that was committed.
CommittedIsLast ==
    \A t \in Task, a \in Number :
        <<t, a>> \in git => \A b \in Number : Free(t, b) <=> b > a

\* What becomes of a task that was started.
Outcome == {"running", "passed", "blocked"}

\* What the session remembers is so, and the runner's task is the running one.
SoleView(r) ==
    /\ pc[r] \in {"idle", "listed", "locked"} /\ job[r] # NoTask
           => cached[r] = task[job[r]]
    /\ pc[r] \in Claiming => task[job[r]] = "pending"
    /\ pc[r] \in Attempting => task[job[r]] = "running" /\ cached[r] \in Outcome
    /\ pc[r] \notin Ended =>
           \A t \in Task : task[t] = "running" => pc[r] \in Attempting /\ t = job[r]

\* The runner's attempt is the last one, and the only one with a lease.
SoleAttempt(r) ==
    /\ pc[r] = "claimed" => no[r] = 1
    /\ pc[r] \in Attempting => \A b \in Number :
           /\ Free(job[r], b) <=> b > no[r]
           /\ b # no[r] => attempt[job[r]][b].lease # "active"

\* A failure that finalization records has one of three notes; an attempt that
\* was committed is not to be repaired; a task that is to be given an end has
\* lost its lease.
SoleRecord(r) ==
    /\ pc[r] = "failed" =>
           \/ row[r].status = "succeeded" /\ row[r].note = "none"
           \/ /\ row[r].status = "failed"
              /\ row[r].note \in {"scope_failed", "verification_failed", "commit_denied"}
    /\ pc[r] \in Attempting /\ <<job[r], no[r]>> \in git =>
           pc[r] = "committed" \/ row[r].note \in {"commit_denied", "completed"}
    /\ pc[r] \in Attempting /\ cached[r] # "running" =>
           \/ pc[r] = "forfeiting" /\ ~Live(attempt[job[r]][no[r]], now)
           \/ pc[r] \in {"failed", "settling"} /\ row[r].lease # "active"

RepairsOf(t) == {a \in Number : attempt[t][a].owner = "repair-planner"}

\* The loop has counted every repair of its task.
SoleBudget(r) ==
    /\ \A t \in Task : Cardinality(RepairsOf(t)) <= MaxRepairs[r]
    /\ pc[r] \in Attempting => Cardinality(RepairsOf(job[r])) <= repairs[r]

SoleInv ==
    /\ Untried
    /\ CommitExists
    /\ CommittedIsLast
    /\ NoBlindRerun
    /\ EndedTaskNotLeased
    /\ \A r \in Runner : SoleView(r) /\ SoleAttempt(r) /\ SoleRecord(r) /\ SoleBudget(r)
=============================================================================
