------------------------- MODULE BoundedScheduler -------------------------
(***************************************************************************)
(* The task scheduler of src/ai_ent/scheduler: guarded runs that recover   *)
(* the project, pick a ready task, claim it with a lease, execute it in a  *)
(* git worktree, verify and commit the result, and repair a failed attempt *)
(* within a budget.                                                        *)
(*                                                                         *)
(* A runner is one guarded-run process.  It owns one database session: its *)
(* writes (row, cached) reach the shared tables (task, attempt) only at a  *)
(* commit, the clock it reads (base) is frozen while a transaction is open *)
(* (PostgreSQL's now()), a task object it still holds is not refreshed by  *)
(* a later query (SQLAlchemy's identity map), and the row locks it takes   *)
(* are held until the transaction ends.  Every step may be the last one of *)
(* the process: a crash rolls the transaction back, while git commits and  *)
(* worktrees stay.                                                         *)
(***************************************************************************)
EXTENDS Integers, FiniteSets, FailurePolicy

CONSTANTS
    Runner,           \* guarded-run processes
    Task,             \* tasks of the project, numbered by (created_at, id)
    Deps,             \* the tasks each task depends on
    NoRunner,         \* nobody holds the lock
    LeaseTime,        \* lease_duration of the scheduler iteration
    RenewTime,        \* executor timeout plus lease_grace
    RepairLeaseTime,  \* RepairPolicy.repair_lease_duration
    SweepGrace,       \* stale_active_lease_grace of the cleanup
    MaxTasks,         \* BoundedRunLimits.max_tasks_per_run
    MaxRepairs,       \* max_repairs_per_task each runner is started with
    MaxAttempt,       \* bound: attempts of a task
    MaxTime,          \* bound: the clock
    MaxRuns           \* bound: runs each process starts

ASSUME TaskAssumption == Task \subseteq Nat \ {0}
ASSUME DepsAssumption == Deps \in [Task -> SUBSET Task]
ASSUME RunnerAssumption == NoRunner \notin Runner
ASSUME BoundAssumption ==
    /\ LeaseTime \in Nat \ {0} /\ RenewTime \in Nat \ {0}
    /\ RepairLeaseTime \in Nat \ {0} /\ SweepGrace \in Nat
    /\ MaxTasks \in Nat /\ MaxRepairs \in [Runner -> Nat]
    /\ MaxAttempt \in Nat /\ MaxTime \in Nat /\ MaxRuns \in Nat

VARIABLES
    now,        \* wall clock
    task,       \* committed Task.status
    attempt,    \* committed Execution, TaskLease and latest checkpoint
    lock,       \* holder of the row lock of each task
    git,        \* attempts whose candidate is committed in the repository
    trees,      \* attempts whose worktree directory exists
    sweep,      \* the lease a cleanup has read as stale and will expire
    pc,         \* where each runner is
    job,        \* the task object its session holds
    no,         \* number of its attempt
    base,       \* start of its open transaction
    row,        \* its session's copy of the attempt
    cached,     \* its session's copy of the task's status
    attempted,  \* tasks_attempted of the run
    repairs,    \* repairs_attempted of the task
    runs        \* runs started

shared  == <<task, attempt>>
repo    == <<git, trees>>
session == <<job, no, base, row, cached>>
counts  == <<attempted, repairs, runs>>
vars    == <<now, shared, lock, repo, sweep, pc, session, counts>>

NoTask == 0
NoTx   == -1
Number == 1..MaxAttempt

TaskStatus  == {"pending", "running", "passed", "failed", "blocked"}
LeaseStatus == {"none", "active", "released", "completed", "expired"}
Owner       == {"none", "guarded-run", "repair-planner"}
Row == [status : ExecutionStatus, note : Note, commit : BOOLEAN,
        lease : LeaseStatus, expires : Nat, owner : Owner]
NoRow == [status |-> "none", note |-> "none", commit |-> FALSE,
          lease |-> "none", expires |-> 0, owner |-> "none"]

\* The outcome of an executor that did not succeed, with its classification.
ExecutorFailure ==
    {<<"failed", "executor_failed">>, <<"failed", "executor_exception">>,
     <<"cancelled", "executor_failed">>, <<"timeout", "executor_timeout">>}

\* A run that returned, one that an exception of its own ended, and a process
\* that was killed.
Ended     == {"stopped", "raised", "dead"}
Claiming  == {"listed", "locked", "claimed"}
\* From the committed claim to the commit that settles the attempt.
Attempting == {"owned", "executing", "finalizing", "verified", "committed",
               "failed", "settling", "forfeiting"}
\* The renewed lease and the execution are flushed: their rows are locked.
HoldsLease == Attempting \ {"owned", "forfeiting"}
Location  == Ended \cup Claiming \cup Attempting \cup {"idle"}

-----------------------------------------------------------------------------
(* What a transaction reads.                                               *)

\* A transaction starts with its first statement and keeps that time.
TxTime(r) == IF base[r] = NoTx THEN now ELSE base[r]

\* A query does not refresh the task object the session still references.
Seen(r, t) == IF t = job[r] THEN cached[r] ELSE task[t]

Live(lease, time) == lease.lease = "active" /\ lease.expires > time

Leased(t, time) == \E a \in Number : Live(attempt[t][a], time)

\* Mutant: a task starts as soon as the ones it depends on have started.
ReadyTooEarly(r, t) ==
    /\ Seen(r, t) = "pending"
    /\ ~Leased(t, TxTime(r))
    /\ \A d \in Deps[t] : Seen(r, d) \in {"running", "passed"}

\* TaskReadinessService: pending, no live lease, every dependency passed.
Ready(r, t) ==
    /\ Seen(r, t) = "pending"
    /\ ~Leased(t, TxTime(r))
    /\ \A d \in Deps[t] : Seen(r, d) = "passed"

\* ExecutionRepository.create numbers attempts from the ones in the table.
Free(t, a) == attempt[t][a].status = "none"
IsNext(t, a) == Free(t, a) /\ \A b \in Number : b < a => ~Free(t, b)

\* recover_project: nothing running, no worktree without its execution.
Orphan(t, a) ==
    /\ <<t, a>> \in trees
    /\ task[t] # "passed"
    /\ Free(t, a)
\* Mutant: an interrupted task does not hold the next run up.
SafeWhenNoOrphan == ~\E t \in Task, a \in Number : Orphan(t, a)
SafeToContinue ==
    /\ \A t \in Task : task[t] # "running"
    /\ ~\E t \in Task, a \in Number : Orphan(t, a)

\* The attempts of its task as the session sees them, its own row flushed.
View(r, a) == IF a = no[r] THEN row[r] ELSE attempt[job[r]][a]

RepairCount(r) ==
    Cardinality({a \in Number : a > 1 /\ View(r, a).status = "failed"})

RepairExists(r) ==
    \E a \in Number : /\ a > no[r]
                      /\ View(r, a).status \in {"running", "succeeded", "timeout"}

-----------------------------------------------------------------------------
(* What a transaction writes.                                              *)

Unlocked(r) == [t \in Task |-> IF lock[t] = r THEN NoRunner ELSE lock[t]]

\* A flush that updates the task's row waits for its lock and keeps it.
LockTask(r) ==
    /\ lock[job[r]] \in {NoRunner, r}
    /\ lock' = [lock EXCEPT ![job[r]] = r]

\* The process ends: its session is gone, its transaction with it.
End(r, how) ==
    /\ pc' = [pc EXCEPT ![r] = how]
    /\ job' = [job EXCEPT ![r] = NoTask]
    /\ no' = [no EXCEPT ![r] = 0]
    /\ base' = [base EXCEPT ![r] = NoTx]
    /\ row' = [row EXCEPT ![r] = NoRow]
    /\ cached' = [cached EXCEPT ![r] = "pending"]
    /\ attempted' = [attempted EXCEPT ![r] = 0]
    /\ repairs' = [repairs EXCEPT ![r] = 0]
    /\ lock' = Unlocked(r)
    /\ UNCHANGED runs

\* Mutant: the lease ends its duration before it begins.
BackdatedClaim(owner, time, duration) ==
    [status |-> "running", note |-> "none", commit |-> FALSE,
     lease |-> "active", expires |-> time - duration, owner |-> owner]

NewClaim(owner, time, duration) ==
    [status |-> "running", note |-> "none", commit |-> FALSE,
     lease |-> "active", expires |-> time + duration, owner |-> owner]

\* Mutant: the lease of a failed attempt is forgotten.
KeptLease(r) == row[r].lease

\* _finish(status="released"): only an active, unexpired lease is released.
Released(r) ==
    IF row[r].lease # "active" THEN row[r].lease
    ELSE IF row[r].expires > base[r] THEN "released" ELSE "expired"

-----------------------------------------------------------------------------
Init ==
    /\ now = 0
    /\ task = [t \in Task |-> "pending"]
    /\ attempt = [t \in Task |-> [a \in Number |-> NoRow]]
    /\ lock = [t \in Task |-> NoRunner]
    /\ git = {} /\ trees = {} /\ sweep = {}
    /\ pc = [r \in Runner |-> "stopped"]
    /\ job = [r \in Runner |-> NoTask]
    /\ no = [r \in Runner |-> 0]
    /\ base = [r \in Runner |-> NoTx]
    /\ row = [r \in Runner |-> NoRow]
    /\ cached = [r \in Runner |-> "pending"]
    /\ attempted = [r \in Runner |-> 0]
    /\ repairs = [r \in Runner |-> 0]
    /\ runs = [r \in Runner |-> 0]

\* GuardedRunner.run: the session's first query opens its transaction, and the
\* run goes on only if recover_project finds nothing interrupted.
StartRun(r) ==
    /\ pc[r] \in Ended
    /\ runs[r] < MaxRuns
    /\ SafeToContinue
    /\ runs' = [runs EXCEPT ![r] = @ + 1]
    /\ pc' = [pc EXCEPT ![r] = "idle"]
    /\ base' = [base EXCEPT ![r] = now]
    /\ UNCHANGED <<now, shared, lock, repo, sweep, job, no, row, cached,
                   attempted, repairs>>

RefuseRun(r) ==
    /\ pc[r] \in Ended
    /\ runs[r] < MaxRuns
    /\ ~SafeToContinue
    /\ runs' = [runs EXCEPT ![r] = @ + 1]
    /\ pc' = [pc EXCEPT ![r] = "stopped"]
    /\ UNCHANGED <<now, shared, lock, repo, sweep, session, attempted, repairs>>

\* The head of the loop of BoundedSchedulerRunner.run: max_tasks_per_run, the
\* wall clock or a requested shutdown may end the run between two tasks, and so
\* does the first list_ready_tasks that is empty.
Stop(r) ==
    /\ pc[r] = "idle"
    /\ End(r, "stopped")
    /\ UNCHANGED <<now, shared, repo, sweep>>

\* SchedulerIterationService.run_once selects the first ready task; the claim
\* that follows reads the same object.
ListReady(r) ==
    /\ pc[r] = "idle"
    /\ attempted[r] < MaxTasks
    /\ \E t \in Task :
        /\ Ready(r, t)
        /\ \A u \in Task : u < t => ~Ready(r, u)
        /\ job' = [job EXCEPT ![r] = t]
        /\ cached' = [cached EXCEPT ![r] = Seen(r, t)]
    /\ base' = [base EXCEPT ![r] = TxTime(r)]
    /\ no' = [no EXCEPT ![r] = 0]
    /\ row' = [row EXCEPT ![r] = NoRow]
    /\ pc' = [pc EXCEPT ![r] = "listed"]
    /\ UNCHANGED <<now, shared, lock, repo, sweep, counts>>

-----------------------------------------------------------------------------
(* claim_task.                                                             *)

\* SELECT ... FOR UPDATE NOWAIT
LockForClaim(r) ==
    /\ pc[r] = "listed"
    /\ LockTask(r)
    /\ pc' = [pc EXCEPT ![r] = "locked"]
    /\ UNCHANGED <<now, shared, repo, sweep, session, counts>>

\* The lock is taken: claim_task reports contention and the loop goes on, but
\* the failed statement has aborted the transaction, so the next one raises.
LockRefused(r) ==
    /\ pc[r] = "listed"
    /\ lock[job[r]] \notin {NoRunner, r}
    /\ End(r, "raised")
    /\ UNCHANGED <<now, shared, repo, sweep>>

\* Mutant: try the same task again until it is free.
RetryClaim(r) ==
    /\ pc[r] = "locked"
    /\ Leased(job[r], base[r])
    /\ pc' = [pc EXCEPT ![r] = "listed"]
    /\ UNCHANGED <<now, shared, lock, repo, sweep, session, counts>>

\* ALREADY_LEASED: back to the loop in the same transaction, lock and all.
ClaimRefused(r) ==
    /\ pc[r] = "locked"
    /\ Leased(job[r], base[r])
    /\ pc' = [pc EXCEPT ![r] = "idle"]
    /\ UNCHANGED <<now, shared, lock, repo, sweep, session, counts>>

\* Mutant: the worktree is made before the claim is durable.
ClaimWithWorktree(r) ==
    /\ pc[r] = "locked"
    /\ ~Leased(job[r], base[r])
    /\ cached[r] = "pending"
    /\ \E a \in Number :
        /\ IsNext(job[r], a)
        /\ no' = [no EXCEPT ![r] = a]
        /\ trees' = trees \cup {<<job[r], a>>}
    /\ row' = [row EXCEPT ![r] = NewClaim("guarded-run", base[r], LeaseTime)]
    /\ cached' = [cached EXCEPT ![r] = "running"]
    /\ pc' = [pc EXCEPT ![r] = "claimed"]
    /\ UNCHANGED <<now, shared, lock, git, sweep, job, base, counts>>

Claim(r) ==
    /\ pc[r] = "locked"
    /\ ~Leased(job[r], base[r])
    /\ cached[r] = "pending"
    /\ \E a \in Number :
        /\ IsNext(job[r], a)
        /\ no' = [no EXCEPT ![r] = a]
    /\ row' = [row EXCEPT ![r] = NewClaim("guarded-run", base[r], LeaseTime)]
    /\ cached' = [cached EXCEPT ![r] = "running"]
    /\ pc' = [pc EXCEPT ![r] = "claimed"]
    /\ UNCHANGED <<now, shared, lock, repo, sweep, job, base, counts>>

\* Mutant: the lease a claim supersedes stays active.
WithClaimOnly(rows, time, a, claim) == [rows EXCEPT ![a] = claim]

\* The table after a claim: stale leases of the task are expired with it.
WithClaim(rows, time, a, claim) ==
    [b \in Number |->
        IF b = a THEN claim
        ELSE IF rows[b].lease = "active" /\ rows[b].expires <= time
             THEN [rows[b] EXCEPT !.lease = "expired"]
             ELSE rows[b]]

\* persist_execution_ownership: the claim is durable before anything runs.
CommitClaim(r) ==
    /\ pc[r] = "claimed"
    /\ attempt' = [attempt EXCEPT
                     ![job[r]] = WithClaim(@, base[r], no[r], row[r])]
    /\ task' = [task EXCEPT ![job[r]] = "running"]
    /\ lock' = Unlocked(r)
    /\ base' = [base EXCEPT ![r] = NoTx]
    /\ attempted' = [attempted EXCEPT ![r] = @ + 1]
    /\ repairs' = [repairs EXCEPT ![r] = 0]
    /\ pc' = [pc EXCEPT ![r] = "owned"]
    /\ UNCHANGED <<now, repo, sweep, job, no, row, cached, runs>>

\* ExecutionPackageFactory.build rejects the task: the claim is committed
\* together with its failure and the run stops.
PackageRejected(r) ==
    /\ pc[r] = "claimed"
    /\ attempt' = [attempt EXCEPT
                     ![job[r]] = WithClaim(@, base[r], no[r],
                         [row[r] EXCEPT !.status = "failed",
                                        !.note = "package_construction_failed",
                                        !.lease = Released(r)])]
    /\ task' = [task EXCEPT ![job[r]] = "blocked"]
    /\ End(r, "stopped")
    /\ UNCHANGED <<now, repo, sweep>>

-----------------------------------------------------------------------------
(* ClaimedExecutionRunner.run_claimed, in one transaction.                 *)

FirstAttempt(r) == row[r].owner = "guarded-run"

\* Mutant: nobody asks whether the lease is still valid.
OwnsAnyLease(r) ==
    /\ attempt[job[r]][no[r]].owner = row[r].owner
    /\ attempt[job[r]][no[r]].lease = "active"

\* active_for_task finds this attempt's lease (OneActiveLease: there is no later
\* one), unexpired.
OwnsLease(r) ==
    LET mine == attempt[job[r]][no[r]] IN
    /\ mine.owner = row[r].owner
    /\ Live(mine, now)

\* OWNERSHIP_LOST: the first attempt still blocks the task from the status it
\* remembers; a repair attempt records nothing.
LoseOwnership(r) ==
    /\ pc[r] = "owned"
    /\ ~OwnsLease(r)
    /\ base' = [base EXCEPT ![r] = now]
    /\ IF FirstAttempt(r)
       THEN LockTask(r) /\ cached' = [cached EXCEPT ![r] = "blocked"]
       ELSE UNCHANGED <<lock, cached>>
    /\ pc' = [pc EXCEPT ![r] = "forfeiting"]
    /\ UNCHANGED <<now, shared, repo, sweep, job, no, row, counts>>

\* _record_executor_failure: the first attempt blocks the task and releases
\* the lease; after a failed repair execution nobody does.
ExecutionEnds(r, status, note) ==
    /\ IF FirstAttempt(r)
       THEN /\ LockTask(r)
            /\ cached' = [cached EXCEPT ![r] = "blocked"]
            /\ row' = [row EXCEPT ![r] = [@ EXCEPT !.status = status, !.note = note,
                                                  !.lease = "released"]]
       ELSE /\ row' = [row EXCEPT ![r] = [@ EXCEPT !.status = status, !.note = note]]
            /\ UNCHANGED <<lock, cached>>
    /\ pc' = [pc EXCEPT ![r] = "settling"]

\* NOT_CONFIGURED before the renewal, WORKTREE_ERROR after it.
CannotExecute(r) ==
    /\ pc[r] = "owned"
    /\ OwnsLease(r)
    /\ base' = [base EXCEPT ![r] = now]
    /\ \E note \in {"codex_not_configured", "codex_configuration_invalid",
                    "worktree_error"} :
        ExecutionEnds(r, "failed", note)
    /\ UNCHANGED <<now, shared, repo, sweep, job, no, counts>>

\* The lease is renewed and a worktree made before the executor is called.
StartExecutor(r) ==
    /\ pc[r] = "owned"
    /\ OwnsLease(r)
    /\ base' = [base EXCEPT ![r] = now]
    /\ row' = [row EXCEPT ![r].expires = now + RenewTime]
    /\ trees' = trees \cup {<<job[r], no[r]>>}
    /\ pc' = [pc EXCEPT ![r] = "executing"]
    /\ UNCHANGED <<now, shared, lock, git, sweep, job, no, cached, counts>>

ExecutorFails(r) ==
    /\ pc[r] = "executing"
    /\ \E f \in ExecutorFailure : ExecutionEnds(r, f[1], f[2])
    /\ UNCHANGED <<now, shared, repo, sweep, job, no, base, counts>>

ExecutorSucceeds(r) ==
    /\ pc[r] = "executing"
    /\ row' = [row EXCEPT ![r].status = "succeeded"]
    /\ pc' = [pc EXCEPT ![r] = "finalizing"]
    /\ UNCHANGED <<now, shared, lock, repo, sweep, job, no, base, cached,
                   counts>>

-----------------------------------------------------------------------------
(* ExecutionFinalizer.finalize, in the same transaction.                   *)

\* PRECONDITION_FAILED: worktree gone, manifest mismatch, git unavailable.
FinalizationRefused(r) ==
    /\ pc[r] = "finalizing"
    /\ pc' = [pc EXCEPT ![r] = "failed"]
    /\ UNCHANGED <<now, shared, lock, repo, sweep, session, counts>>

\* Mutant: the failure is classified, the execution keeps its status.
RecordFailureNote(r, note) ==
    /\ LockTask(r)
    /\ row' = [row EXCEPT ![r] = [@ EXCEPT !.note = note, !.lease = Released(r)]]
    /\ cached' = [cached EXCEPT ![r] = "blocked"]
    /\ pc' = [pc EXCEPT ![r] = "failed"]
    /\ UNCHANGED <<now, shared, repo, sweep, job, no, base, counts>>

\* _record_failure, and the same bookkeeping after a denied commit.
RecordFailure(r, note) ==
    /\ LockTask(r)
    /\ row' = [row EXCEPT ![r] = [@ EXCEPT !.status = "failed", !.note = note,
                                          !.lease = Released(r)]]
    /\ cached' = [cached EXCEPT ![r] = "blocked"]
    /\ pc' = [pc EXCEPT ![r] = "failed"]
    /\ UNCHANGED <<now, shared, repo, sweep, job, no, base, counts>>

\* Mutant: the candidate is verified again once it is committed.
RejectedAfterCommit(r) ==
    /\ pc[r] \in {"finalizing", "committed"}
    /\ \E note \in {"scope_failed", "verification_failed"} :
        RecordFailure(r, note)

CandidateRejected(r) ==
    /\ pc[r] = "finalizing"
    /\ \E note \in {"scope_failed", "verification_failed"} :
        RecordFailure(r, note)

CandidateVerified(r) ==
    /\ pc[r] = "finalizing"
    /\ Live(row[r], base[r])
    /\ pc' = [pc EXCEPT ![r] = "verified"]
    /\ UNCHANGED <<now, shared, lock, repo, sweep, session, counts>>

\* The git commit is made while the database transaction is still open.
CommitCandidate(r) ==
    /\ pc[r] = "verified"
    /\ git' = git \cup {<<job[r], no[r]>>}
    /\ pc' = [pc EXCEPT ![r] = "committed"]
    /\ UNCHANGED <<now, shared, lock, trees, sweep, session, counts>>

\* A clean worktree: success without a commit.
NothingToCommit(r) ==
    /\ pc[r] = "verified"
    /\ pc' = [pc EXCEPT ![r] = "committed"]
    /\ UNCHANGED <<now, shared, lock, repo, sweep, session, counts>>

\* The committer refuses, or git cannot name the tree of the new HEAD.
CommitDenied(r) ==
    /\ pc[r] \in {"verified", "committed"}
    /\ RecordFailure(r, "commit_denied")

\* Mutant: the commit is recorded first and left to be made later.
CommitLater(r) ==
    /\ pc[r] = "verified"
    /\ LockTask(r)
    /\ row' = [row EXCEPT ![r] = [@ EXCEPT !.status = "succeeded",
                                          !.note = "completed", !.commit = TRUE,
                                          !.lease = "completed"]]
    /\ cached' = [cached EXCEPT ![r] = "passed"]
    /\ pc' = [pc EXCEPT ![r] = "settling"]
    /\ UNCHANGED <<now, shared, repo, sweep, job, no, base, counts>>

\* _record_success: only here does the execution get its commit_hash.
RecordSuccess(r) ==
    /\ pc[r] = "committed"
    /\ LockTask(r)
    /\ row' = [row EXCEPT ![r] = [@ EXCEPT !.status = "succeeded",
                                          !.note = "completed",
                                          !.commit = <<job[r], no[r]>> \in git,
                                          !.lease = "completed"]]
    /\ cached' = [cached EXCEPT ![r] = "passed"]
    /\ pc' = [pc EXCEPT ![r] = "settling"]
    /\ UNCHANGED <<now, shared, repo, sweep, job, no, base, counts>>

-----------------------------------------------------------------------------
(* The repair loop of _run_task, and the commit that ends an attempt.      *)

\* Mutant: one repair too many.
OneMoreRepair(r) == MaxRepairs[r] + 1

\* One limit, max_repairs_per_task, bounds the loop of _run_task and is the
\* planner's max_autonomous_repair_attempts.
RepairLimit(r) == MaxRepairs[r]

MayRepair(r) ==
    /\ repairs[r] < RepairLimit(r)
    /\ ~RepairExists(r)
    /\ RepairAction(Retryability(row[r].status, row[r].note), RepairCount(r),
                    RepairLimit(r)) = "REPAIR_WITH_NEW_EXECUTION"

\* RepairPlanner.plan claims a new attempt in the transaction that records the
\* failure; the two are committed together and the loop runs the new one.
Repair(r) ==
    /\ pc[r] = "failed"
    /\ MayRepair(r)
    /\ lock[job[r]] = r
    /\ \E a \in Number :
        /\ IsNext(job[r], a)
        /\ no' = [no EXCEPT ![r] = a]
        /\ LET claim == NewClaim("repair-planner", base[r], RepairLeaseTime)
           IN  /\ row' = [row EXCEPT ![r] = claim]
               /\ attempt' = [attempt EXCEPT ![job[r]] =
                     WithClaim([@ EXCEPT ![no[r]] = row[r]], base[r], a, claim)]
    /\ task' = [task EXCEPT ![job[r]] = "running"]
    /\ cached' = [cached EXCEPT ![r] = "running"]
    /\ lock' = Unlocked(r)
    /\ base' = [base EXCEPT ![r] = NoTx]
    /\ repairs' = [repairs EXCEPT ![r] = @ + 1]
    /\ pc' = [pc EXCEPT ![r] = "owned"]
    /\ UNCHANGED <<now, repo, sweep, job, attempted, runs>>

GiveUp(r) ==
    /\ pc[r] = "failed"
    /\ MaxRepairs[r] > 0
    /\ ~MayRepair(r)
    /\ pc' = [pc EXCEPT ![r] = "settling"]
    /\ UNCHANGED <<now, shared, lock, repo, sweep, session, counts>>

\* With max_repairs_per_task = 0 the loop never runs and the assertion after
\* it fails: the session, with the recorded failure, is rolled back.
RepairAssertion(r) ==
    /\ pc[r] = "failed"
    /\ MaxRepairs[r] = 0
    /\ End(r, "raised")
    /\ UNCHANGED <<now, shared, repo, sweep>>

\* An unmodified task object is not written.
TaskAfter(r) == IF cached[r] = "running" THEN task[job[r]] ELSE cached[r]

\* _persist_attempt_boundary: a failed attempt ends the run, a completed one
\* leads back to the loop.
SettleFailure(r) ==
    /\ pc[r] = "settling"
    /\ row[r].note # "completed"
    /\ attempt' = [attempt EXCEPT ![job[r]][no[r]] = row[r]]
    /\ task' = [task EXCEPT ![job[r]] = TaskAfter(r)]
    /\ End(r, "stopped")
    /\ UNCHANGED <<now, repo, sweep>>

SettleSuccess(r) ==
    /\ pc[r] = "settling"
    /\ row[r].note = "completed"
    /\ attempt' = [attempt EXCEPT ![job[r]][no[r]] = row[r]]
    /\ task' = [task EXCEPT ![job[r]] = TaskAfter(r)]
    /\ lock' = Unlocked(r)
    /\ base' = [base EXCEPT ![r] = NoTx]
    /\ no' = [no EXCEPT ![r] = 0]
    /\ row' = [row EXCEPT ![r] = NoRow]
    /\ pc' = [pc EXCEPT ![r] = "idle"]
    /\ UNCHANGED <<now, repo, sweep, job, cached, counts>>

\* After OWNERSHIP_LOST only the task is dirty.
SettleForfeit(r) ==
    /\ pc[r] = "forfeiting"
    /\ task' = [task EXCEPT ![job[r]] = TaskAfter(r)]
    /\ End(r, "stopped")
    /\ UNCHANGED <<now, attempt, repo, sweep>>

-----------------------------------------------------------------------------
(* The environment.                                                        *)

\* The process dies, or an exception leaves Database.session().
Crash(r) ==
    /\ pc[r] \notin Ended
    /\ End(r, "dead")
    /\ UNCHANGED <<now, shared, repo, sweep>>

Tick ==
    /\ now < MaxTime
    /\ now' = now + 1
    /\ UNCHANGED <<shared, lock, repo, sweep, pc, session, counts>>

\* RuntimeCleanupService.apply reads a lease as active and long expired ...
SweepRead(t, a) ==
    /\ sweep = {}
    /\ attempt[t][a].lease = "active"
    /\ attempt[t][a].expires + SweepGrace <= now
    /\ sweep' = {<<t, a>>}
    /\ UNCHANGED <<now, shared, lock, repo, pc, session, counts>>

\* ... and writes it once no transaction holds the row, without reading again.
SweepWrite(t, a) ==
    /\ <<t, a>> \in sweep
    /\ \A r \in Runner : ~(pc[r] \in HoldsLease /\ job[r] = t /\ no[r] = a)
    /\ attempt' = [attempt EXCEPT ![t][a].lease = "expired"]
    /\ sweep' = {}
    /\ UNCHANGED <<now, task, lock, repo, pc, session, counts>>

-----------------------------------------------------------------------------
ClaimStep(r) ==
    \/ LockForClaim(r) \/ LockRefused(r) \/ ClaimRefused(r) \/ Claim(r)
    \/ CommitClaim(r) \/ PackageRejected(r)

ExecuteStep(r) ==
    \/ LoseOwnership(r) \/ CannotExecute(r) \/ StartExecutor(r)
    \/ ExecutorFails(r) \/ ExecutorSucceeds(r)

FinalizeStep(r) ==
    \/ FinalizationRefused(r) \/ CandidateRejected(r) \/ CandidateVerified(r)
    \/ CommitDenied(r) \/ CommitCandidate(r) \/ NothingToCommit(r)
    \/ RecordSuccess(r)

SettleStep(r) ==
    \/ Repair(r) \/ GiveUp(r) \/ RepairAssertion(r)
    \/ SettleFailure(r) \/ SettleSuccess(r) \/ SettleForfeit(r)

\* What a live runner does by itself.
RunnerStep(r) ==
    \/ Stop(r) \/ ListReady(r)
    \/ ClaimStep(r) \/ ExecuteStep(r) \/ FinalizeStep(r) \/ SettleStep(r)

Cleanup == \E t \in Task, a \in Number : SweepRead(t, a) \/ SweepWrite(t, a)

Next ==
    \/ \E r \in Runner : StartRun(r) \/ RefuseRun(r) \/ RunnerStep(r) \/ Crash(r)
    \/ Tick
    \/ Cleanup

Spec == Init /\ [][Next]_vars

\* Git commands, the verifier and the executor (killed at its timeout) return,
\* and PostgreSQL serves lock waiters; nothing makes a process crash or restart.
FairSpec == Spec /\ \A r \in Runner : WF_vars(RunnerStep(r))
=============================================================================
