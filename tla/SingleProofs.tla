---------------------------- MODULE SingleProofs ----------------------------
(***************************************************************************)
(* Proofs about one scheduler.  With one runner a session's view of its    *)
(* task is never stale, so what the attempts of a task add up to can be    *)
(* told: they are made one after the other, each after the record of the   *)
(* one before, and the last one decides the task.                          *)
(***************************************************************************)
EXTENDS SchedulerProofs, FiniteSetTheorems

\* A step that writes one row of a task's attempts.
Writes(t, a, x) ==
    \A u \in Task, b \in Number :
        attempt'[u][b] = IF u = t /\ b = a THEN x ELSE attempt[u][b]

-----------------------------------------------------------------------------
(* What each transaction writes.                                           *)

\* Every number of a task that is being claimed is free, so no lease of it is
\* there to expire.
LEMMA ClaimWrites ==
    ASSUME TypeOK, Ownership, SoleInv, NEW r \in Runner, pc[r] = "claimed",
           NEW claim \in Row,
           attempt' = [attempt EXCEPT ![job[r]] = WithClaim(@, base[r], no[r], claim)]
    PROVE  Writes(job[r], no[r], claim)
<1>1. job[r] \in Task /\ no[r] \in Number
  BY DEF Ownership, Owns, HasJob, InTask, Claiming
<1>2. \A b \in Number : attempt[job[r]][b].lease # "active"
  BY <1>1 DEF SoleInv, SoleView, Untried, Claiming
<1>3. attempt[job[r]] \in [Number -> Row]
  BY <1>1 DEF TypeOK
<1>4. \A b \in Number : WithClaim(attempt[job[r]], base[r], no[r], claim)[b] =
                            IF b = no[r] THEN claim ELSE attempt[job[r]][b]
  BY <1>2, <1>3 DEF WithClaim
<1>5. \A u \in Task : attempt'[u] = IF u = job[r]
                                    THEN WithClaim(attempt[u], base[r], no[r], claim)
                                    ELSE attempt[u]
  BY DEF TypeOK
<1>6. QED
  BY <1>4, <1>5 DEF Writes

LEMMA CommitClaimWrites ==
    ASSUME TypeOK, Ownership, SoleInv, NEW r \in Runner, CommitClaim(r)
    PROVE  Writes(job[r], no[r], row[r])
BY ClaimWrites DEF CommitClaim, TypeOK

LEMMA RejectedRow ==
    ASSUME TypeOK, Ownership, NEW r \in Runner, pc[r] = "claimed"
    PROVE  LET x == [row[r] EXCEPT !.status = "failed",
                                   !.note = "package_construction_failed",
                                   !.lease = Released(r)]
           IN  /\ x \in Row
               /\ x.status = "failed" /\ x.note = "package_construction_failed"
               /\ x.owner = "guarded-run" /\ ~x.commit /\ x.lease # "active"
<1>1. row[r] \in Row /\ Released(r) \in LeaseStatus /\ Released(r) # "active"
  BY ReleasedType DEF TypeOK, Released
<1>2. row[r].owner = "guarded-run" /\ ~row[r].commit
  BY DEF Ownership, Owns, ClaimIsNew
<1>3. QED
  BY <1>1, <1>2 DEF Row, ExecutionStatus, Note

LEMMA PackageRejectedWrites ==
    ASSUME TypeOK, Ownership, SoleInv, NEW r \in Runner, PackageRejected(r)
    PROVE  \E x \in Row :
             /\ Writes(job[r], no[r], x)
             /\ x.status = "failed" /\ x.owner = "guarded-run" /\ ~x.commit
             /\ x.lease # "active" /\ x.note = "package_construction_failed"
<1> DEFINE x == [row[r] EXCEPT !.status = "failed",
                               !.note = "package_construction_failed",
                               !.lease = Released(r)]
<1>1. /\ pc[r] = "claimed"
      /\ attempt' = [attempt EXCEPT ![job[r]] = WithClaim(@, base[r], no[r], x)]
  BY DEF PackageRejected
<1>2. /\ x \in Row /\ x.status = "failed" /\ x.owner = "guarded-run" /\ ~x.commit
      /\ x.lease # "active" /\ x.note = "package_construction_failed"
  BY <1>1, RejectedRow
<1> HIDE DEF x
<1>3. Writes(job[r], no[r], x)
  BY <1>1, <1>2, ClaimWrites
<1>4. QED
  BY <1>2, <1>3

LEMMA SettleWrites ==
    ASSUME TypeOK, Ownership, NEW r \in Runner, SettleFailure(r) \/ SettleSuccess(r)
    PROVE  Writes(job[r], no[r], row[r])
<1>1. job[r] \in Task /\ no[r] \in Number
  BY DEF SettleFailure, SettleSuccess, Ownership, Owns, HasJob, InTask, Attempting
<1>2. attempt' = [attempt EXCEPT ![job[r]][no[r]] = row[r]]
  BY DEF SettleFailure, SettleSuccess
<1>3. QED
  BY <1>1, <1>2 DEF Writes, TypeOK

\* Only a recorded failure of the candidate is repaired, so that the row that
\* is written has lost its lease and its commit was never made.
LEMMA RepairedFailure ==
    ASSUME TypeOK, LeaseInv, SoleInv, NEW r \in Runner, pc[r] = "failed", MayRepair(r)
    PROVE  /\ row[r].status = "failed" /\ row[r].note = "verification_failed"
           /\ row[r].lease # "active"
           /\ repairs[r] < MaxRepairs[r]
<1>1. Retryability(row[r].status, row[r].note) \notin
          {"HUMAN_REQUIRED", "NON_RETRYABLE", "TRANSIENT"}
  BY DEF MayRepair, RepairAction
<1>2. \/ row[r].status = "succeeded" /\ row[r].note = "none"
      \/ /\ row[r].status = "failed"
         /\ row[r].note \in {"scope_failed", "verification_failed", "commit_denied"}
  BY DEF SoleInv, SoleRecord
<1>3. row[r].status = "failed" /\ row[r].note = "verification_failed"
  <2>1. ~(row[r].status = "succeeded" /\ row[r].note = "none")
    BY <1>1 DEF Retryability
  <2>2. row[r].note # "scope_failed"
    BY <1>1 DEF Retryability
  <2>3. row[r].note # "commit_denied"
    BY <1>1 DEF Retryability
  <2>4. QED
    BY <1>2, <2>1, <2>2, <2>3
<1>4. row[r].lease # "active"
  BY <1>3 DEF LeaseInv, FailureGivesUpLease
<1>5. QED
  BY <1>3, <1>4 DEF MayRepair, RepairLimit

\* A repair gets the number after the attempt it repairs.
LEMMA RepairWrites ==
    ASSUME TypeOK, Ownership, LeaseInv, SoleInv, NEW r \in Runner, Repair(r)
    PROVE  LET claim == NewClaim("repair-planner", base[r], RepairLeaseTime)
               next == no[r] + 1
           IN  /\ next \in Number /\ Free(job[r], next)
               /\ no' = [no EXCEPT ![r] = next]
               /\ row' = [row EXCEPT ![r] = claim]
               /\ \A u \in Task, b \in Number :
                    attempt'[u][b] = IF u = job[r] /\ b = no[r] THEN row[r]
                                     ELSE IF u = job[r] /\ b = next THEN claim
                                     ELSE attempt[u][b]
<1> DEFINE claim == NewClaim("repair-planner", base[r], RepairLeaseTime)
           rows == [attempt[job[r]] EXCEPT ![no[r]] = row[r]]
<1>1. /\ pc[r] = "failed" /\ job[r] \in Task /\ no[r] \in Number /\ no[r] \in Nat
      /\ row[r].lease # "active"
  BY RepairedFailure DEF Repair, Ownership, Owns, HasJob, InTask, Attempting, Number
<1>2. PICK a \in Number :
        /\ IsNext(job[r], a)
        /\ no' = [no EXCEPT ![r] = a]
        /\ row' = [row EXCEPT ![r] = claim]
        /\ attempt' = [attempt EXCEPT ![job[r]] = WithClaim(rows, base[r], a, claim)]
  BY DEF Repair
<1> HIDE DEF claim
<1>3. \A b \in Number : /\ Free(job[r], b) <=> b > no[r]
                        /\ b # no[r] => attempt[job[r]][b].lease # "active"
  BY <1>1 DEF SoleInv, SoleAttempt, Attempting
<1>4. a = no[r] + 1
  <2>1. a > no[r] /\ a \in Nat
    BY <1>2, <1>3 DEF IsNext, Number
  <2>2. no[r] + 1 < a => no[r] + 1 \in Number
    BY <1>1, <1>2, <2>1, BoundAssumption DEF Number
  <2>3. ~(no[r] + 1 < a)
    BY <1>1, <1>2, <1>3, <2>2 DEF IsNext
  <2>4. QED
    BY <1>1, <2>1, <2>3
<1>5. /\ rows \in [Number -> Row]
      /\ \A b \in Number : rows[b] = IF b = no[r] THEN row[r] ELSE attempt[job[r]][b]
  BY <1>1 DEF TypeOK
<1> HIDE DEF rows
<1>6. \A b \in Number : rows[b].lease # "active"
  BY <1>1, <1>3, <1>5
<1>7. \A b \in Number : WithClaim(rows, base[r], a, claim)[b] =
                          IF b = a THEN claim ELSE rows[b]
  BY <1>6 DEF WithClaim
<1>8. \A u \in Task : attempt'[u] = IF u = job[r] THEN WithClaim(rows, base[r], a, claim)
                                    ELSE attempt[u]
  BY <1>1, <1>2 DEF TypeOK
<1>9. a # no[r]
  BY <1>1, <1>4
<1>10. \A u \in Task, b \in Number :
         attempt'[u][b] = IF u = job[r] /\ b = no[r] THEN row[r]
                          ELSE IF u = job[r] /\ b = a THEN claim
                          ELSE attempt[u][b]
  BY <1>5, <1>7, <1>8, <1>9
<1>11. QED
  BY <1>2, <1>4, <1>10 DEF IsNext, claim

-----------------------------------------------------------------------------
(* The steps of the runner, by what they do to its session.                *)

Ending(r) ==
    \/ Stop(r) \/ LockRefused(r) \/ PackageRejected(r) \/ RepairAssertion(r)
    \/ SettleFailure(r) \/ SettleForfeit(r) \/ Crash(r) \/ RefuseRun(r)

Working(r) ==
    \/ LoseOwnership(r) \/ CannotExecute(r) \/ StartExecutor(r)
    \/ ExecutorFails(r) \/ ExecutorSucceeds(r) \/ FinalizeStep(r) \/ GiveUp(r)

LEMMA StepCases ==
    ASSUME NEW r, RunnerAct(r)
    PROVE  \/ Ending(r) \/ Working(r) \/ StartRun(r) \/ ListReady(r)
           \/ LockForClaim(r) \/ ClaimRefused(r) \/ Claim(r) \/ CommitClaim(r)
           \/ Repair(r) \/ SettleSuccess(r)
BY DEF RunnerAct, RunnerStep, ClaimStep, ExecuteStep, SettleStep, Ending, Working

LEMMA EndingEnds ==
    ASSUME TypeOK, NEW r \in Runner, Ending(r)
    PROVE  pc'[r] \in Ended
BY DEF TypeOK, Ending, Stop, LockRefused, PackageRejected, RepairAssertion,
   SettleFailure, SettleForfeit, Crash, RefuseRun, End, Ended

LEMMA Places ==
    /\ Ended \cap Claiming = {} /\ Ended \cap Attempting = {}
    /\ Claiming \cap Attempting = {}
    /\ "idle" \notin Ended \cup Claiming \cup Attempting
    /\ "claimed" \in Claiming /\ "listed" \in Claiming /\ "locked" \in Claiming
    /\ "owned" \in Attempting /\ "settling" \in Attempting /\ "failed" \in Attempting
    /\ "forfeiting" \in Attempting /\ "committed" \in Attempting
    /\ "verified" \in Attempting
BY DEF Ended, Claiming, Attempting

LEMMA SettlesPassed ==
    ASSUME TypeOK, Ownership, EvidenceInv, NEW r \in Runner, SettleSuccess(r)
    PROVE  /\ cached[r] = "passed" /\ row[r].note = "completed"
           /\ row[r].status = "succeeded" /\ job[r] \in Task /\ no[r] \in Number
           /\ task' = [task EXCEPT ![job[r]] = "passed"]
<1>1. /\ pc[r] \in Attempting /\ row[r].note = "completed"
      /\ task' = [task EXCEPT ![job[r]] = TaskAfter(r)]
  BY DEF SettleSuccess, Attempting
<1>2. cached[r] = "passed" /\ row[r].status = "succeeded"
  BY <1>1 DEF EvidenceInv, PendingRecord
<1>3. QED
  BY <1>1, <1>2 DEF TaskAfter, Ownership, Owns, HasJob, InTask

-----------------------------------------------------------------------------
(* The session's view of its task.                                         *)

LEMMA ViewStep ==
    ASSUME TypeOK, Ownership, EvidenceInv, SoleInv, TypeOK', NEW r \in Runner,
           RunnerAct(r)
    PROVE  SoleView(r)'
<1> USE Places
<1>1. SoleView(r)
  BY DEF SoleInv
<1>2. CASE Ending(r)
  BY <1>2, EndingEnds DEF SoleView
<1>3. CASE StartRun(r)
  <2>1. /\ pc'[r] = "idle" /\ job'[r] = NoTask /\ task' = task
        /\ \A t \in Task : task[t] # "running"
    BY <1>3 DEF StartRun, SafeToContinue, shared, TypeOK, EvidenceInv, NoSessionLeft
  <2>2. QED
    BY <2>1 DEF SoleView
<1>4. CASE ListReady(r)
  <2>1. PICK t \in Task : /\ Ready(r, t)
                          /\ job' = [job EXCEPT ![r] = t]
                          /\ cached' = [cached EXCEPT ![r] = Seen(r, t)]
    BY <1>4 DEF ListReady
  <2>2. /\ pc[r] = "idle" /\ pc'[r] = "listed" /\ task' = task
        /\ job'[r] = t /\ cached'[r] = Seen(r, t) /\ Seen(r, t) = "pending"
    BY <1>4, <2>1 DEF ListReady, Ready, shared, TypeOK
  <2>3. Seen(r, t) = task[t]
    BY <1>1, <2>2, TaskAssumption DEF Seen, SoleView, NoTask
  <2>4. QED
    BY <1>1, <2>2, <2>3 DEF SoleView
<1>5. CASE LockForClaim(r) \/ ClaimRefused(r) \/ Claim(r)
  <2>1. /\ job' = job /\ task' = task
        /\ pc[r] \in {"listed", "locked"} /\ pc'[r] \in {"idle", "locked", "claimed"}
        /\ pc'[r] # "claimed" => cached' = cached
    BY <1>5 DEF LockForClaim, ClaimRefused, Claim, session, shared, TypeOK
  <2>2. QED
    BY <1>1, <2>1 DEF SoleView
<1>6. CASE CommitClaim(r)
  <2>1. /\ pc[r] = "claimed" /\ pc'[r] = "owned" /\ job' = job /\ job[r] \in Task
        /\ task' = [task EXCEPT ![job[r]] = "running"] /\ cached'[r] = "running"
    BY <1>6 DEF CommitClaim, TypeOK, Ownership, Owns, HasJob, InTask, NotPending
  <2>2. QED
    BY <1>1, <2>1 DEF SoleView, TypeOK, Outcome
<1>7. CASE Working(r)
  <2>1. Continues(r)
    BY <1>7, ContinuesStep DEF Working
  <2>2. pc'[r] \notin {"idle", "listed", "locked"}
    BY <2>1 DEF Continues
  <2>3. QED
    BY <1>1, <2>1, <2>2 DEF SoleView, Continues, Outcome
<1>8. CASE Repair(r)
  <2>1. /\ pc[r] = "failed" /\ pc'[r] = "owned" /\ job' = job /\ job[r] \in Task
        /\ task' = [task EXCEPT ![job[r]] = "running"] /\ cached'[r] = "running"
    BY <1>8 DEF Repair, TypeOK, Ownership, Owns, HasJob, InTask
  <2>2. QED
    BY <1>1, <2>1 DEF SoleView, TypeOK, Outcome
<1>9. CASE SettleSuccess(r)
  <2>1. /\ pc[r] = "settling" /\ pc'[r] = "idle" /\ job' = job /\ cached' = cached
    BY <1>9 DEF SettleSuccess, TypeOK
  <2>2. /\ job[r] \in Task /\ cached[r] = "passed"
        /\ \A t \in Task : task'[t] = IF t = job[r] THEN "passed" ELSE task[t]
    BY <1>9, SettlesPassed DEF TypeOK
  <2>3. \A t \in Task : task'[t] # "running"
    BY <1>1, <2>1, <2>2 DEF SoleView
  <2>4. QED
    BY <2>1, <2>2, <2>3 DEF SoleView
<1>10. QED
  BY <1>2, <1>3, <1>4, <1>5, <1>6, <1>7, <1>8, <1>9, StepCases

-----------------------------------------------------------------------------
(* Attempts are numbered in the order they are made.                       *)

\* The steps that write attempts; no other does.
Writing(r) ==
    \/ CommitClaim(r) \/ PackageRejected(r) \/ Repair(r)
    \/ SettleFailure(r) \/ SettleSuccess(r)

LEMMA RowsKept ==
    ASSUME NEW r, RunnerAct(r), ~Writing(r)
    PROVE  attempt' = attempt
<1>1. \A note : RecordFailure(r, note) => attempt' = attempt
  BY DEF RecordFailure, shared
<1>2. FinalizeStep(r) => attempt' = attempt
  BY <1>1 DEF FinalizeStep, FinalizationRefused, CandidateRejected, CandidateVerified,
     CommitDenied, CommitCandidate, NothingToCommit, RecordSuccess, shared
<1>3. ExecuteStep(r) => attempt' = attempt
  BY DEF ExecuteStep, LoseOwnership, CannotExecute, StartExecutor, ExecutorFails,
     ExecutorSucceeds, shared
<1>4. QED
  BY <1>2, <1>3 DEF RunnerAct, RunnerStep, ClaimStep, SettleStep, StartRun, RefuseRun,
     Stop, ListReady, LockForClaim, LockRefused, ClaimRefused, Claim, GiveUp,
     RepairAssertion, SettleForfeit, Crash, Writing, shared

LEMMA NewClaimFields ==
    ASSUME NEW owner, NEW time, NEW duration
    PROVE  LET claim == NewClaim(owner, time, duration)
           IN  /\ claim.status = "running" /\ claim.note = "none" /\ ~claim.commit
               /\ claim.owner = owner
BY DEF NewClaim

LEMMA SoleAttemptStep ==
    ASSUME TypeOK, Ownership, EvidenceInv, LeaseInv, SoleInv, NEW r \in Runner,
           RunnerAct(r)
    PROVE  SoleAttempt(r)'
<1> USE Places
<1>1. SoleAttempt(r) /\ SoleView(r)
  BY DEF SoleInv
<1>2. CASE Ending(r)
  BY <1>2, EndingEnds DEF SoleAttempt
<1>3. CASE StartRun(r) \/ ListReady(r) \/ LockForClaim(r) \/ ClaimRefused(r)
           \/ SettleSuccess(r)
  <2>1. pc'[r] \in {"idle", "listed", "locked"}
    BY <1>3 DEF StartRun, ListReady, LockForClaim, ClaimRefused, SettleSuccess, TypeOK
  <2>2. QED
    BY <2>1 DEF SoleAttempt
<1>4. CASE Claim(r)
  <2>1. /\ pc[r] = "locked" /\ pc'[r] = "claimed" /\ job[r] \in Task
        /\ \E a \in Number : IsNext(job[r], a) /\ no'[r] = a
    BY <1>4 DEF Claim, TypeOK, Ownership, Owns, HasJob, InTask
  <2>2. \A b \in Number : Free(job[r], b)
    BY <1>1, <2>1 DEF SoleView, SoleInv, Untried
  <2>3. no'[r] = 1
    BY <2>1, <2>2, BoundAssumption DEF IsNext, Number
  <2>4. QED
    BY <2>1, <2>3 DEF SoleAttempt
<1>5. CASE CommitClaim(r)
  <2>1. /\ pc[r] = "claimed" /\ pc'[r] = "owned" /\ job' = job /\ no' = no
        /\ job[r] \in Task /\ no[r] = 1 /\ 1 \in Number
    BY <1>1, <1>5 DEF CommitClaim, TypeOK, Ownership, Owns, HasJob, InTask, SoleAttempt
  <2>2. row[r].status = "running"
    BY <2>1 DEF Ownership, Owns, ClaimIsNew
  <2>3. \A b \in Number :
           attempt'[job[r]][b] = IF b = 1 THEN row[r] ELSE attempt[job[r]][b]
    BY <1>5, <2>1, CommitClaimWrites DEF Writes
  <2>4. \A b \in Number : Free(job[r], b) /\ attempt[job[r]][b].lease # "active"
    BY <1>1, <2>1 DEF SoleView, SoleInv, Untried
  <2>5. \A b \in Number : b = 1 \/ b > 1
    BY DEF Number
  <2>6. \A b \in Number : /\ attempt'[job[r]][b].status = "none" <=> b > 1
                          /\ b # 1 => attempt'[job[r]][b].lease # "active"
    BY <2>2, <2>3, <2>4, <2>5 DEF Free
  <2>7. QED
    BY <2>1, <2>6 DEF SoleAttempt, Free
<1>6. CASE Working(r)
  <2>1. Continues(r)
    BY <1>6, ContinuesStep DEF Working
  <2>2. QED
    BY <1>1, <2>1 DEF SoleAttempt, Continues, Free
<1>7. CASE Repair(r)
  <2> DEFINE claim == NewClaim("repair-planner", base[r], RepairLeaseTime)
             next == no[r] + 1
  <2>1. /\ pc[r] = "failed" /\ pc'[r] = "owned" /\ job' = job
        /\ job[r] \in Task /\ no[r] \in Number
    BY <1>7 DEF Repair, TypeOK, Ownership, Owns, HasJob, InTask
  <2>2. /\ next \in Number /\ no'[r] = next
        /\ \A b \in Number :
             attempt'[job[r]][b] = IF b = no[r] THEN row[r]
                                   ELSE IF b = next THEN claim
                                   ELSE attempt[job[r]][b]
    BY <1>7, <2>1, RepairWrites DEF TypeOK
  <2>3. claim.status = "running"
    BY NewClaimFields
  <2>4. row[r].status = "failed" /\ row[r].lease # "active"
    BY <1>7, RepairedFailure DEF Repair
  <2> HIDE DEF claim
  <2>5. \A b \in Number : /\ Free(job[r], b) <=> b > no[r]
                          /\ b # no[r] => attempt[job[r]][b].lease # "active"
    BY <1>1, <2>1 DEF SoleAttempt
  <2>6. \A b \in Number : /\ attempt'[job[r]][b].status = "none" <=> b > next
                          /\ b # next => attempt'[job[r]][b].lease # "active"
    BY <2>1, <2>2, <2>3, <2>4, <2>5 DEF Free, Number
  <2>7. QED
    BY <2>1, <2>2, <2>6 DEF SoleAttempt, Free
<1>8. QED
  BY <1>2, <1>3, <1>4, <1>5, <1>6, <1>7, StepCases

\* A task is pending until its first attempt, and no number is taken twice.
LEMMA UntriedStep ==
    ASSUME TypeOK, Ownership, EvidenceInv, LeaseInv, SoleInv, NEW r \in Runner,
           Runner = {r}, RunnerAct(r), TypeOK', RecordFrame
    PROVE  Untried'
<1> USE Places
<1>1. /\ \A t \in Task, a \in Number :
           Free(t, a) => attempt[t][a].owner = "none" /\ attempt[t][a].lease # "active"
      /\ \A t \in Task, a \in Number : task[t] = "pending" => Free(t, a)
  BY DEF SoleInv, Untried
<1>2. ASSUME NEW t \in Task, NEW a \in Number, Free(t, a)'
      PROVE  attempt'[t][a] = attempt[t][a]
  <2>1. Free(t, a)
    BY <1>2 DEF RecordFrame
  <2>2. CASE ~Writing(r)
    BY <2>2, RowsKept
  <2>3. ASSUME NEW x, Writes(job[r], no[r], x), x.status # "none"
        PROVE  attempt'[t][a] = attempt[t][a]
    BY <1>2, <2>3 DEF Writes, Free
  <2>4. CASE CommitClaim(r)
    BY <2>3, <2>4, CommitClaimWrites DEF CommitClaim, Ownership, Owns, ClaimIsNew
  <2>5. CASE PackageRejected(r)
    BY <2>3, <2>5, PackageRejectedWrites
  <2>6. CASE SettleFailure(r) \/ SettleSuccess(r)
    <3>1. row[r].status # "none"
      BY <2>6 DEF SettleFailure, SettleSuccess, Ownership, Owns, AttemptIsRunning
    <3>2. QED
      BY <2>3, <2>6, <3>1, SettleWrites
  <2>7. CASE Repair(r)
    <3>1. row[r].status = "failed"
      BY <2>7, RepairedFailure DEF Repair
    <3>2. QED
      BY <1>2, <2>7, <3>1, RepairWrites, NewClaimFields DEF Free
  <2>8. QED
    BY <2>2, <2>4, <2>5, <2>6, <2>7 DEF Writing
<1>3. ASSUME NEW t \in Task, NEW a \in Number, task'[t] = "pending"
      PROVE  attempt'[t][a].status = "none"
  <2>1. task[t] = "pending" /\ Free(t, a)
    BY <1>1, <1>3 DEF RecordFrame
  <2>2. CASE ~Writing(r)
    BY <2>1, <2>2, RowsKept DEF Free
  <2>3. CASE Writing(r)
    <3>1. task'[job[r]] # "pending" /\ job[r] \in Task
      BY <2>3 DEF Writing, CommitClaim, PackageRejected, Repair, SettleFailure,
         SettleSuccess, TaskAfter, TypeOK, Ownership, Owns, HasJob, InTask, NotPending,
         Attempting
    <3>2. t # job[r]
      BY <1>3, <3>1
    <3>3. attempt'[t][a] = attempt[t][a]
      BY <2>3, <3>1, <3>2, CommitClaimWrites, PackageRejectedWrites, SettleWrites,
         RepairWrites DEF Writing, Writes
    <3>4. QED
      BY <2>1, <3>3 DEF Free
  <2>4. QED
    BY <2>2, <2>3
<1>4. QED
  BY <1>1, <1>2, <1>3 DEF Untried, Free

-----------------------------------------------------------------------------
(* Commits in the repository.                                              *)

LEMMA GitKept ==
    ASSUME NEW r, RunnerAct(r), ~CommitCandidate(r)
    PROVE  git' = git
<1>1. \A note : RecordFailure(r, note) => git' = git
  BY DEF RecordFailure, repo
<1>2. FinalizeStep(r) => git' = git
  BY <1>1 DEF FinalizeStep, FinalizationRefused, CandidateRejected, CandidateVerified,
     CommitDenied, NothingToCommit, RecordSuccess, repo
<1>3. ExecuteStep(r) => git' = git
  BY DEF ExecuteStep, LoseOwnership, CannotExecute, StartExecutor, ExecutorFails,
     ExecutorSucceeds, repo
<1>4. QED
  BY <1>2, <1>3 DEF RunnerAct, RunnerStep, ClaimStep, SettleStep, StartRun, RefuseRun,
     Stop, ListReady, LockForClaim, LockRefused, ClaimRefused, Claim, CommitClaim,
     PackageRejected, Repair, GiveUp, RepairAssertion, SettleFailure, SettleSuccess,
     SettleForfeit, Crash, repo

\* A task that has a free number for its next attempt has no commit.
LEMMA NoCommitBefore ==
    ASSUME SoleInv, NEW t \in Task, NEW a \in Number, <<t, a>> \in git
    PROVE  ~Free(t, a) /\ \A b \in Number : Free(t, b) <=> b > a
BY DEF SoleInv, CommittedIsLast, Number

LEMMA ClaimedHasNoCommit ==
    ASSUME TypeOK, Ownership, SoleInv, NEW r \in Runner, pc[r] = "claimed",
           NEW a \in Number
    PROVE  <<job[r], a>> \notin git
<1>1. job[r] \in Task /\ task[job[r]] = "pending"
  BY DEF Ownership, Owns, HasJob, InTask, Claiming, SoleInv, SoleView
<1>2. Free(job[r], a)
  BY <1>1 DEF SoleInv, Untried
<1>3. QED
  BY <1>1, <1>2, NoCommitBefore

\* What is in git of a runner's task is its own attempt.
LEMMA OnlyOwnCommit ==
    ASSUME TypeOK, Ownership, SoleInv, NEW r \in Runner, pc[r] \in Attempting,
           NEW a \in Number, <<job[r], a>> \in git
    PROVE  a = no[r]
<1>1. job[r] \in Task /\ no[r] \in Number
  BY DEF Ownership, Owns, HasJob, InTask
<1>2. \A b \in Number : Free(job[r], b) <=> b > no[r]
  BY DEF SoleInv, SoleAttempt
<1>3. \A b \in Number : Free(job[r], b) <=> b > a
  BY <1>1, NoCommitBefore
<1>4. ~(no[r] > a) /\ ~(a > no[r])
  BY <1>1, <1>2, <1>3 DEF Number
<1>5. QED
  BY <1>1, <1>4 DEF Number

LEMMA RepairedHasNoCommit ==
    ASSUME TypeOK, Ownership, LeaseInv, SoleInv, NEW r \in Runner, Repair(r),
           NEW a \in Number
    PROVE  <<job[r], a>> \notin git
<1>1. pc[r] = "failed" /\ row[r].note = "verification_failed"
  BY RepairedFailure DEF Repair
<1>2. pc[r] \in Attempting /\ <<job[r], no[r]>> \notin git
  BY <1>1 DEF SoleInv, SoleRecord, Attempting
<1>3. QED
  BY <1>2, OnlyOwnCommit

LEMMA CommitExistsStep ==
    ASSUME TypeOK, Ownership, EvidenceInv, LeaseInv, SoleInv, NEW r \in Runner,
           RunnerAct(r)
    PROVE  CommitExists'
<1> SUFFICES ASSUME NEW t \in Task, NEW a \in Number, attempt'[t][a].commit
             PROVE  <<t, a>> \in git'
  BY DEF CommitExists
<1>1. git \subseteq git'
  BY GitGrows
<1>2. attempt[t][a].commit => <<t, a>> \in git
  BY DEF SoleInv, CommitExists
<1>3. ASSUME NEW x, Writes(job[r], no[r], x), x.commit => <<job[r], no[r]>> \in git
      PROVE  <<t, a>> \in git'
  BY <1>1, <1>2, <1>3 DEF Writes
<1>4. CASE ~Writing(r)
  BY <1>1, <1>2, <1>4, RowsKept
<1>5. CASE CommitClaim(r)
  BY <1>3, <1>5, CommitClaimWrites DEF CommitClaim, Ownership, Owns, ClaimIsNew
<1>6. CASE PackageRejected(r)
  BY <1>3, <1>6, PackageRejectedWrites
<1>7. pc[r] \in Attempting => (row[r].commit => <<job[r], no[r]>> \in git)
  BY DEF EvidenceInv, PendingRecord
<1>8. CASE SettleFailure(r) \/ SettleSuccess(r)
  BY <1>3, <1>7, <1>8, SettleWrites, Places DEF SettleFailure, SettleSuccess
<1>9. CASE Repair(r)
  <2>1. pc[r] \in Attempting
    BY <1>9, Places DEF Repair
  <2>2. QED
    BY <1>1, <1>2, <1>7, <1>9, <2>1, RepairWrites, NewClaimFields
<1>10. QED
  BY <1>4, <1>5, <1>6, <1>8, <1>9 DEF Writing

LEMMA CommittedStep ==
    ASSUME TypeOK, Ownership, EvidenceInv, LeaseInv, SoleInv, NEW r \in Runner,
           RunnerAct(r)
    PROVE  CommittedIsLast'
<1> SUFFICES ASSUME NEW t \in Task, NEW a \in Number, <<t, a>> \in git',
                    NEW b \in Number
             PROVE  attempt'[t][b].status = "none" <=> b > a
  BY DEF CommittedIsLast, Free
<1>1. <<t, a>> \in git => (Free(t, b) <=> b > a)
  BY NoCommitBefore
<1>2. ASSUME Free(t, b) <=> attempt'[t][b].status = "none", git' = git
      PROVE  attempt'[t][b].status = "none" <=> b > a
  BY <1>1, <1>2
<1>3. CASE CommitCandidate(r)
  <2>1. /\ git' = git \cup {<<job[r], no[r]>>} /\ attempt' = attempt
        /\ pc[r] \in Attempting
    BY <1>3, Places DEF CommitCandidate, shared
  <2>2. \A c \in Number : Free(job[r], c) <=> c > no[r]
    BY <2>1 DEF SoleInv, SoleAttempt
  <2>3. QED
    BY <1>1, <2>1, <2>2 DEF Free
<1>4. CASE ~Writing(r) /\ ~CommitCandidate(r)
  BY <1>2, <1>4, RowsKept, GitKept DEF Free
<1>5. CASE CommitClaim(r) \/ PackageRejected(r)
  <2>1. /\ git' = git /\ pc[r] = "claimed"
    BY <1>5 DEF CommitClaim, PackageRejected, repo
  <2>2. t # job[r]
    BY <2>1, ClaimedHasNoCommit
  <2>3. attempt'[t][b] = attempt[t][b]
    BY <1>5, <2>2, CommitClaimWrites, PackageRejectedWrites DEF Writes
  <2>4. QED
    BY <1>2, <2>1, <2>3 DEF Free
<1>6. CASE SettleFailure(r) \/ SettleSuccess(r)
  <2>1. /\ git' = git /\ pc[r] \in Attempting
    BY <1>6, Places DEF SettleFailure, SettleSuccess, repo
  <2>2. row[r].status # "none" /\ ~Free(job[r], no[r])
    BY <2>1 DEF Ownership, Owns, AttemptIsRunning, Free
  <2>3. Free(t, b) <=> attempt'[t][b].status = "none"
    BY <1>6, <2>2, SettleWrites DEF Writes, Free
  <2>4. QED
    BY <1>2, <2>1, <2>3
<1>7. CASE Repair(r)
  <2>1. git' = git
    BY <1>7 DEF Repair, repo
  <2>2. t # job[r]
    BY <1>7, <2>1, RepairedHasNoCommit
  <2>3. attempt'[t][b] = attempt[t][b]
    BY <1>7, <2>2, RepairWrites
  <2>4. QED
    BY <1>2, <2>1, <2>3 DEF Free
<1>8. QED
  BY <1>3, <1>4, <1>5, <1>6, <1>7 DEF Writing

-----------------------------------------------------------------------------
(* Every attempt but the last has failed.                                  *)

LEMMA BlindStep ==
    ASSUME TypeOK, Ownership, EvidenceInv, LeaseInv, SoleInv, NEW r \in Runner,
           RunnerAct(r)
    PROVE  NoBlindRerun'
<1> DEFINE Ran(x) == x.status \in {"running", "succeeded"}
<1> SUFFICES ASSUME NEW t \in Task, NEW a \in Number, NEW b \in Number, a < b,
                    attempt'[t][b].status # "none", Ran(attempt'[t][a])
             PROVE  FALSE
  BY DEF NoBlindRerun, Free
<1>1. \A c, d \in Number : c < d /\ ~Free(t, d) => ~Ran(attempt[t][c])
  BY DEF SoleInv, NoBlindRerun
<1>2. attempt'[t][a] = attempt[t][a] => Free(t, b)
  BY <1>1
<1>3. attempt'[t][b] = attempt[t][b] => ~Free(t, b)
  BY DEF Free
<1>4. CASE ~Writing(r)
  BY <1>2, <1>3, <1>4, RowsKept
<1>5. CASE CommitClaim(r) \/ PackageRejected(r)
  <2>1. pc[r] = "claimed" /\ job[r] \in Task /\ no[r] = 1
    BY <1>5 DEF CommitClaim, PackageRejected, Ownership, Owns, HasJob, InTask, Claiming,
       SoleInv, SoleAttempt
  <2>2. \A c \in Number : Free(job[r], c)
    BY <2>1, Places DEF SoleInv, SoleView, Untried
  <2>3. b # 1
    BY DEF Number
  <2>4. attempt'[t][b] = attempt[t][b]
    BY <1>5, <2>1, <2>3, CommitClaimWrites, PackageRejectedWrites DEF Writes
  <2>5. t # job[r]
    BY <1>3, <2>2, <2>4
  <2>6. attempt'[t][a] = attempt[t][a]
    BY <1>5, <2>5, CommitClaimWrites, PackageRejectedWrites DEF Writes
  <2>7. QED
    BY <1>2, <1>3, <2>4, <2>6
<1>6. pc[r] \in Attempting =>
        /\ job[r] \in Task /\ no[r] \in Number
        /\ \A c \in Number : Free(job[r], c) <=> c > no[r]
  BY DEF Ownership, Owns, HasJob, InTask, SoleInv, SoleAttempt
<1>7. CASE SettleFailure(r) \/ SettleSuccess(r)
  <2>1. pc[r] \in Attempting
    BY <1>7, Places DEF SettleFailure, SettleSuccess
  <2>2. ~Free(t, b)
    BY <1>6, <1>7, <2>1, SettleWrites DEF Writes, Free, Number
  <2>3. ~(t = job[r] /\ a = no[r])
    BY <1>6, <2>1, <2>2 DEF Number
  <2>4. attempt'[t][a] = attempt[t][a]
    BY <1>7, <2>3, SettleWrites DEF Writes
  <2>5. QED
    BY <1>2, <2>2, <2>4
<1>8. CASE Repair(r)
  <2> DEFINE next == no[r] + 1
             claim == NewClaim("repair-planner", base[r], RepairLeaseTime)
  <2>1. pc[r] \in Attempting /\ row[r].status = "failed"
    BY <1>8, Places, RepairedFailure DEF Repair
  <2>2. /\ next \in Number
        /\ \A u \in Task, c \in Number :
             attempt'[u][c] = IF u = job[r] /\ c = no[r] THEN row[r]
                              ELSE IF u = job[r] /\ c = next THEN claim
                              ELSE attempt[u][c]
    BY <1>8, RepairWrites
  <2> HIDE DEF claim
  <2>3. CASE t # job[r]
    BY <1>2, <1>3, <2>2, <2>3
  <2>4. CASE t = job[r]
    <3>1. b <= next
      BY <1>6, <2>1, <2>2, <2>4 DEF Free, Number
    <3>2. a # next /\ a # no[r]
      BY <1>6, <2>1, <2>2, <2>4, <3>1 DEF Number
    <3>3. a < no[r]
      BY <1>6, <2>1, <3>1, <3>2 DEF Number
    <3>4. attempt'[t][a] = attempt[t][a] /\ ~Free(t, no[r])
      BY <1>6, <2>1, <2>2, <2>4, <3>2 DEF Number
    <3>5. QED
      BY <1>1, <1>6, <2>1, <3>3, <3>4
  <2>5. QED
    BY <2>3, <2>4
<1>9. QED
  BY <1>4, <1>5, <1>7, <1>8 DEF Writing

-----------------------------------------------------------------------------
(* A task that ended is not leased.                                        *)

LEMMA StatusKept ==
    ASSUME TypeOK, Ownership, NEW r \in Runner, RunnerAct(r), NEW t \in Task,
           task'[t] # task[t]
    PROVE  /\ t = job[r]
           /\ \/ CommitClaim(r) \/ PackageRejected(r) \/ Repair(r)
              \/ SettleFailure(r) \/ SettleSuccess(r) \/ SettleForfeit(r)
<1>1. CASE \/ CommitClaim(r) \/ PackageRejected(r) \/ Repair(r)
           \/ SettleFailure(r) \/ SettleSuccess(r) \/ SettleForfeit(r)
  BY <1>1 DEF CommitClaim, PackageRejected, Repair, SettleFailure, SettleSuccess,
     SettleForfeit, TypeOK
<1>2. \A note : RecordFailure(r, note) => task' = task
  BY DEF RecordFailure, shared
<1>3. FinalizeStep(r) => task' = task
  BY <1>2 DEF FinalizeStep, FinalizationRefused, CandidateRejected, CandidateVerified,
     CommitDenied, CommitCandidate, NothingToCommit, RecordSuccess, shared
<1>4. ExecuteStep(r) => task' = task
  BY DEF ExecuteStep, LoseOwnership, CannotExecute, StartExecutor, ExecutorFails,
     ExecutorSucceeds, shared
<1>5. QED
  BY <1>1, <1>3, <1>4 DEF RunnerAct, RunnerStep, ClaimStep, SettleStep, StartRun,
     RefuseRun, Stop, ListReady, LockForClaim, LockRefused, ClaimRefused, Claim,
     GiveUp, RepairAssertion, Crash, shared

LEMMA EndedStep ==
    ASSUME TypeOK, Ownership, EvidenceInv, LeaseInv, SoleInv, NEW r \in Runner,
           RunnerAct(r), SessionFrame(r)
    PROVE  EndedTaskNotLeased'
<1> DEFINE Over(s) == s \in {"passed", "blocked"}
<1> SUFFICES ASSUME NEW t \in Task, Over(task'[t]), NEW a \in Number
             PROVE  ~Live(attempt'[t][a], now)
  BY DEF EndedTaskNotLeased, Leased, Live, SessionFrame
<1> USE Places
<1>1. Over(task[t]) => ~Live(attempt[t][a], now)
  BY DEF SoleInv, EndedTaskNotLeased, Leased
<1>2. attempt[t][a].lease # "active" => ~Live(attempt[t][a], now)
  BY DEF Live
<1>3. CASE task'[t] = task[t] /\ ~Writing(r)
  BY <1>1, <1>3, RowsKept
<1>4. CASE CommitClaim(r) \/ Repair(r)
  <2>1. /\ job[r] \in Task /\ task' = [task EXCEPT ![job[r]] = "running"]
    BY <1>4 DEF CommitClaim, Repair, Ownership, Owns, HasJob, InTask
  <2>2. t # job[r] /\ task'[t] = task[t]
    BY <2>1 DEF TypeOK
  <2>3. attempt'[t][a] = attempt[t][a]
    BY <1>4, <2>2, CommitClaimWrites, RepairWrites DEF Writes
  <2>4. QED
    BY <1>1, <2>2, <2>3
<1>5. CASE PackageRejected(r)
  <2>1. PICK x \in Row : Writes(job[r], no[r], x) /\ x.lease # "active"
    BY <1>5, PackageRejectedWrites
  <2>2. /\ pc[r] = "claimed" /\ job[r] \in Task
        /\ task' = [task EXCEPT ![job[r]] = "blocked"]
    BY <1>5 DEF PackageRejected, Ownership, Owns, HasJob, InTask
  <2>3. CASE t = job[r]
    <3>1. attempt[t][a].lease # "active"
      BY <2>2, <2>3 DEF SoleInv, SoleView, Untried
    <3>2. QED
      BY <2>1, <3>1 DEF Writes, Live
  <2>4. CASE t # job[r]
    BY <1>1, <2>1, <2>2, <2>4 DEF Writes, TypeOK
  <2>5. QED
    BY <2>3, <2>4
<1>6. pc[r] \in Attempting =>
        /\ job[r] \in Task /\ no[r] \in Number /\ task[job[r]] = "running"
        /\ \A b \in Number \ {no[r]} : attempt[job[r]][b].lease # "active"
        /\ cached[r] # "running" =>
              \/ pc[r] = "forfeiting" /\ ~Live(attempt[job[r]][no[r]], now)
              \/ pc[r] \in {"failed", "settling"} /\ row[r].lease # "active"
  BY DEF Ownership, Owns, HasJob, InTask, SoleInv, SoleAttempt, SoleView, SoleRecord
<1>7. CASE SettleFailure(r) \/ SettleSuccess(r)
  <2>1. /\ pc[r] = "settling" /\ task' = [task EXCEPT ![job[r]] = TaskAfter(r)]
    BY <1>7 DEF SettleFailure, SettleSuccess
  <2>2. Writes(job[r], no[r], row[r])
    BY <1>7, SettleWrites
  <2>3. CASE t = job[r]
    <3>1. cached[r] # "running"
      BY <1>6, <2>1, <2>3 DEF TaskAfter, TypeOK
    <3>2. row[r].lease # "active"
      BY <1>6, <2>1, <3>1
    <3>3. QED
      BY <1>6, <2>1, <2>2, <2>3, <3>2 DEF Writes, Live
  <2>4. CASE t # job[r]
    BY <1>1, <1>6, <2>1, <2>2, <2>4 DEF Writes, TypeOK
  <2>5. QED
    BY <2>3, <2>4
<1>8. CASE SettleForfeit(r)
  <2>1. /\ pc[r] = "forfeiting" /\ task' = [task EXCEPT ![job[r]] = TaskAfter(r)]
        /\ attempt' = attempt
    BY <1>8 DEF SettleForfeit
  <2>2. CASE t = job[r]
    <3>1. cached[r] # "running"
      BY <1>6, <2>1, <2>2 DEF TaskAfter, TypeOK
    <3>2. QED
      BY <1>2, <1>6, <2>1, <2>2, <3>1
  <2>3. CASE t # job[r]
    BY <1>1, <1>6, <2>1, <2>3 DEF TypeOK
  <2>4. QED
    BY <2>2, <2>3
<1>9. QED
  BY <1>3, <1>4, <1>5, <1>7, <1>8, StatusKept DEF Writing

-----------------------------------------------------------------------------
(* What the session is about to record.                                    *)

\* Until finalization has its word, nothing was noted or committed, and the
\* task object is as the claim left it.
LEMMA BeforeTheRecord ==
    ASSUME TypeOK, LeaseInv, SoleInv, NEW r \in Runner,
           pc[r] \in {"owned", "executing", "finalizing", "verified", "committed"}
    PROVE  /\ cached[r] = "running"
           /\ pc[r] # "committed" => <<job[r], no[r]>> \notin git
           /\ row[r].note = "none"
           /\ pc[r] \in {"finalizing", "verified", "committed"}
                  => row[r].status = "succeeded"
<1>1. pc[r] \in Attempting /\ row[r].note = "none"
  BY DEF LeaseInv, FailureGivesUpLease, Attempting
<1>2. QED
  BY <1>1 DEF SoleInv, SoleRecord, LeaseInv, FailureGivesUpLease

LEMMA EndsRecord ==
    ASSUME TypeOK, LeaseInv, SoleInv, NEW r \in Runner,
           pc[r] \in {"owned", "executing"}, git' = git, job' = job, no' = no,
           NEW status, NEW note, ExecutionEnds(r, status, note)
    PROVE  SoleRecord(r)'
<1>1. /\ pc'[r] = "settling" /\ cached[r] = "running"
      /\ <<job'[r], no'[r]>> \notin git' /\ row[r] \in Row
  BY BeforeTheRecord DEF ExecutionEnds, TypeOK
<1>2. CASE FirstAttempt(r)
  <2>1. row'[r] = [row[r] EXCEPT !.status = status, !.note = note,
                                 !.lease = "released"]
    BY <1>2 DEF ExecutionEnds, TypeOK
  <2>2. row'[r].lease = "released"
    BY <1>1, <2>1 DEF Row
  <2>3. QED
    BY <1>1, <2>2 DEF SoleRecord
<1>3. CASE ~FirstAttempt(r)
  <2>1. cached'[r] = "running"
    BY <1>1, <1>3 DEF ExecutionEnds
  <2>2. QED
    BY <1>1, <2>1 DEF SoleRecord
<1>4. QED
  BY <1>2, <1>3

LEMMA FailureRecord ==
    ASSUME TypeOK, LeaseInv, SoleInv, NEW r \in Runner, NEW note,
           \/ pc[r] = "finalizing" /\ note \in {"scope_failed", "verification_failed"}
           \/ pc[r] \in {"verified", "committed"} /\ note = "commit_denied",
           RecordFailure(r, note)
    PROVE  SoleRecord(r)'
<1>1. /\ pc'[r] = "failed" /\ git' = git /\ job' = job /\ no' = no /\ row[r] \in Row
      /\ row'[r] = [row[r] EXCEPT !.status = "failed", !.note = note,
                                  !.lease = Released(r)]
  BY DEF RecordFailure, TypeOK, repo
<1>2. Released(r) # "active"
  BY DEF Released
<1>3. row'[r].status = "failed" /\ row'[r].note = note /\ row'[r].lease # "active"
  BY <1>1, <1>2 DEF Row
<1>4. <<job[r], no[r]>> \in git => note = "commit_denied"
  BY BeforeTheRecord
<1>5. QED
  BY <1>1, <1>3, <1>4 DEF SoleRecord

LEMMA WorkingRecord ==
    ASSUME TypeOK, Ownership, LeaseInv, SoleInv, NEW r \in Runner, Working(r)
    PROVE  SoleRecord(r)'
<1> USE DEF shared, repo, session
<1>1. CASE LoseOwnership(r)
  <2>1. /\ pc[r] = "owned" /\ pc'[r] = "forfeiting" /\ git' = git /\ now' = now
        /\ attempt' = attempt /\ job' = job /\ no' = no /\ ~OwnsLease(r)
    BY <1>1 DEF LoseOwnership, TypeOK
  <2>2. attempt[job[r]][no[r]].owner = row[r].owner
    BY <2>1, Places DEF Ownership, Owns, AttemptIsRunning
  <2>3. ~Live(attempt[job[r]][no[r]], now)
    BY <2>1, <2>2 DEF OwnsLease
  <2>4. <<job[r], no[r]>> \notin git
    BY <2>1, BeforeTheRecord
  <2>5. QED
    BY <2>1, <2>3, <2>4 DEF SoleRecord, Live
<1>2. CASE CannotExecute(r) \/ ExecutorFails(r)
  BY <1>2, EndsRecord DEF CannotExecute, ExecutorFails
<1>3. CASE \/ StartExecutor(r) \/ ExecutorSucceeds(r) \/ CandidateVerified(r)
           \/ NothingToCommit(r) \/ CommitCandidate(r)
  <2>1. /\ pc[r] \in {"owned", "executing", "finalizing", "verified"}
        /\ pc'[r] \in {"executing", "finalizing", "verified", "committed"}
        /\ cached' = cached /\ job' = job /\ no' = no
        /\ pc'[r] # "committed" => git' = git
    BY <1>3 DEF StartExecutor, ExecutorSucceeds, CandidateVerified, NothingToCommit,
       CommitCandidate, TypeOK
  <2>2. cached[r] = "running" /\ <<job[r], no[r]>> \notin git
    BY <2>1, BeforeTheRecord
  <2>3. QED
    BY <2>1, <2>2 DEF SoleRecord
<1>4. CASE FinalizationRefused(r)
  <2>1. /\ pc[r] = "finalizing" /\ pc'[r] = "failed"
        /\ cached' = cached /\ job' = job /\ no' = no /\ git' = git /\ row' = row
    BY <1>4 DEF FinalizationRefused, TypeOK
  <2>2. QED
    BY <2>1, BeforeTheRecord DEF SoleRecord
<1>5. CASE CandidateRejected(r) \/ CommitDenied(r)
  BY <1>5, FailureRecord DEF CandidateRejected, CommitDenied
<1>6. CASE RecordSuccess(r)
  <2>1. /\ pc'[r] = "settling" /\ row[r] \in Row
        /\ row'[r] = [row[r] EXCEPT !.status = "succeeded", !.note = "completed",
                                    !.commit = <<job[r], no[r]>> \in git,
                                    !.lease = "completed"]
    BY <1>6 DEF RecordSuccess, TypeOK
  <2>2. row'[r].note = "completed" /\ row'[r].lease = "completed"
    BY <2>1 DEF Row
  <2>3. QED
    BY <2>1, <2>2 DEF SoleRecord
<1>7. CASE GiveUp(r)
  <2>1. /\ pc[r] = "failed" /\ pc'[r] = "settling" /\ git' = git /\ row' = row
        /\ job' = job /\ no' = no /\ cached' = cached
    BY <1>7 DEF GiveUp, TypeOK
  <2>2. QED
    BY <2>1, Places DEF SoleInv, SoleRecord
<1>8. QED
  BY <1>1, <1>2, <1>3, <1>4, <1>5, <1>6, <1>7 DEF Working, FinalizeStep

LEMMA SoleRecordStep ==
    ASSUME TypeOK, Ownership, EvidenceInv, LeaseInv, SoleInv, NEW r \in Runner,
           RunnerAct(r)
    PROVE  SoleRecord(r)'
<1> USE Places
<1>1. CASE Ending(r)
  BY <1>1, EndingEnds DEF SoleRecord
<1>2. CASE StartRun(r) \/ ListReady(r) \/ LockForClaim(r) \/ ClaimRefused(r)
           \/ Claim(r) \/ SettleSuccess(r)
  <2>1. pc'[r] \in {"idle", "listed", "locked", "claimed"}
    BY <1>2 DEF StartRun, ListReady, LockForClaim, ClaimRefused, Claim, SettleSuccess,
       TypeOK
  <2>2. QED
    BY <2>1 DEF SoleRecord
<1>3. CASE CommitClaim(r)
  <2>1. /\ pc[r] = "claimed" /\ pc'[r] = "owned" /\ git' = git /\ job' = job
        /\ no' = no /\ cached' = cached
    BY <1>3 DEF CommitClaim, TypeOK, repo
  <2>2. cached[r] = "running" /\ <<job[r], no[r]>> \notin git
    BY <2>1, ClaimedHasNoCommit DEF Ownership, Owns, HasJob, NotPending
  <2>3. QED
    BY <2>1, <2>2 DEF SoleRecord
<1>4. CASE Repair(r)
  <2>1. /\ pc'[r] = "owned" /\ git' = git /\ job' = job /\ cached'[r] = "running"
        /\ no'[r] \in Number
    BY <1>4, RepairWrites DEF Repair, TypeOK, repo
  <2>2. <<job[r], no'[r]>> \notin git
    BY <1>4, <2>1, RepairedHasNoCommit
  <2>3. QED
    BY <2>1, <2>2 DEF SoleRecord
<1>5. CASE Working(r)
  BY <1>5, WorkingRecord
<1>6. QED
  BY <1>1, <1>2, <1>3, <1>4, <1>5, StepCases

-----------------------------------------------------------------------------
(* The budget for repairs.                                                 *)

LEMMA RepairsFinite ==
    ASSUME NEW t
    PROVE  IsFiniteSet(RepairsOf(t))
<1>1. IsFiniteSet(Number)
  BY BoundAssumption, FS_Interval DEF Number
<1>2. QED
  BY <1>1, FS_Subset DEF RepairsOf

LEMMA NoRepairs ==
    ASSUME NEW t, \A a \in Number : attempt[t][a].owner # "repair-planner"
    PROVE  Cardinality(RepairsOf(t)) = 0
BY FS_EmptySet DEF RepairsOf

\* An attempt that is settled or resumed keeps the owner it was claimed by.
LEMMA OwnersKept ==
    ASSUME TypeOK, Ownership, LeaseInv, SoleInv, NEW r \in Runner, RunnerAct(r),
           ~CommitClaim(r), ~PackageRejected(r), ~Repair(r),
           NEW t \in Task
    PROVE  RepairsOf(t)' = RepairsOf(t)
<1>1. CASE ~Writing(r)
  BY <1>1, RowsKept DEF RepairsOf
<1>2. CASE SettleFailure(r) \/ SettleSuccess(r)
  <2>1. attempt[job[r]][no[r]].owner = row[r].owner
    BY <1>2 DEF SettleFailure, SettleSuccess, Attempting, Ownership, Owns,
       AttemptIsRunning
  <2>2. QED
    BY <1>2, <2>1, SettleWrites DEF Writes, RepairsOf
<1>3. QED
  BY <1>1, <1>2 DEF Writing

LEMMA CountsKept ==
    ASSUME NEW r, Working(r)
    PROVE  repairs' = repairs
<1> USE DEF counts
<1>1. \A note : RecordFailure(r, note) => repairs' = repairs
  BY DEF RecordFailure
<1>2. QED
  BY <1>1 DEF Working, LoseOwnership, CannotExecute, StartExecutor, ExecutorFails,
     ExecutorSucceeds, FinalizeStep, FinalizationRefused, CandidateRejected,
     CandidateVerified, CommitDenied, CommitCandidate, NothingToCommit, RecordSuccess,
     GiveUp

\* A task's first attempt leaves no repair on record.
LEMMA FirstHasNoRepairs ==
    ASSUME TypeOK, Ownership, SoleInv, NEW r \in Runner,
           CommitClaim(r) \/ PackageRejected(r)
    PROVE  \A t \in Task : RepairsOf(t)' = IF t = job[r] THEN {} ELSE RepairsOf(t)
<1>1. pc[r] = "claimed" /\ job[r] \in Task
  BY DEF CommitClaim, PackageRejected, Ownership, Owns, HasJob, InTask, Claiming
<1>2. \A a \in Number : attempt[job[r]][a].owner = "none"
  BY <1>1, Places DEF SoleInv, SoleView, Untried
<1>3. PICK x : Writes(job[r], no[r], x) /\ x.owner = "guarded-run"
  BY <1>1, CommitClaimWrites, PackageRejectedWrites DEF Ownership, Owns, ClaimIsNew
<1>4. QED
  BY <1>1, <1>2, <1>3 DEF Writes, RepairsOf

LEMMA RepairAddsOne ==
    ASSUME TypeOK, Ownership, LeaseInv, SoleInv, NEW r \in Runner, Repair(r)
    PROVE  \A t \in Task :
             Cardinality(RepairsOf(t)') = IF t = job[r] THEN Cardinality(RepairsOf(t)) + 1
                                          ELSE Cardinality(RepairsOf(t))
<1> DEFINE next == no[r] + 1
           claim == NewClaim("repair-planner", base[r], RepairLeaseTime)
<1>1. /\ pc[r] \in Attempting /\ job[r] \in Task /\ no[r] \in Number
      /\ attempt[job[r]][no[r]].owner = row[r].owner
  BY Places DEF Repair, Ownership, Owns, HasJob, InTask, AttemptIsRunning
<1>2. /\ next \in Number /\ Free(job[r], next) /\ claim.owner = "repair-planner"
      /\ \A u \in Task, b \in Number :
           attempt'[u][b] = IF u = job[r] /\ b = no[r] THEN row[r]
                            ELSE IF u = job[r] /\ b = next THEN claim
                            ELSE attempt[u][b]
  BY RepairWrites, NewClaimFields
<1> HIDE DEF claim
<1>3. next # no[r] /\ attempt[job[r]][next].owner = "none"
  BY <1>1, <1>2 DEF SoleInv, Untried, Number
<1>4. next \notin RepairsOf(job[r])
  BY <1>3 DEF RepairsOf
<1>5. \A t \in Task : RepairsOf(t)' = IF t = job[r] THEN RepairsOf(t) \cup {next}
                                       ELSE RepairsOf(t)
  BY <1>1, <1>2, <1>3 DEF RepairsOf
<1>6. Cardinality(RepairsOf(job[r]) \cup {next}) = Cardinality(RepairsOf(job[r])) + 1
  BY <1>4, RepairsFinite, FS_AddElement
<1>7. QED
  BY <1>5, <1>6

LEMMA SoleBudgetStep ==
    ASSUME TypeOK, Ownership, EvidenceInv, LeaseInv, SoleInv, NEW r \in Runner,
           RunnerAct(r)
    PROVE  SoleBudget(r)'
<1> USE Places
<1>1. /\ \A t \in Task : /\ Cardinality(RepairsOf(t)) <= MaxRepairs[r]
                         /\ Cardinality(RepairsOf(t)) \in Nat
      /\ pc[r] \in Attempting => Cardinality(RepairsOf(job[r])) <= repairs[r]
      /\ MaxRepairs[r] \in Nat /\ repairs[r] \in Nat
  BY RepairsFinite, FS_CardinalityType, BoundAssumption
     DEF SoleInv, SoleBudget, TypeOK
<1>2. CASE CommitClaim(r) \/ PackageRejected(r)
  <2>1. \A t \in Task : RepairsOf(t)' = IF t = job[r] THEN {} ELSE RepairsOf(t)
    BY <1>2, FirstHasNoRepairs
  <2>2. \A t \in Task : Cardinality(RepairsOf(t)') <= MaxRepairs[r]
    BY <1>1, <2>1, FS_EmptySet
  <2>3. pc'[r] \in Attempting =>
          job'[r] = job[r] /\ repairs'[r] = 0 /\ job[r] \in Task
    BY <1>2, EndingEnds DEF Ending, CommitClaim, TypeOK, Ownership, Owns, HasJob, InTask
  <2>4. pc'[r] \in Attempting => Cardinality(RepairsOf(job[r])') <= repairs'[r]
    <3>1. ASSUME NEW t \in Task, t = job[r], pc'[r] \in Attempting
          PROVE  Cardinality(RepairsOf(t)') <= repairs'[r]
      BY <2>1, <2>3, <3>1, FS_EmptySet
    <3>2. QED
      BY <2>3, <3>1
  <2>5. QED
    BY <2>2, <2>4 DEF SoleBudget
<1>3. CASE Repair(r)
  <2>1. \A t \in Task :
          Cardinality(RepairsOf(t)') = IF t = job[r] THEN Cardinality(RepairsOf(t)) + 1
                                       ELSE Cardinality(RepairsOf(t))
    BY <1>3, RepairAddsOne
  <2>2. repairs[r] < MaxRepairs[r] /\ pc[r] \in Attempting
    BY <1>3, RepairedFailure, Places DEF Repair
  <2>3. job'[r] = job[r] /\ repairs'[r] = repairs[r] + 1 /\ job[r] \in Task
    BY <1>3 DEF Repair, TypeOK, Ownership, Owns, HasJob, InTask, Attempting
  <2>4. \A t \in Task : Cardinality(RepairsOf(t)') <= MaxRepairs[r]
    BY <1>1, <2>1, <2>2
  <2>5. \A t \in Task : t = job[r] => Cardinality(RepairsOf(t)') <= repairs'[r]
    BY <1>1, <2>1, <2>2, <2>3
  <2>6. QED
    BY <2>3, <2>4, <2>5 DEF SoleBudget
<1>4. CASE ~CommitClaim(r) /\ ~PackageRejected(r) /\ ~Repair(r)
  <2>1. \A t \in Task : RepairsOf(t)' = RepairsOf(t)
    BY <1>4, OwnersKept
  <2>2. \A t \in Task : Cardinality(RepairsOf(t)') <= MaxRepairs[r]
    BY <1>1, <2>1
  <2>3. pc'[r] \in Attempting =>
          /\ pc[r] \in Attempting /\ job'[r] = job[r] /\ repairs' = repairs
          /\ job[r] \in Task
    <3>1. CASE Working(r)
      BY <3>1, CountsKept, ContinuesStep DEF Working, Continues, Ownership, Owns,
         HasJob, InTask
    <3>2. CASE ~Working(r)
      <4>1. \/ Ending(r) \/ StartRun(r) \/ ListReady(r) \/ LockForClaim(r)
            \/ ClaimRefused(r) \/ Claim(r) \/ SettleSuccess(r)
        BY <1>4, <3>2, StepCases
      <4>2. pc'[r] \in Ended \cup {"idle", "listed", "locked", "claimed"}
        BY <4>1, EndingEnds DEF StartRun, ListReady, LockForClaim, ClaimRefused,
           Claim, SettleSuccess, TypeOK
      <4>3. QED
        BY <4>2
    <3>3. QED
      BY <3>1, <3>2
  <2>4. QED
    BY <1>1, <2>1, <2>2, <2>3 DEF SoleBudget
<1>5. QED
  BY <1>2, <1>3, <1>4

-----------------------------------------------------------------------------
(* The environment.                                                        *)

\* The cleanup changes no lease that is not active, and no status.
LEMMA SweepSoleStep ==
    ASSUME TypeOK, Ownership, SoleInv, NEW t \in Task, NEW a \in Number,
           SweepRead(t, a) \/ SweepWrite(t, a)
    PROVE  SoleInv'
<1>1. /\ UNCHANGED <<now, task, git, pc, job, no, row, cached, repairs>>
      /\ \A u \in Task, b \in Number :
           /\ Same(attempt'[u][b], attempt[u][b])
           /\ attempt'[u][b].lease = "active" => attempt[u][b].lease = "active"
           /\ attempt'[u][b].expires = attempt[u][b].expires
  <2>1. UNCHANGED <<now, task, git, pc, job, no, row, cached, repairs>>
    BY DEF SweepRead, SweepWrite, shared, repo, session, counts
  <2>2. CASE SweepRead(t, a)
    BY <2>1, <2>2, SweepKeeps DEF SweepRead, shared
  <2>3. CASE SweepWrite(t, a)
    <3> DEFINE old == attempt[t][a]
    <3>1. old \in Row
      BY DEF TypeOK
    <3>2. /\ [old EXCEPT !.lease = "expired"].lease = "expired"
          /\ [old EXCEPT !.lease = "expired"].expires = old.expires
      BY <3>1 DEF Row
    <3>3. \A u \in Task, b \in Number :
            attempt'[u][b] = IF u = t /\ b = a
                             THEN [old EXCEPT !.lease = "expired"]
                             ELSE attempt[u][b]
      BY <2>3 DEF SweepWrite, TypeOK
    <3>4. QED
      BY <2>1, <2>3, <3>2, <3>3, SweepKeeps
  <2>4. QED
    BY <2>2, <2>3
<1>2. \A u \in Task, b \in Number :
        /\ Free(u, b)' <=> Free(u, b)
        /\ attempt'[u][b].lease # "active" \/ attempt[u][b].lease = "active"
        /\ Live(attempt'[u][b], now) => Live(attempt[u][b], now)
  BY <1>1 DEF Free, Same, Live
<1>3. Untried' /\ CommitExists' /\ CommittedIsLast'
  BY <1>1, <1>2 DEF SoleInv, Untried, CommitExists, CommittedIsLast, Same
<1>4. NoBlindRerun' /\ EndedTaskNotLeased'
  BY <1>1, <1>2 DEF SoleInv, NoBlindRerun, EndedTaskNotLeased, Leased, Same
<1>5. ASSUME NEW r \in Runner
      PROVE  SoleView(r)' /\ SoleAttempt(r)' /\ SoleRecord(r)' /\ SoleBudget(r)'
  <2>1. SoleView(r) /\ SoleAttempt(r) /\ SoleRecord(r) /\ SoleBudget(r)
    BY DEF SoleInv
  <2>2. \A u \in Task : RepairsOf(u)' = RepairsOf(u)
    BY <1>1 DEF RepairsOf, Same
  <2>3. SoleView(r)'
    BY <1>1, <2>1 DEF SoleView
  <2>4. pc[r] \in Attempting => job[r] \in Task /\ no[r] \in Number
    BY DEF Ownership, Owns, HasJob, InTask
  <2>5. SoleAttempt(r)' /\ SoleRecord(r)'
    BY <1>1, <1>2, <2>1, <2>4 DEF SoleAttempt, SoleRecord
  <2>6. SoleBudget(r)'
    BY <1>1, <2>1, <2>2, <2>4 DEF SoleBudget
  <2>7. QED
    BY <2>3, <2>5, <2>6
<1>6. QED
  BY <1>3, <1>4, <1>5 DEF SoleInv

\* Time only takes leases away.
LEMMA TimeSoleStep ==
    ASSUME TypeOK, Ownership, SoleInv, UNCHANGED vars \/ Tick
    PROVE  SoleInv'
<1>1. /\ UNCHANGED <<task, attempt, git, pc, job, no, row, cached, repairs>>
      /\ now \in Nat /\ now' \in Nat /\ now' >= now
  BY DEF vars, shared, repo, session, counts, Tick, TypeOK
<1>2. \A t \in Task, a \in Number :
        Live(attempt[t][a], now') => Live(attempt[t][a], now)
  BY <1>1 DEF Live, TypeOK, Row
<1>3. Untried' /\ CommitExists' /\ CommittedIsLast' /\ NoBlindRerun'
  BY <1>1 DEF SoleInv, Untried, CommitExists, CommittedIsLast, NoBlindRerun, Free
<1>4. EndedTaskNotLeased'
  BY <1>1, <1>2 DEF SoleInv, EndedTaskNotLeased, Leased, Live
<1>5. ASSUME NEW r \in Runner
      PROVE  SoleView(r)' /\ SoleAttempt(r)' /\ SoleRecord(r)' /\ SoleBudget(r)'
  <2>1. SoleView(r) /\ SoleAttempt(r) /\ SoleRecord(r) /\ SoleBudget(r)
    BY DEF SoleInv
  <2>2. pc[r] \in Attempting => job[r] \in Task /\ no[r] \in Number
    BY DEF Ownership, Owns, HasJob, InTask
  <2>3. SoleView(r)' /\ SoleAttempt(r)' /\ SoleBudget(r)'
    BY <1>1, <2>1 DEF SoleView, SoleAttempt, SoleBudget, RepairsOf, Free
  <2>4. SoleRecord(r)'
    BY <1>1, <1>2, <2>1, <2>2 DEF SoleRecord, Live
  <2>5. QED
    BY <2>3, <2>4
<1>6. QED
  BY <1>3, <1>4, <1>5 DEF SoleInv

-----------------------------------------------------------------------------
(* The invariant.                                                          *)

LEMMA SoleStep ==
    OneScheduler /\ TypeOK /\ Ownership /\ EvidenceInv /\ LeaseInv /\ SoleInv
        /\ [Next]_vars /\ TypeOK' => SoleInv'
<1> SUFFICES ASSUME OneScheduler, TypeOK, Ownership, EvidenceInv, LeaseInv, SoleInv,
                    [Next]_vars, TypeOK'
             PROVE  SoleInv'
  OBVIOUS
<1>1. CASE UNCHANGED vars \/ Tick
  BY <1>1, TimeSoleStep
<1>2. CASE Cleanup
  BY <1>2, SweepSoleStep DEF Cleanup
<1>3. ASSUME NEW r \in Runner, RunnerAct(r)
      PROVE  SoleInv'
  <2>1. Runner = {r}
    BY DEF OneScheduler
  <2>2. SessionFrame(r) /\ RecordFrame
    BY <1>3, SessionFrameStep, RecordFrameStep
  <2>3. Untried' /\ CommitExists' /\ CommittedIsLast'
    BY <1>3, <2>1, <2>2, UntriedStep, CommitExistsStep, CommittedStep
  <2>4. NoBlindRerun' /\ EndedTaskNotLeased'
    BY <1>3, <2>2, BlindStep, EndedStep
  <2>5. SoleView(r)' /\ SoleAttempt(r)' /\ SoleRecord(r)' /\ SoleBudget(r)'
    BY <1>3, ViewStep, SoleAttemptStep, SoleRecordStep, SoleBudgetStep
  <2>6. QED
    BY <2>1, <2>3, <2>4, <2>5 DEF SoleInv
<1>4. QED
  BY <1>1, <1>2, <1>3 DEF Next, RunnerAct

LEMMA InitSole == Init => SoleInv
<1> SUFFICES ASSUME Init PROVE SoleInv
  OBVIOUS
<1>1. \A t \in Task, a \in Number : attempt[t][a] = NoRow
  BY DEF Init
<1>2. \A t \in Task, a \in Number : Free(t, a) /\ ~Live(attempt[t][a], now)
  BY <1>1 DEF Free, NoRow, Live
<1>3. Untried /\ CommitExists /\ CommittedIsLast
  BY <1>1, <1>2 DEF Init, Untried, CommitExists, CommittedIsLast, NoRow
<1>4. NoBlindRerun /\ EndedTaskNotLeased
  BY <1>2 DEF NoBlindRerun, EndedTaskNotLeased, Leased
<1>5. ASSUME NEW r \in Runner
      PROVE  SoleView(r) /\ SoleAttempt(r) /\ SoleRecord(r) /\ SoleBudget(r)
  <2>1. pc[r] \in Ended
    BY DEF Init, Ended
  <2>2. SoleView(r) /\ SoleAttempt(r) /\ SoleRecord(r)
    BY <2>1, Places DEF SoleView, SoleAttempt, SoleRecord
  <2>3. \A t \in Task : Cardinality(RepairsOf(t)) = 0
    BY <1>1, NoRepairs DEF NoRow
  <2>4. SoleBudget(r)
    BY <2>1, <2>3, Places, BoundAssumption DEF SoleBudget
  <2>5. QED
    BY <2>2, <2>4
<1>6. QED
  BY <1>3, <1>4, <1>5 DEF SoleInv

LEMMA SoleHolds ==
    ASSUME OneScheduler
    PROVE  Spec => [](TypeOK /\ Ownership /\ EvidenceInv /\ LeaseInv /\ SoleInv)
<1> DEFINE I == TypeOK /\ Ownership /\ EvidenceInv /\ LeaseInv /\ SoleInv
<1>1. Init => I
  BY InitType, InitOwnership, InitEvidence, InitLease, InitSole
<1>2. I /\ [Next]_vars => I'
  BY TypeStep, OwnershipStep, EvidenceStep, LeaseStep, SoleStep
<1>3. QED
  BY <1>1, <1>2, PTL DEF Spec

\* One scheduler commits the result of a task once, through crashes between the
\* git commit and the database commit, restarts and repairs: an attempt whose
\* commit exists is the last that is ever made of its task.
THEOREM OneCommitPerTask ==
    ASSUME OneScheduler
    PROVE  Spec => []NoDuplicateCommit
<1>1. TypeOK /\ SoleInv => NoDuplicateCommit
  <2> SUFFICES ASSUME TypeOK, SoleInv, NEW t \in Task, NEW a \in Number,
                      NEW b \in Number, <<t, a>> \in git, <<t, b>> \in git
               PROVE  a = b
    BY DEF NoDuplicateCommit
  <2>1. ~(a > b) /\ ~(b > a)
    BY NoCommitBefore
  <2>2. QED
    BY <2>1 DEF Number
<1>2. QED
  BY <1>1, SoleHolds, PTL

\* With one scheduler a new attempt is made only when every earlier one is on
\* record as failed: what an interrupted attempt did is never guessed.
THEOREM AttemptsFollowFailures ==
    ASSUME OneScheduler
    PROVE  Spec => []NoBlindRerun
<1>1. SoleInv => NoBlindRerun
  BY DEF SoleInv
<1>2. QED
  BY <1>1, SoleHolds, PTL

\* A task gets no more repair attempts than the run's budget, over all the runs
\* and crashes: the loop starts to count again only with a task's first attempt.
THEOREM RepairsWithinBudget ==
    ASSUME OneScheduler
    PROVE  Spec => []RepairBudget
<1>1. SoleInv => RepairBudget
  BY DEF OneScheduler, SoleInv, SoleBudget, RepairsOf, RepairBudget
<1>2. QED
  BY <1>1, SoleHolds, PTL

\* A task that one scheduler passed or blocked is leased to nobody.
THEOREM EndedTasksAreFree ==
    ASSUME OneScheduler
    PROVE  Spec => []EndedTaskNotLeased
<1>1. SoleInv => EndedTaskNotLeased
  BY DEF SoleInv
<1>2. QED
  BY <1>1, SoleHolds, PTL

-----------------------------------------------------------------------------
(* One scheduler implements the life of a task.                            *)

\* An attempt is recorded as done by the step that settles it, and by no other.
LEMMA ProofsKept ==
    ASSUME TypeOK, Ownership, EvidenceInv, LeaseInv, SoleInv, NEW r \in Runner,
           RunnerAct(r), ~SettleSuccess(r), NEW t \in Task
    PROVE  HasEvidence(t)' <=> HasEvidence(t)
<1> SUFFICES ASSUME NEW a \in Number
             PROVE  Evidence(t, a)' <=> Evidence(t, a)
  BY DEF HasEvidence
<1> DEFINE Done(x) == x.status = "succeeded" /\ x.note = "completed"
<1>1. ASSUME git' = git, attempt'[t][a] = attempt[t][a]
      PROVE  Evidence(t, a)' <=> Evidence(t, a)
  BY <1>1 DEF Evidence
<1>2. ASSUME ~Done(attempt[t][a]), ~Done(attempt'[t][a])
      PROVE  Evidence(t, a)' <=> Evidence(t, a)
  BY <1>2 DEF Evidence
<1>3. CASE CommitCandidate(r)
  <2>1. git \subseteq git' /\ attempt' = attempt
    BY <1>3, GitGrows DEF CommitCandidate, shared
  <2>2. attempt[t][a].commit => <<t, a>> \in git
    BY DEF SoleInv, CommitExists
  <2>3. QED
    BY <2>1, <2>2 DEF Evidence
<1>4. CASE ~Writing(r) /\ ~CommitCandidate(r)
  BY <1>1, <1>4, RowsKept, GitKept
<1>5. Writing(r) => git' = git
  BY DEF Writing, CommitClaim, PackageRejected, Repair, SettleFailure, SettleSuccess,
     repo
<1>6. CASE CommitClaim(r) \/ PackageRejected(r)
  <2>1. /\ pc[r] = "claimed"
        /\ Free(job[r], no[r]) /\ row[r].note = "none"
    BY <1>6 DEF CommitClaim, PackageRejected, Ownership, Owns, ClaimIsNew
  <2>2. PICK x : Writes(job[r], no[r], x) /\ ~Done(x)
    BY <1>6, <2>1, CommitClaimWrites, PackageRejectedWrites
  <2>3. QED
    BY <1>1, <1>2, <1>5, <1>6, <2>1, <2>2 DEF Writing, Writes, Free
<1>7. pc[r] \in Attempting => attempt[job[r]][no[r]].status = "running"
  BY DEF Ownership, Owns, AttemptIsRunning
<1>8. CASE SettleFailure(r)
  <2>1. Writes(job[r], no[r], row[r]) /\ ~Done(row[r]) /\ pc[r] \in Attempting
    BY <1>8, SettleWrites, Places DEF SettleFailure
  <2>2. QED
    BY <1>1, <1>2, <1>5, <1>7, <1>8, <2>1 DEF Writing, Writes
<1>9. CASE Repair(r)
  <2> DEFINE claim == NewClaim("repair-planner", base[r], RepairLeaseTime)
             next == no[r] + 1
  <2>1. /\ Free(job[r], next)
        /\ attempt'[t][a] = IF t = job[r] /\ a = no[r] THEN row[r]
                            ELSE IF t = job[r] /\ a = next THEN claim
                            ELSE attempt[t][a]
    BY <1>9, RepairWrites
  <2>2. ~Done(claim)
    BY NewClaimFields
  <2> HIDE DEF claim
  <2>3. pc[r] \in Attempting /\ ~Done(row[r])
    BY <1>9, RepairedFailure, Places DEF Repair
  <2>4. QED
    BY <1>1, <1>2, <1>5, <1>7, <1>9, <2>1, <2>2, <2>3 DEF Writing, Free
<1>10. QED
  BY <1>3, <1>4, <1>6, <1>8, <1>9 DEF Writing

\* The step that settles a success proves its own task.
LEMMA ProofAdded ==
    ASSUME TypeOK, Ownership, TypeOK', EvidenceInv, NEW r \in Runner, SettleSuccess(r),
           NEW t \in Task
    PROVE  HasEvidence(t)' <=> HasEvidence(t) \/ t = job[r]
<1>1. RunnerAct(r)
  BY DEF RunnerAct, RunnerStep, SettleStep
<1>2. HasEvidence(t) => HasEvidence(t)'
  BY <1>1, EvidenceKeptStep DEF EvidenceKept
<1>3. t = job[r] => HasEvidence(t)'
  BY SettledEvidence, SettlesPassed DEF EvidenceInv
<1>4. t # job[r] => (HasEvidence(t)' => HasEvidence(t))
  BY SettleWrites DEF Writes, HasEvidence, Evidence, SettleSuccess, repo
<1>5. QED
  BY <1>2, <1>3, <1>4

LEMMA LifecycleStep ==
    ASSUME TypeOK, Ownership, TypeOK', EvidenceInv, LeaseInv, SoleInv, NEW r \in Runner,
           RunnerAct(r)
    PROVE  [Lifecycle!Next]_Lifecycle!vars
<1> DEFINE Proved == {t \in Task : HasEvidence(t)}
<1> USE Places
<1>1. ~SettleSuccess(r) => Proved' = Proved
  BY ProofsKept
<1>2. SoleView(r)
  BY DEF SoleInv
<1>3. CASE CommitClaim(r) \/ PackageRejected(r)
  <2>1. /\ pc[r] = "claimed" /\ job[r] \in Task
        /\ \/ task' = [task EXCEPT ![job[r]] = "running"]
           \/ task' = [task EXCEPT ![job[r]] = "blocked"]
    BY <1>3 DEF CommitClaim, PackageRejected, Ownership, Owns, HasJob, InTask
  <2>2. ~SettleSuccess(r)
    BY <2>1 DEF SettleSuccess
  <2>3. /\ \A t \in Task : task[t] # "running"
        /\ task[job[r]] = "pending"
    BY <1>2, <2>1 DEF SoleView
  <2>4. Deps[job[r]] \subseteq Proved
    BY <2>1, DepsAssumption DEF EvidenceInv, ClaimingAfterDependencies
  <2>5. Lifecycle!May(job[r])
    BY <2>3, <2>4 DEF Lifecycle!May, Lifecycle!Idle
  <2>6. Lifecycle!Start(job[r]) \/ Lifecycle!Reject(job[r])
    BY <1>1, <2>1, <2>2, <2>5 DEF Lifecycle!Start, Lifecycle!Reject
  <2>7. QED
    BY <2>1, <2>6 DEF Lifecycle!Next
<1>4. CASE SettleSuccess(r)
  <2>1. /\ job[r] \in Task /\ task[job[r]] = "running"
        /\ task' = [task EXCEPT ![job[r]] = "passed"]
    BY <1>2, <1>4, SettlesPassed DEF SoleView, SettleSuccess
  <2>2. Proved' = Proved \cup {job[r]}
    BY <1>4, <2>1, ProofAdded
  <2>3. Lifecycle!Pass(job[r])
    BY <2>1, <2>2 DEF Lifecycle!Pass
  <2>4. QED
    BY <2>1, <2>3 DEF Lifecycle!Next
<1>5. CASE SettleFailure(r) \/ SettleForfeit(r)
  <2>1. /\ pc[r] \in Attempting /\ job[r] \in Task /\ task[job[r]] = "running"
        /\ task' = [task EXCEPT ![job[r]] = TaskAfter(r)]
        /\ cached[r] \in Outcome
        /\ pc[r] = "forfeiting" \/ row[r].note # "completed"
    BY <1>2, <1>5 DEF SoleView, SettleFailure, SettleForfeit, Ownership, Owns, HasJob,
       InTask
  <2>2. ~SettleSuccess(r)
    BY <2>1 DEF SettleSuccess
  <2>3. cached[r] \in {"running", "blocked"}
    BY <2>1 DEF Outcome, EvidenceInv, PendingRecord
  <2>4. CASE cached[r] = "running"
    <3>1. task' = task
      BY <2>1, <2>4 DEF TaskAfter, TypeOK
    <3>2. QED
      BY <1>1, <2>2, <3>1 DEF Lifecycle!vars
  <2>5. CASE cached[r] = "blocked"
    <3>1. Lifecycle!Block(job[r])
      BY <1>1, <2>1, <2>2, <2>5 DEF Lifecycle!Block, TaskAfter
    <3>2. QED
      BY <2>1, <3>1 DEF Lifecycle!Next
  <2>6. QED
    BY <2>3, <2>4, <2>5
<1>6. CASE Repair(r)
  <2>1. /\ pc[r] = "failed" /\ task[job[r]] = "running" /\ job[r] \in Task
        /\ task' = [task EXCEPT ![job[r]] = "running"]
    BY <1>2, <1>6 DEF Repair, SoleView, Ownership, Owns, HasJob, InTask
  <2>2. task' = task /\ ~SettleSuccess(r)
    BY <2>1 DEF TypeOK, SettleSuccess
  <2>3. QED
    BY <1>1, <2>2 DEF Lifecycle!vars
<1>7. CASE \A t \in Task : task'[t] = task[t]
  <2>1. task' = task
    BY <1>7 DEF TypeOK
  <2>2. CASE SettleSuccess(r)
    BY <1>4, <2>2
  <2>3. CASE ~SettleSuccess(r)
    BY <1>1, <2>1, <2>3 DEF Lifecycle!vars
  <2>4. QED
    BY <2>2, <2>3
<1>8. QED
  BY <1>3, <1>4, <1>5, <1>6, <1>7, StatusKept

\* Neither time nor the cleanup is seen in the life of a task.
LEMMA EnvironmentStutters ==
    ASSUME TypeOK, UNCHANGED vars \/ Tick \/ Cleanup
    PROVE  UNCHANGED Lifecycle!vars
<1>1. task' = task /\ git' = git
  BY DEF vars, shared, repo, Tick, Cleanup, SweepRead, SweepWrite
<1>2. \A t \in Task, a \in Number : Same(attempt'[t][a], attempt[t][a])
  BY SweepKeeps DEF vars, shared, Tick, Cleanup, Same
<1>3. \A t \in Task : HasEvidence(t)' <=> HasEvidence(t)
  BY <1>1, <1>2 DEF HasEvidence, Evidence, Same
<1>4. QED
  BY <1>1, <1>3 DEF Lifecycle!vars

\* One scheduler implements TaskLifecycle: whatever crashes, expires or is
\* retried, its tasks are worked on one at a time, after the proofs of what they
\* depend on, and a task's proof and its end appear in one step.
THEOREM SchedulerImplementsLifecycle ==
    ASSUME OneScheduler
    PROVE  Spec => LifecycleImplemented
<1> DEFINE I == TypeOK /\ Ownership /\ EvidenceInv /\ LeaseInv /\ SoleInv
<1>1. Init => Lifecycle!Init
  BY DEF Init, Lifecycle!Init, HasEvidence, Evidence, NoRow
<1>2. I /\ I' /\ [Next]_vars => [Lifecycle!Next]_Lifecycle!vars
  <2> SUFFICES ASSUME I, I', [Next]_vars
               PROVE  [Lifecycle!Next]_Lifecycle!vars
    OBVIOUS
  <2>1. CASE UNCHANGED vars \/ Tick \/ Cleanup
    BY <2>1, EnvironmentStutters
  <2>2. ASSUME NEW r \in Runner, RunnerAct(r)
        PROVE  [Lifecycle!Next]_Lifecycle!vars
    BY <2>2, LifecycleStep
  <2>3. QED
    BY <2>1, <2>2 DEF Next, RunnerAct
<1>3. QED
  BY <1>1, <1>2, SoleHolds, PTL DEF Spec, LifecycleImplemented, Lifecycle!Spec
=============================================================================
