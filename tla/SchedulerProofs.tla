-------------------------- MODULE SchedulerProofs --------------------------
(***************************************************************************)
(* Proofs about BoundedScheduler, for any number of runners and tasks, any *)
(* dependencies, lease times, budgets and bounds.                          *)
(***************************************************************************)
EXTENDS SchedulerInvariant, TLAPS

-----------------------------------------------------------------------------
(* Types.                                                                  *)

LEMMA NewClaimType ==
    ASSUME NEW owner \in Owner, NEW time \in Nat \cup {NoTx},
           NEW duration \in Nat \ {0}
    PROVE  NewClaim(owner, time, duration) \in Row
<1>1. time + duration \in Nat
  BY DEF NoTx
<1>2. QED
  BY <1>1 DEF NewClaim, Row, ExecutionStatus, Note, LeaseStatus

LEMMA WithClaimType ==
    ASSUME NEW rows \in [Number -> Row], NEW time, NEW a, NEW claim \in Row
    PROVE  WithClaim(rows, time, a, claim) \in [Number -> Row]
BY DEF WithClaim, Row, LeaseStatus

LEMMA ReleasedType ==
    ASSUME TypeOK, NEW r \in Runner
    PROVE  Released(r) \in LeaseStatus
BY DEF TypeOK, Released, Row, LeaseStatus

LEMMA TaskAfterType ==
    ASSUME TypeOK, NEW r \in Runner, job[r] \in Task
    PROVE  TaskAfter(r) \in TaskStatus
BY DEF TypeOK, TaskAfter

LEMMA EndType ==
    ASSUME TypeOK, NEW r \in Runner, NEW how \in Ended, End(r, how)
    PROVE  /\ pc' \in [Runner -> Location]
           /\ job' \in [Runner -> Task \cup {NoTask}]
           /\ no' \in [Runner -> Number \cup {0}]
           /\ base' \in [Runner -> Nat \cup {NoTx}]
           /\ row' \in [Runner -> Row]
           /\ cached' \in [Runner -> TaskStatus]
           /\ attempted' \in [Runner -> Nat]
           /\ repairs' \in [Runner -> Nat]
           /\ runs' \in [Runner -> Nat]
           /\ lock' \in [Task -> Runner \cup {NoRunner}]
<1>1. NoRow \in Row
  BY DEF NoRow, Row, ExecutionStatus, Note, LeaseStatus, Owner
<1>2. QED
  BY <1>1 DEF TypeOK, End, Unlocked, Location, TaskStatus

LEMMA EndsType ==
    ASSUME TypeOK, NEW r \in Runner, NEW status \in ExecutionStatus,
           NEW note \in Note, ExecutionEnds(r, status, note)
    PROVE  /\ pc' \in [Runner -> Location]
           /\ row' \in [Runner -> Row]
           /\ cached' \in [Runner -> TaskStatus]
           /\ lock' \in [Task -> Runner \cup {NoRunner}]
<1>1. [row[r] EXCEPT !.status = status, !.note = note] \in Row
  BY DEF TypeOK, Row
<1>2. [row[r] EXCEPT !.status = status, !.note = note, !.lease = "released"]
        \in Row
  BY DEF TypeOK, Row, LeaseStatus
<1>3. row' \in [Runner -> Row]
  BY <1>1, <1>2 DEF ExecutionEnds, TypeOK
<1>4. QED
  BY <1>3 DEF ExecutionEnds, LockTask, TypeOK, Location, Attempting, TaskStatus

LEMMA InitType == Init => TypeOK
BY RunnerAssumption DEF Init, TypeOK, TaskStatus, Location, Ended, Row, NoRow,
   ExecutionStatus, Note, LeaseStatus, Owner

LEMMA Words ==
    /\ "idle" \in Location /\ "stopped" \in Location
    /\ Ended \subseteq Location /\ Claiming \subseteq Location
    /\ Attempting \subseteq Location
    /\ "stopped" \in Ended /\ "raised" \in Ended /\ "dead" \in Ended
    /\ "listed" \in Claiming /\ "locked" \in Claiming /\ "claimed" \in Claiming
    /\ "owned" \in Attempting /\ "executing" \in Attempting
    /\ "finalizing" \in Attempting /\ "verified" \in Attempting
    /\ "committed" \in Attempting /\ "failed" \in Attempting
    /\ "settling" \in Attempting /\ "forfeiting" \in Attempting
    /\ "pending" \in TaskStatus /\ "running" \in TaskStatus
    /\ "passed" \in TaskStatus /\ "blocked" \in TaskStatus
    /\ "expired" \in LeaseStatus
    /\ NoRow \in Row
BY DEF Location, Ended, Claiming, Attempting, TaskStatus, LeaseStatus, NoRow, Row,
   ExecutionStatus, Note, Owner

LEMMA RowLease ==
    ASSUME NEW x \in Row, NEW lease \in LeaseStatus
    PROVE  [x EXCEPT !.lease = lease] \in Row
BY DEF Row

LEMMA TypeStep == TypeOK /\ Ownership /\ [Next]_vars => TypeOK'
<1> SUFFICES ASSUME TypeOK, Ownership, [Next]_vars PROVE TypeOK'
  OBVIOUS
<1> USE BoundAssumption, Words
<1>1. CASE UNCHANGED vars
  BY <1>1 DEF TypeOK, vars, shared, repo, session, counts
<1>2. CASE Tick
  BY <1>2 DEF TypeOK, Tick, shared, repo, session, counts
<1>3. CASE Cleanup
  <2>1. ASSUME NEW t \in Task, NEW a \in Number, SweepRead(t, a)
        PROVE  TypeOK'
    BY <2>1 DEF TypeOK, SweepRead, shared, repo, session, counts
  <2>2. ASSUME NEW t \in Task, NEW a \in Number, SweepWrite(t, a)
        PROVE  TypeOK'
    <3>1. [attempt[t][a] EXCEPT !.lease = "expired"] \in Row
      BY RowLease DEF TypeOK
    <3>2. attempt' \in [Task -> [Number -> Row]]
      BY <2>2, <3>1 DEF TypeOK, SweepWrite
    <3>3. QED
      BY <2>2, <3>2 DEF TypeOK, SweepWrite, repo, session, counts
  <2>3. QED
    BY <1>3, <2>1, <2>2 DEF Cleanup
<1>4. ASSUME NEW r \in Runner, StartRun(r) \/ RefuseRun(r)
      PROVE  TypeOK'
  <2>1. CASE StartRun(r)
    BY <2>1 DEF TypeOK, StartRun, shared, repo
  <2>2. CASE RefuseRun(r)
    BY <2>2 DEF TypeOK, RefuseRun, shared, repo, session
  <2>3. QED
    BY <1>4, <2>1, <2>2
<1>5. ASSUME NEW r \in Runner, RunnerStep(r)
      PROVE  TypeOK'
  <2> USE DEF shared, repo, session, counts
  <2>1. CASE Stop(r)
    BY <2>1, EndType DEF Stop, TypeOK
  <2>2. CASE ListReady(r)
    <3>1. TxTime(r) \in Nat /\ \A t \in Task : Seen(r, t) \in TaskStatus
      BY DEF TypeOK, TxTime, Seen, NoTx
    <3>2. QED
      BY <2>2, <3>1 DEF ListReady, TypeOK
  <2>3. CASE LockForClaim(r)
    BY <2>3 DEF LockForClaim, LockTask, TypeOK
  <2>4. CASE LockRefused(r)
    BY <2>4, EndType DEF LockRefused, TypeOK
  <2>5. CASE ClaimRefused(r)
    BY <2>5 DEF ClaimRefused, TypeOK
  <2>6. CASE Claim(r)
    <3>1. row' \in [Runner -> Row]
      BY <2>6, NewClaimType DEF Claim, TypeOK, Owner
    <3>2. QED
      BY <2>6, <3>1 DEF Claim, TypeOK
  <2>7. CASE CommitClaim(r)
    <3>1. attempt' \in [Task -> [Number -> Row]]
      BY <2>7, WithClaimType DEF CommitClaim, TypeOK
    <3>2. QED
      BY <2>7, <3>1 DEF CommitClaim, TypeOK, Unlocked
  <2>8. CASE PackageRejected(r)
    <3> DEFINE rejected == [row[r] EXCEPT !.status = "failed",
                              !.note = "package_construction_failed",
                              !.lease = Released(r)]
    <3>1. rejected \in Row
      BY ReleasedType DEF TypeOK, Row, ExecutionStatus, Note
    <3>2. attempt' \in [Task -> [Number -> Row]]
      BY <2>8, <3>1, WithClaimType DEF PackageRejected, TypeOK
    <3>3. QED
      BY <2>8, <3>2, EndType DEF PackageRejected, TypeOK
  <2>9. CASE LoseOwnership(r)
    BY <2>9 DEF LoseOwnership, LockTask, TypeOK
  <2>10. CASE CannotExecute(r)
    BY <2>10, EndsType DEF CannotExecute, TypeOK, ExecutionStatus, Note
  <2>11. CASE StartExecutor(r)
    <3>1. now + RenewTime \in Nat
      BY DEF TypeOK
    <3>2. [row[r] EXCEPT !.expires = now + RenewTime] \in Row
      BY <3>1 DEF TypeOK, Row
    <3>3. job[r] \in Task /\ no[r] \in Number
      BY <2>11 DEF StartExecutor, Ownership, Owns, HasJob, InTask
    <3>4. QED
      BY <2>11, <3>2, <3>3 DEF StartExecutor, TypeOK
  <2>12. CASE ExecutorFails(r)
    BY <2>12, EndsType DEF ExecutorFails, ExecutorFailure, TypeOK,
       ExecutionStatus, Note
  <2>13. CASE ExecutorSucceeds(r)
    BY <2>13 DEF ExecutorSucceeds, TypeOK, Row, ExecutionStatus
  <2>14. CASE FinalizationRefused(r)
    BY <2>14 DEF FinalizationRefused, TypeOK
  <2>15. ASSUME NEW note \in Note, RecordFailure(r, note)
         PROVE  TypeOK'
    <3>1. row' \in [Runner -> Row]
      BY <2>15, ReleasedType DEF RecordFailure, TypeOK, Row, ExecutionStatus
    <3>2. QED
      BY <2>15, <3>1 DEF RecordFailure, LockTask, TypeOK
  <2>16. CASE CandidateRejected(r) \/ CommitDenied(r)
    BY <2>15, <2>16 DEF CandidateRejected, CommitDenied, Note
  <2>17. CASE CandidateVerified(r)
    BY <2>17 DEF CandidateVerified, TypeOK
  <2>18. CASE CommitCandidate(r)
    <3>1. job[r] \in Task /\ no[r] \in Number
      BY <2>18 DEF CommitCandidate, Ownership, Owns, HasJob, InTask
    <3>2. QED
      BY <2>18, <3>1 DEF CommitCandidate, TypeOK
  <2>19. CASE NothingToCommit(r)
    BY <2>19 DEF NothingToCommit, TypeOK
  <2>20. CASE RecordSuccess(r)
    <3>1. row[r] \in Row
      BY DEF TypeOK
    <3>2. \A made \in BOOLEAN :
            [row[r] EXCEPT !.status = "succeeded", !.note = "completed",
                           !.commit = made, !.lease = "completed"] \in Row
      BY <3>1 DEF Row, ExecutionStatus, Note, LeaseStatus
    <3> DEFINE made == <<job[r], no[r]>> \in git
    <3>3. made \in BOOLEAN
      OBVIOUS
    <3>4. row' = [row EXCEPT ![r] = [row[r] EXCEPT !.status = "succeeded",
                                         !.note = "completed", !.commit = made,
                                         !.lease = "completed"]]
      BY <2>20 DEF RecordSuccess
    <3> HIDE DEF made
    <3>5. [row[r] EXCEPT !.status = "succeeded", !.note = "completed",
                         !.commit = made, !.lease = "completed"] \in Row
      BY <3>2, <3>3
    <3>6. row' \in [Runner -> Row]
      BY <3>4, <3>5 DEF TypeOK
    <3>7. QED
      BY <2>20, <3>6 DEF RecordSuccess, LockTask, TypeOK
  <2>21. CASE Repair(r)
    <3> DEFINE claim == NewClaim("repair-planner", base[r], RepairLeaseTime)
    <3>1. claim \in Row
      BY NewClaimType DEF TypeOK, Owner
    <3>2. job[r] \in Task
      BY <2>21 DEF Repair, Ownership, Owns, HasJob, InTask
    <3>3. [attempt[job[r]] EXCEPT ![no[r]] = row[r]] \in [Number -> Row]
      BY <3>2 DEF TypeOK
    <3>4. PICK a \in Number :
            /\ no' = [no EXCEPT ![r] = a]
            /\ row' = [row EXCEPT ![r] = claim]
            /\ attempt' = [attempt EXCEPT ![job[r]] =
                  WithClaim([@ EXCEPT ![no[r]] = row[r]], base[r], a, claim)]
      BY <2>21 DEF Repair
    <3> HIDE DEF claim
    <3>5. WithClaim([attempt[job[r]] EXCEPT ![no[r]] = row[r]], base[r], a, claim)
            \in [Number -> Row]
      BY <3>1, <3>3, WithClaimType
    <3>6. attempt' \in [Task -> [Number -> Row]]
      BY <3>4, <3>5 DEF TypeOK
    <3>7. /\ no' \in [Runner -> Number \cup {0}]
          /\ row' \in [Runner -> Row]
      BY <3>1, <3>4 DEF TypeOK
    <3>8. QED
      <4>1. /\ task' \in [Task -> TaskStatus]
            /\ cached' \in [Runner -> TaskStatus]
            /\ pc' \in [Runner -> Location]
        BY <2>21 DEF Repair, TypeOK
      <4>2. /\ lock' \in [Task -> Runner \cup {NoRunner}]
            /\ base' \in [Runner -> Nat \cup {NoTx}]
            /\ repairs' \in [Runner -> Nat]
        BY <2>21 DEF Repair, TypeOK, Unlocked
      <4>3. QED
        BY <2>21, <3>6, <3>7, <4>1, <4>2 DEF Repair, TypeOK
  <2>22. CASE GiveUp(r)
    BY <2>22 DEF GiveUp, TypeOK
  <2>23. CASE RepairAssertion(r)
    BY <2>23, EndType DEF RepairAssertion, TypeOK
  <2>24. CASE SettleFailure(r)
    BY <2>24, EndType, TaskAfterType DEF SettleFailure, TypeOK, Ownership, Owns, HasJob, InTask
  <2>25. CASE SettleSuccess(r)
    BY <2>25, TaskAfterType DEF SettleSuccess, TypeOK, Ownership, Owns, HasJob, InTask, Unlocked
  <2>26. CASE SettleForfeit(r)
    BY <2>26, EndType, TaskAfterType DEF SettleForfeit, TypeOK, Ownership, Owns, HasJob, InTask
  <2>27. QED
    BY <1>5, <2>1, <2>2, <2>3, <2>4, <2>5, <2>6, <2>7, <2>8, <2>9, <2>10, <2>11,
       <2>12, <2>13, <2>14, <2>16, <2>17, <2>18, <2>19, <2>20, <2>21, <2>22,
       <2>23, <2>24, <2>25, <2>26
       DEF RunnerStep, ClaimStep, ExecuteStep, FinalizeStep, SettleStep
<1>6. ASSUME NEW r \in Runner, Crash(r)
      PROVE  TypeOK'
  BY <1>6, EndType DEF TypeOK, Crash, shared, repo
<1>7. QED
  BY <1>1, <1>2, <1>3, <1>4, <1>5, <1>6 DEF Next

-----------------------------------------------------------------------------
(* What a step of a runner leaves alone.                                   *)

RunnerAct(r) == StartRun(r) \/ RefuseRun(r) \/ RunnerStep(r) \/ Crash(r)

\* The other sessions, and the row locks they hold.
SessionFrame(r) ==
    /\ \A s \in Runner \ {r} :
        /\ pc'[s] = pc[s] /\ job'[s] = job[s] /\ no'[s] = no[s]
        /\ base'[s] = base[s] /\ row'[s] = row[s] /\ cached'[s] = cached[s]
    /\ \A t \in Task : lock'[t] # lock[t] => lock[t] \in {r, NoRunner}
    /\ now' = now

\* What a row says of its attempt, the lease apart.
Same(x, y) ==
    /\ x.status = y.status /\ x.note = y.note
    /\ x.commit = y.commit /\ x.owner = y.owner

\* A row keeps what it says, unless it is the runner's own attempt or a new one.
RowsFrame(r) ==
    \A t \in Task, a \in Number :
        \/ Same(attempt'[t][a], attempt[t][a])
        \/ /\ pc[r] \in Attempting /\ t = job[r] /\ a = no[r]
           /\ Same(attempt'[t][a], row[r])
        \/ /\ pc[r] \in Attempting \cup {"claimed"} /\ t = job[r] /\ lock[t] = r
           /\ Free(t, a) /\ ~Free(t, a)'

\* A task that was claimed stays claimed, and an attempt that was made stays.
RecordFrame ==
    /\ \A t \in Task : task[t] # "pending" => task'[t] # "pending"
    /\ \A t \in Task, a \in Number : ~Free(t, a) => ~Free(t, a)'

LEMMA SessionFrameStep ==
    ASSUME TypeOK, NEW r \in Runner, RunnerAct(r)
    PROVE  SessionFrame(r)
<1> USE DEF SessionFrame, TypeOK, session, counts
<1>1. CASE StartRun(r) \/ RefuseRun(r) \/ Stop(r) \/ Crash(r)
  BY <1>1 DEF StartRun, RefuseRun, Stop, Crash, End, Unlocked
<1>2. CASE ListReady(r)
  BY <1>2 DEF ListReady
<1>3. CASE ClaimStep(r)
  BY <1>3 DEF ClaimStep, LockForClaim, LockTask, LockRefused, ClaimRefused, Claim,
     CommitClaim, PackageRejected, End, Unlocked
<1>4. CASE ExecuteStep(r)
  <2>1. CASE LoseOwnership(r)
    BY <2>1 DEF LoseOwnership, LockTask
  <2>2. CASE CannotExecute(r) \/ ExecutorFails(r)
    <3>1. PICK status, note : ExecutionEnds(r, status, note)
      BY <2>2 DEF CannotExecute, ExecutorFails
    <3>2. /\ UNCHANGED <<now, job, no>>
          /\ base' = [base EXCEPT ![r] = now] \/ base' = base
      BY <2>2 DEF CannotExecute, ExecutorFails
    <3>3. /\ LockTask(r) \/ UNCHANGED lock
          /\ cached' = [cached EXCEPT ![r] = "blocked"] \/ UNCHANGED cached
          /\ pc' = [pc EXCEPT ![r] = "settling"]
      BY <3>1 DEF ExecutionEnds
    <3>4. \E x : row' = [row EXCEPT ![r] = x]
      BY <3>1 DEF ExecutionEnds
    <3>5. \A t \in Task : lock'[t] # lock[t] => lock[t] \in {r, NoRunner}
      BY <3>3 DEF LockTask
    <3>6. QED
      BY <3>2, <3>3, <3>4, <3>5
  <2>3. CASE StartExecutor(r) \/ ExecutorSucceeds(r)
    BY <2>3 DEF StartExecutor, ExecutorSucceeds
  <2>4. QED
    BY <1>4, <2>1, <2>2, <2>3 DEF ExecuteStep
<1>5. CASE FinalizeStep(r)
  <2>1. ASSUME NEW note, RecordFailure(r, note)
        PROVE  SessionFrame(r)
    BY <2>1 DEF RecordFailure, LockTask
  <2>2. CASE RecordSuccess(r) \/ CommitCandidate(r)
    BY <2>2 DEF RecordSuccess, CommitCandidate, LockTask
  <2>3. CASE FinalizationRefused(r) \/ CandidateVerified(r) \/ NothingToCommit(r)
    BY <2>3 DEF FinalizationRefused, CandidateVerified, NothingToCommit
  <2>4. QED
    BY <1>5, <2>1, <2>2, <2>3 DEF FinalizeStep, CandidateRejected, CommitDenied
<1>6. CASE SettleStep(r)
  BY <1>6 DEF SettleStep, Repair, GiveUp, RepairAssertion, SettleFailure,
     SettleSuccess, SettleForfeit, End, Unlocked
<1>7. QED
  BY <1>1, <1>2, <1>3, <1>4, <1>5, <1>6 DEF RunnerAct, RunnerStep

LEMMA WithClaimKeeps ==
    ASSUME NEW rows \in [Number -> Row], NEW time, NEW a \in Number,
           NEW claim \in Row, NEW b \in Number
    PROVE  /\ b = a => WithClaim(rows, time, a, claim)[b] = claim
           /\ b # a => Same(WithClaim(rows, time, a, claim)[b], rows[b])
BY DEF WithClaim, Row, Same

LEMMA RowsFrameStep ==
    ASSUME TypeOK, Ownership, TypeOK', NEW r \in Runner, RunnerAct(r)
    PROVE  RowsFrame(r)
<1>1. CASE attempt' = attempt
  BY <1>1 DEF RowsFrame, Same
<1>2. CASE CommitClaim(r) \/ PackageRejected(r)
  <2>1. /\ job[r] \in Task /\ no[r] \in Number /\ pc[r] = "claimed"
        /\ lock[job[r]] = r /\ Free(job[r], no[r])
    BY <1>2 DEF CommitClaim, PackageRejected, Ownership, Owns, HasJob, InTask,
       Claiming, ClaimHoldsLock, ClaimIsNew
  <2>2. PICK claim \in Row :
          /\ claim.status # "none"
          /\ attempt' = [attempt EXCEPT
                           ![job[r]] = WithClaim(@, base[r], no[r], claim)]
    <3>1. CASE CommitClaim(r)
      BY <3>1 DEF CommitClaim, Ownership, Owns, ClaimIsNew, TypeOK
    <3>2. CASE PackageRejected(r)
      <4> DEFINE claim == [row[r] EXCEPT !.status = "failed",
                             !.note = "package_construction_failed",
                             !.lease = Released(r)]
      <4>1. row[r] \in Row /\ Released(r) \in LeaseStatus
        BY ReleasedType DEF TypeOK
      <4>2. claim \in Row /\ claim.status = "failed"
        BY <4>1 DEF Row, ExecutionStatus, Note
      <4>3. QED
        BY <3>2, <4>2 DEF PackageRejected
    <3>3. QED
      BY <1>2, <3>1, <3>2
  <2>3. attempt[job[r]] \in [Number -> Row]
    BY <2>1 DEF TypeOK
  <2>4. \A t \in Task, a \in Number :
          attempt'[t][a] = IF t = job[r]
                           THEN WithClaim(attempt[t], base[r], no[r], claim)[a]
                           ELSE attempt[t][a]
    BY <2>1, <2>2 DEF TypeOK
  <2>5. QED
    BY <2>1, <2>2, <2>3, <2>4, WithClaimKeeps DEF RowsFrame, Free, Same
<1>3. CASE SettleFailure(r) \/ SettleSuccess(r)
  BY <1>3 DEF SettleFailure, SettleSuccess, RowsFrame, Same, TypeOK, Attempting
<1>4. CASE Repair(r)
  <2> DEFINE claim == NewClaim("repair-planner", base[r], RepairLeaseTime)
  <2>1. job[r] \in Task /\ no[r] \in Number /\ pc[r] \in Attempting
    BY <1>4 DEF Repair, Ownership, Owns, HasJob, InTask, Attempting
  <2>2. claim \in Row /\ claim.status = "running"
    BY NewClaimType, BoundAssumption DEF TypeOK, Owner, NewClaim
  <2> HIDE DEF claim
  <2> DEFINE rows == [attempt[job[r]] EXCEPT ![no[r]] = row[r]]
  <2>3. PICK a \in Number :
          /\ Free(job[r], a)
          /\ attempt' = [attempt EXCEPT ![job[r]] = WithClaim(rows, base[r], a, claim)]
    BY <1>4 DEF Repair, IsNext, claim
  <2>4. /\ rows \in [Number -> Row]
        /\ \A b \in Number :
             rows[b] = IF b = no[r] THEN row[r] ELSE attempt[job[r]][b]
    BY <2>1 DEF TypeOK
  <2>5. lock[job[r]] = r
    BY <1>4 DEF Repair
  <2>6. \A t \in Task, b \in Number :
          attempt'[t][b] = IF t = job[r] THEN WithClaim(rows, base[r], a, claim)[b]
                           ELSE attempt[t][b]
    BY <2>1, <2>3 DEF TypeOK
  <2> HIDE DEF rows
  <2>7. \A b \in Number \ {a} : Same(attempt'[job[r]][b], rows[b])
    BY <2>1, <2>2, <2>3, <2>4, <2>6, WithClaimKeeps
  <2>8. attempt'[job[r]][a].status = "running"
    BY <2>1, <2>2, <2>3, <2>4, <2>6, WithClaimKeeps
  <2>9. QED
    BY <2>1, <2>3, <2>4, <2>5, <2>6, <2>7, <2>8 DEF RowsFrame, Free, Same
<1>5. QED
  BY <1>1, <1>2, <1>3, <1>4 DEF RunnerAct, RunnerStep, ClaimStep, ExecuteStep,
     FinalizeStep, SettleStep, StartRun, RefuseRun, Stop, ListReady, LockForClaim,
     LockRefused, ClaimRefused, Claim, LoseOwnership, CannotExecute,
     StartExecutor, ExecutorFails, ExecutorSucceeds, FinalizationRefused,
     CandidateRejected, CandidateVerified, CommitDenied, CommitCandidate,
     NothingToCommit, RecordSuccess, RecordFailure, GiveUp, RepairAssertion,
     SettleForfeit, Crash, shared

LEMMA SweepKeeps ==
    ASSUME TypeOK, NEW t \in Task, NEW a \in Number,
           SweepRead(t, a) \/ SweepWrite(t, a)
    PROVE  \A u \in Task, b \in Number : Same(attempt'[u][b], attempt[u][b])
<1>1. CASE SweepRead(t, a)
  BY <1>1 DEF SweepRead, shared, Same
<1>2. CASE SweepWrite(t, a)
  <2>1. Same([attempt[t][a] EXCEPT !.lease = "expired"], attempt[t][a])
    BY DEF TypeOK, Row, Same
  <2>2. \A u \in Task, b \in Number :
          attempt'[u][b] = IF u = t /\ b = a
                           THEN [attempt[t][a] EXCEPT !.lease = "expired"]
                           ELSE attempt[u][b]
    BY <1>2 DEF SweepWrite, TypeOK
  <2>3. QED
    BY <2>1, <2>2 DEF Same
<1>3. QED
  BY <1>1, <1>2

LEMMA RecordFrameStep ==
    ASSUME TypeOK, Ownership, TypeOK', NEW r \in Runner, RunnerAct(r)
    PROVE  RecordFrame
<1>1. RowsFrame(r)
  BY RowsFrameStep
<1>2. ASSUME NEW t \in Task, NEW a \in Number, ~Free(t, a)
      PROVE  ~Free(t, a)'
  <2>1. pc[r] \in Attempting => row[r].status # "none"
    BY DEF Ownership, Owns, AttemptIsRunning
  <2>2. QED
    BY <1>1, <1>2, <2>1 DEF RowsFrame, Free, Same
<1>3. ASSUME NEW t \in Task, task[t] # "pending"
      PROVE  task'[t] # "pending"
  <2>1. CASE task' = task
    BY <1>3, <2>1
  <2>2. CASE CommitClaim(r) \/ PackageRejected(r) \/ Repair(r)
    BY <1>3, <2>2 DEF CommitClaim, PackageRejected, Repair, TypeOK
  <2>3. CASE SettleFailure(r) \/ SettleSuccess(r) \/ SettleForfeit(r)
    <3>1. TaskAfter(r) # "pending"
      BY <2>3 DEF SettleFailure, SettleSuccess, SettleForfeit, TaskAfter, Ownership,
         Owns, NotPending, Attempting
    <3>2. QED
      BY <1>3, <2>3, <3>1 DEF SettleFailure, SettleSuccess, SettleForfeit, TypeOK
  <2>4. QED
    BY <2>1, <2>2, <2>3 DEF RunnerAct, RunnerStep, ClaimStep, ExecuteStep,
       FinalizeStep, SettleStep, StartRun, RefuseRun, Stop, ListReady, LockForClaim,
       LockRefused, ClaimRefused, Claim, LoseOwnership, CannotExecute,
       StartExecutor, ExecutorFails, ExecutorSucceeds, FinalizationRefused,
       CandidateRejected, CandidateVerified, CommitDenied, CommitCandidate,
       NothingToCommit, RecordSuccess, RecordFailure, GiveUp, RepairAssertion,
       Crash, shared
<1>4. QED
  BY <1>2, <1>3 DEF RecordFrame

-----------------------------------------------------------------------------
(* Ownership.                                                              *)

LEMMA OthersKeepOwnership ==
    ASSUME TypeOK, Ownership, NEW r \in Runner, NEW s \in Runner \ {r},
           SessionFrame(r), RowsFrame(r), RecordFrame
    PROVE  Owns(s)'
<1>1. HasJob(s) /\ ClaimHoldsLock(s) /\ ClaimIsNew(s) /\ AttemptIsRunning(s)
      /\ NotPending(s)
  BY DEF Ownership, Owns
<1>2. HasJob(s)'
  BY <1>1 DEF HasJob, InTask, SessionFrame
<1>3. ClaimHoldsLock(s)'
  BY <1>1, RunnerAssumption
     DEF ClaimHoldsLock, HasJob, InTask, Claiming, SessionFrame
<1>4. ClaimIsNew(s)'
  <2> SUFFICES ASSUME pc[s] = "claimed" PROVE ClaimIsNew(s)'
    BY DEF ClaimIsNew, SessionFrame
  <2>1. job[s] \in Task /\ no[s] \in Number /\ lock[job[s]] = s /\ Free(job[s], no[s])
    BY <1>1 DEF HasJob, InTask, Claiming, ClaimHoldsLock, ClaimIsNew
  <2>2. pc[r] \in Attempting => ~Free(job[r], no[r])
    BY DEF Ownership, Owns, AttemptIsRunning, Free
  <2>3. Same(attempt'[job[s]][no[s]], attempt[job[s]][no[s]])
    BY <2>1, <2>2 DEF RowsFrame
  <2>4. QED
    BY <1>1, <2>1, <2>3 DEF ClaimIsNew, SessionFrame, Free, Same
<1>5. AttemptIsRunning(s)'
  <2> SUFFICES ASSUME pc[s] \in Attempting PROVE AttemptIsRunning(s)'
    BY DEF AttemptIsRunning, SessionFrame
  <2>1. job[s] \in Task /\ no[s] \in Number /\ ~Free(job[s], no[s])
    BY <1>1 DEF HasJob, InTask, AttemptIsRunning, Free
  <2>2. ~(pc[r] \in Attempting /\ job[s] = job[r] /\ no[s] = no[r])
    BY DEF Ownership, AttemptsDiffer
  <2>3. Same(attempt'[job[s]][no[s]], attempt[job[s]][no[s]])
    BY <2>1, <2>2 DEF RowsFrame
  <2>4. QED
    BY <1>1, <2>3 DEF AttemptIsRunning, SessionFrame, Same
<1>6. NotPending(s)'
  BY <1>1 DEF NotPending, HasJob, InTask, SessionFrame, RecordFrame
<1>7. QED
  BY <1>2, <1>3, <1>4, <1>5, <1>6 DEF Owns

\* A runner goes on with its attempt, drops it, or begins a new one.
SameOrNew(r) ==
    pc'[r] \in Attempting =>
        \/ pc[r] \in Attempting /\ job'[r] = job[r] /\ no'[r] = no[r]
        \/ Free(job'[r], no'[r])

\* The attempt goes on: its row in the database, and what it is, stay.
Continues(r) ==
    /\ pc[r] \in Attempting /\ pc'[r] \in Attempting
    /\ job'[r] = job[r] /\ no'[r] = no[r]
    /\ attempt' = attempt /\ task' = task
    /\ row'[r].owner = row[r].owner /\ row'[r].status # "none"
    /\ cached'[r] \in {cached[r], "blocked", "passed"}

LEMMA ContinuesStep ==
    ASSUME TypeOK, Ownership, NEW r \in Runner,
           \/ LoseOwnership(r) \/ CannotExecute(r) \/ StartExecutor(r)
           \/ ExecutorFails(r) \/ ExecutorSucceeds(r) \/ FinalizeStep(r) \/ GiveUp(r)
    PROVE  Continues(r)
<1> USE Words DEF shared, session
<1>1. row[r] \in Row
  BY DEF TypeOK
<1>2. pc[r] \in Attempting => row[r].status # "none"
  BY DEF Ownership, Owns, AttemptIsRunning
<1>3. CASE LoseOwnership(r) \/ StartExecutor(r)
  BY <1>1, <1>2, <1>3 DEF LoseOwnership, StartExecutor, Continues, TypeOK, Row
<1>4. CASE CannotExecute(r) \/ ExecutorFails(r)
  <2>1. PICK status \in {"failed", "cancelled", "timeout"}, note \in Note :
          ExecutionEnds(r, status, note)
    BY <1>4 DEF CannotExecute, ExecutorFails, ExecutorFailure, Note
  <2>2. /\ row'[r].owner = row[r].owner /\ row'[r].status = status
        /\ cached'[r] \in {cached[r], "blocked"} /\ pc'[r] = "settling"
    <3>1. \/ row' = [row EXCEPT ![r] = [@ EXCEPT !.status = status, !.note = note,
                                              !.lease = "released"]]
          \/ row' = [row EXCEPT ![r] = [@ EXCEPT !.status = status, !.note = note]]
      BY <2>1 DEF ExecutionEnds
    <3>2. row'[r] = [row[r] EXCEPT !.status = status, !.note = note,
                                  !.lease = "released"]
          \/ row'[r] = [row[r] EXCEPT !.status = status, !.note = note]
      BY <3>1 DEF TypeOK
    <3>3. row'[r].owner = row[r].owner /\ row'[r].status = status
      BY <1>1, <3>2 DEF Row
    <3>4. cached'[r] \in {cached[r], "blocked"} /\ pc'[r] = "settling"
      BY <2>1 DEF ExecutionEnds, TypeOK
    <3>5. QED
      BY <3>3, <3>4
  <2>3. QED
    BY <1>4, <2>2 DEF CannotExecute, ExecutorFails, Continues
<1>5. CASE ExecutorSucceeds(r)
  BY <1>1, <1>5 DEF ExecutorSucceeds, Continues, TypeOK, Row
<1>6. ASSUME NEW note, RecordFailure(r, note), pc[r] \in Attempting
      PROVE  Continues(r)
  BY <1>1, <1>6 DEF RecordFailure, Continues, TypeOK, Row
<1>7. CASE FinalizeStep(r)
  <2>1. CASE RecordSuccess(r)
    BY <1>1, <2>1 DEF RecordSuccess, Continues, TypeOK, Row
  <2>2. CASE CommitCandidate(r)
    BY <1>1, <1>2, <2>2 DEF CommitCandidate, Continues, TypeOK, Row
  <2>3. CASE FinalizationRefused(r) \/ CandidateVerified(r) \/ NothingToCommit(r)
    BY <1>2, <2>3 DEF FinalizationRefused, CandidateVerified, NothingToCommit,
       Continues, TypeOK
  <2>4. QED
    BY <1>6, <1>7, <2>1, <2>2, <2>3 DEF FinalizeStep, CandidateRejected, CommitDenied
<1>8. CASE GiveUp(r)
  BY <1>2, <1>8 DEF GiveUp, Continues, TypeOK
<1>9. QED
  BY <1>3, <1>4, <1>5, <1>7, <1>8

LEMMA RunnerKeepsOwnership ==
    ASSUME TypeOK, Ownership, TypeOK', NEW r \in Runner, RunnerAct(r)
    PROVE  Owns(r)' /\ SameOrNew(r)
<1> USE DEF shared, session
<1>1. HasJob(r) /\ ClaimHoldsLock(r) /\ ClaimIsNew(r) /\ AttemptIsRunning(r)
      /\ NotPending(r)
  BY DEF Ownership, Owns
<1>2. ASSUME pc'[r] \in Ended \cup {"idle"}
      PROVE  Owns(r)' /\ SameOrNew(r)
  BY <1>2 DEF Owns, HasJob, InTask, ClaimHoldsLock, ClaimIsNew, AttemptIsRunning,
     NotPending, SameOrNew, Ended, Claiming, Attempting
<1>3. ASSUME Continues(r)
      PROVE  Owns(r)' /\ SameOrNew(r)
  BY <1>1, <1>3 DEF Continues, Owns, HasJob, InTask, ClaimHoldsLock, ClaimIsNew,
     AttemptIsRunning, NotPending, SameOrNew, Attempting, Claiming
<1>4. CASE StartRun(r) \/ RefuseRun(r) \/ Stop(r) \/ Crash(r) \/ LockRefused(r)
           \/ ClaimRefused(r) \/ PackageRejected(r) \/ RepairAssertion(r)
           \/ SettleFailure(r) \/ SettleSuccess(r) \/ SettleForfeit(r)
  <2>1. pc'[r] \in Ended \cup {"idle"}
    BY <1>4 DEF StartRun, RefuseRun, Stop, Crash, LockRefused, ClaimRefused,
       PackageRejected, RepairAssertion, SettleFailure, SettleSuccess,
       SettleForfeit, End, TypeOK, Ended
  <2>2. QED
    BY <1>2, <2>1
<1>5. CASE ListReady(r)
  BY <1>5 DEF ListReady, Ready, TypeOK, Owns, HasJob, InTask, ClaimHoldsLock,
     ClaimIsNew, AttemptIsRunning, NotPending, SameOrNew, Claiming, Attempting
<1>6. CASE LockForClaim(r)
  BY <1>1, <1>6 DEF LockForClaim, LockTask, TypeOK, Owns, HasJob, InTask,
     ClaimHoldsLock, ClaimIsNew, AttemptIsRunning, NotPending, SameOrNew, Claiming,
     Attempting
<1>7. CASE Claim(r)
  <2>1. PICK a \in Number : Free(job[r], a) /\ no' = [no EXCEPT ![r] = a]
    BY <1>7 DEF Claim, IsNext
  <2>2. /\ pc'[r] = "claimed" /\ no'[r] = a /\ cached'[r] = "running"
        /\ row'[r] = NewClaim("guarded-run", base[r], LeaseTime)
        /\ job' = job /\ attempt' = attempt /\ lock' = lock
    BY <1>7, <2>1 DEF Claim, TypeOK
  <2>3. job[r] \in Task /\ lock[job[r]] = r
    BY <1>1, <1>7 DEF Claim, HasJob, InTask, Claiming, ClaimHoldsLock
  <2>4. ClaimIsNew(r)'
    BY <2>1, <2>2 DEF ClaimIsNew, Free, NewClaim
  <2>5. QED
    BY <2>2, <2>3, <2>4 DEF Owns, HasJob, InTask, ClaimHoldsLock, AttemptIsRunning,
       NotPending, SameOrNew, Claiming, Attempting
<1>8. CASE CommitClaim(r)
  <2>1. job[r] \in Task /\ no[r] \in Number /\ Free(job[r], no[r])
    BY <1>1, <1>8 DEF CommitClaim, HasJob, InTask, Claiming, ClaimIsNew
  <2>2. /\ pc'[r] = "owned" /\ job' = job /\ no' = no /\ row' = row
        /\ cached'[r] = "running" /\ task'[job[r]] = "running"
    BY <1>1, <1>8, <2>1 DEF CommitClaim, NotPending, TypeOK
  <2>3. attempt'[job[r]] = WithClaim(attempt[job[r]], base[r], no[r], row[r])
    BY <1>8, <2>1 DEF CommitClaim, TypeOK
  <2>4. attempt'[job[r]][no[r]] = row[r]
    BY <2>1, <2>3 DEF WithClaim
  <2>5. row[r].status = "running" /\ row[r].note = "none"
    BY <1>1, <1>8 DEF CommitClaim, ClaimIsNew
  <2>6. QED
    BY <2>1, <2>2, <2>4, <2>5 DEF Owns, HasJob, InTask, ClaimHoldsLock, ClaimIsNew,
       AttemptIsRunning, NotPending, SameOrNew, Free, Claiming, Attempting
<1>9. CASE Repair(r)
  <2> DEFINE claim == NewClaim("repair-planner", base[r], RepairLeaseTime)
  <2>1. job[r] \in Task
    BY <1>1, <1>9 DEF Repair, HasJob, InTask, Attempting
  <2>2. PICK a \in Number :
          /\ Free(job[r], a)
          /\ no' = [no EXCEPT ![r] = a]
          /\ row' = [row EXCEPT ![r] = claim]
          /\ attempt' = [attempt EXCEPT ![job[r]] =
                 WithClaim([@ EXCEPT ![no[r]] = row[r]], base[r], a, claim)]
    BY <1>9 DEF Repair, IsNext
  <2>3. /\ pc'[r] = "owned" /\ job' = job /\ no'[r] = a /\ row'[r] = claim
        /\ cached'[r] = "running" /\ task'[job[r]] = "running"
    BY <1>9, <2>1, <2>2 DEF Repair, TypeOK
  <2>4. attempt'[job[r]][a] = claim
    BY <2>1, <2>2 DEF WithClaim, TypeOK
  <2>5. claim.status = "running" /\ claim.note = "none"
    BY DEF NewClaim
  <2> HIDE DEF claim
  <2>6. QED
    BY <2>1, <2>2, <2>3, <2>4, <2>5 DEF Owns, HasJob, InTask, ClaimHoldsLock,
       ClaimIsNew, AttemptIsRunning, NotPending, SameOrNew, Free, Claiming,
       Attempting
<1>10. CASE \/ LoseOwnership(r) \/ CannotExecute(r) \/ StartExecutor(r)
            \/ ExecutorFails(r) \/ ExecutorSucceeds(r) \/ FinalizeStep(r)
            \/ GiveUp(r)
  BY <1>3, <1>10, ContinuesStep
<1>11. QED
  BY <1>4, <1>5, <1>6, <1>7, <1>8, <1>9, <1>10 DEF RunnerAct, RunnerStep,
     ClaimStep, ExecuteStep, SettleStep

LEMMA OwnershipStep == TypeOK /\ Ownership /\ TypeOK' /\ [Next]_vars => Ownership'
<1> SUFFICES ASSUME TypeOK, Ownership, TypeOK', [Next]_vars PROVE Ownership'
  OBVIOUS
<1>1. CASE UNCHANGED vars \/ Tick
  <2>1. UNCHANGED <<shared, lock, pc, session>>
    BY <1>1 DEF vars, Tick
  <2>2. QED
    BY <2>1 DEF Ownership, Owns, HasJob, InTask, ClaimHoldsLock, ClaimIsNew,
       AttemptIsRunning, NotPending, AttemptsDiffer, Free, shared, session
<1>2. CASE Cleanup
  <2>1. PICK t \in Task, a \in Number : SweepRead(t, a) \/ SweepWrite(t, a)
    BY <1>2 DEF Cleanup
  <2>2. UNCHANGED <<task, lock, pc, session>>
    BY <2>1 DEF SweepRead, SweepWrite, shared
  <2>3. \A u \in Task, b \in Number : Same(attempt'[u][b], attempt[u][b])
    BY <2>1, SweepKeeps
  <2>4. ASSUME NEW s \in Runner
        PROVE  Owns(s)'
    <3>1. HasJob(s) /\ ClaimHoldsLock(s) /\ ClaimIsNew(s) /\ AttemptIsRunning(s)
          /\ NotPending(s)
      BY DEF Ownership, Owns
    <3>2. ClaimIsNew(s)'
      BY <2>2, <2>3, <3>1 DEF ClaimIsNew, HasJob, InTask, Claiming, Free, Same, session
    <3>3. AttemptIsRunning(s)'
      BY <2>2, <2>3, <3>1 DEF AttemptIsRunning, HasJob, InTask, Same, session
    <3>4. QED
      BY <2>2, <3>1, <3>2, <3>3 DEF Owns, HasJob, InTask, ClaimHoldsLock,
         NotPending, session
  <2>5. QED
    BY <2>2, <2>4 DEF Ownership, AttemptsDiffer, session
<1>3. ASSUME NEW r \in Runner, RunnerAct(r)
      PROVE  Ownership'
  <2>1. SessionFrame(r) /\ RowsFrame(r) /\ RecordFrame
    BY <1>3, SessionFrameStep, RowsFrameStep, RecordFrameStep
  <2>2. \A s \in Runner \ {r} : Owns(s)'
    BY <2>1, OthersKeepOwnership
  <2>3. Owns(r)' /\ SameOrNew(r)
    BY <1>3, RunnerKeepsOwnership
  <2>4. AttemptsDiffer'
    <3>1. \A s \in Runner : pc[s] \in Attempting => ~Free(job[s], no[s])
      BY DEF Ownership, Owns, AttemptIsRunning, Free
    <3>2. QED
      BY <2>1, <2>3, <3>1 DEF Ownership, AttemptsDiffer, SameOrNew, SessionFrame
  <2>5. QED
    BY <2>2, <2>3, <2>4 DEF Ownership
<1>4. QED
  BY <1>1, <1>2, <1>3 DEF Next, RunnerAct

LEMMA InitOwnership == Init => Ownership
BY DEF Init, Ownership, Owns, HasJob, InTask, ClaimHoldsLock, ClaimIsNew,
   AttemptIsRunning, NotPending, AttemptsDiffer, Ended, Claiming, Attempting

\* Every variable has its type.
THEOREM TypeCorrect == Spec => []TypeOK
<1>1. Init => TypeOK /\ Ownership
  BY InitType, InitOwnership
<1>2. TypeOK /\ Ownership /\ [Next]_vars => (TypeOK /\ Ownership)'
  BY TypeStep, OwnershipStep
<1>3. QED
  BY <1>1, <1>2, PTL DEF Spec

\* What a runner works on is its own: its attempt is "running" in the database
\* until it settles it, and no two runners share an attempt.
THEOREM OwnershipHolds == Spec => []Ownership
<1>1. Init => TypeOK /\ Ownership
  BY InitType, InitOwnership
<1>2. TypeOK /\ Ownership /\ [Next]_vars => (TypeOK /\ Ownership)'
  BY TypeStep, OwnershipStep
<1>3. QED
  BY <1>1, <1>2, PTL DEF Spec

-----------------------------------------------------------------------------
(* Evidence: a passed task has a verified attempt, and nothing is attempted *)
(* before its dependencies have one.  EvidenceInv is inductive relative to  *)
(* the invariants above.                                                    *)

\* What is proved stays proved.
EvidenceKept == \A t \in Task : HasEvidence(t) => HasEvidence(t)'

LEMMA SameEvidence ==
    ASSUME git \subseteq git', NEW t \in Task,
           \A a \in Number :
               Evidence(t, a) => Same(attempt'[t][a], attempt[t][a])
    PROVE  HasEvidence(t) => HasEvidence(t)'
BY DEF HasEvidence, Evidence, Same

LEMMA GitGrows ==
    ASSUME NEW r \in Runner, RunnerAct(r)
    PROVE  git \subseteq git'
<1>1. CASE CommitCandidate(r)
  BY <1>1 DEF CommitCandidate
<1>2. CASE git' = git
  BY <1>2
<1>3. QED
  BY <1>1, <1>2 DEF RunnerAct, RunnerStep, ClaimStep, ExecuteStep, FinalizeStep,
     SettleStep, StartRun, RefuseRun, Stop, ListReady, LockForClaim, LockRefused,
     ClaimRefused, Claim, CommitClaim, PackageRejected, LoseOwnership,
     CannotExecute, StartExecutor, ExecutorFails, ExecutorSucceeds,
     FinalizationRefused, CandidateRejected, CandidateVerified, CommitDenied,
     NothingToCommit, RecordSuccess, RecordFailure, Repair, GiveUp,
     RepairAssertion, SettleFailure, SettleSuccess, SettleForfeit, Crash, repo

LEMMA EvidenceKeptStep ==
    ASSUME TypeOK, Ownership, TypeOK', NEW r \in Runner, RunnerAct(r)
    PROVE  EvidenceKept
<1>1. git \subseteq git' /\ RowsFrame(r)
  BY GitGrows, RowsFrameStep
<1>2. pc[r] \in Attempting => attempt[job[r]][no[r]].status = "running"
  BY DEF Ownership, Owns, AttemptIsRunning
<1>3. ASSUME NEW t \in Task, NEW a \in Number, Evidence(t, a)
      PROVE  Same(attempt'[t][a], attempt[t][a])
  BY <1>1, <1>2, <1>3 DEF RowsFrame, Evidence, Free
<1>4. QED
  BY <1>1, <1>3, SameEvidence DEF EvidenceKept

-----------------------------------------------------------------------------
(* What each session is about to record.                                   *)

Record(r) ==
    pc[r] \in Attempting =>
        /\ row[r].commit => <<job[r], no[r]>> \in git
        /\ \/ row[r].note # "completed" /\ cached[r] # "passed"
           \/ /\ pc[r] = "settling"
              /\ row[r].note = "completed" /\ cached[r] = "passed"
              /\ row[r].status = "succeeded"

LEMMA RecordOf ==
    /\ PendingRecord <=> \A r \in Runner : Record(r)
    /\ PendingRecord' <=> \A r \in Runner : Record(r)'
BY DEF PendingRecord, Record

LEMMA RecordStep ==
    ASSUME TypeOK, Ownership, NEW r \in Runner, Record(r), RunnerAct(r)
    PROVE  Record(r)'
<1> USE DEF shared, session, repo
<1>1. row[r] \in Row
  BY DEF TypeOK
<1>2. CASE pc'[r] \notin Attempting
  BY <1>2 DEF Record
<1>3. CASE CommitClaim(r)
  <2>1. row' = row /\ cached' = cached /\ pc[r] = "claimed"
    BY <1>3 DEF CommitClaim
  <2>2. ~row[r].commit /\ row[r].note = "none" /\ cached[r] = "running"
    BY <2>1 DEF Ownership, Owns, ClaimIsNew, NotPending
  <2>3. QED
    BY <2>1, <2>2 DEF Record
<1>4. CASE Repair(r)
  <2>1. row'[r] = NewClaim("repair-planner", base[r], RepairLeaseTime)
        /\ cached'[r] = "running"
    BY <1>4 DEF Repair, TypeOK
  <2>2. QED
    BY <2>1 DEF Record, NewClaim
<1>5. CASE LoseOwnership(r) \/ StartExecutor(r) \/ ExecutorSucceeds(r)
  <2>1. /\ pc[r] \in Attempting /\ pc[r] # "settling"
        /\ job' = job /\ no' = no /\ git' = git
        /\ cached'[r] \in {cached[r], "blocked"}
    BY <1>5 DEF LoseOwnership, StartExecutor, ExecutorSucceeds, TypeOK, Attempting
  <2>2. \/ row'[r] = row[r]
        \/ row'[r] = [row[r] EXCEPT !.expires = now + RenewTime]
        \/ row'[r] = [row[r] EXCEPT !.status = "succeeded"]
    BY <1>5 DEF LoseOwnership, StartExecutor, ExecutorSucceeds, TypeOK
  <2>3. row'[r].commit = row[r].commit /\ row'[r].note = row[r].note
    BY <1>1, <2>2 DEF Row
  <2>4. QED
    BY <2>1, <2>3 DEF Record
<1>6. CASE CannotExecute(r) \/ ExecutorFails(r)
  <2>1. PICK status \in ExecutionStatus, note \in Note \ {"completed"} :
          ExecutionEnds(r, status, note)
    BY <1>6 DEF CannotExecute, ExecutorFails, ExecutorFailure, ExecutionStatus, Note
  <2>2. \/ row'[r] = [row[r] EXCEPT !.status = status, !.note = note,
                                   !.lease = "released"]
        \/ row'[r] = [row[r] EXCEPT !.status = status, !.note = note]
    BY <2>1 DEF ExecutionEnds, TypeOK
  <2>3. row'[r].commit = row[r].commit /\ row'[r].note = note
    BY <1>1, <2>2 DEF Row
  <2>4. cached'[r] \in {cached[r], "blocked"}
    BY <2>1 DEF ExecutionEnds, TypeOK
  <2>5. pc[r] \in Attempting /\ pc[r] # "settling"
        /\ job' = job /\ no' = no /\ git' = git
    BY <1>6 DEF CannotExecute, ExecutorFails, Attempting
  <2>6. QED
    BY <2>3, <2>4, <2>5 DEF Record
<1>7. ASSUME NEW note \in Note \ {"completed"}, RecordFailure(r, note),
             pc[r] \in Attempting, pc[r] # "settling"
      PROVE  Record(r)'
  <2>1. row'[r] = [row[r] EXCEPT !.status = "failed", !.note = note,
                                !.lease = Released(r)]
    BY <1>7 DEF RecordFailure, TypeOK
  <2>2. row'[r].commit = row[r].commit /\ row'[r].note = note
    BY <1>1, <2>1 DEF Row
  <2>3. QED
    BY <1>7, <2>2 DEF RecordFailure, Record, TypeOK
<1>8. CASE CandidateRejected(r) \/ CommitDenied(r)
  BY <1>7, <1>8 DEF CandidateRejected, CommitDenied, Note, Attempting
<1>9. CASE CommitCandidate(r)
  BY <1>9 DEF CommitCandidate, Record, Attempting
<1>10. CASE RecordSuccess(r)
  <2>1. row'[r] = [row[r] EXCEPT !.status = "succeeded", !.note = "completed",
                                !.commit = <<job[r], no[r]>> \in git,
                                !.lease = "completed"]
    BY <1>10 DEF RecordSuccess, TypeOK
  <2>2. /\ row'[r].commit = (<<job[r], no[r]>> \in git)
        /\ row'[r].note = "completed" /\ row'[r].status = "succeeded"
    BY <1>1, <2>1 DEF Row
  <2>3. QED
    BY <1>10, <2>2 DEF RecordSuccess, Record, TypeOK, Attempting
<1>11. CASE FinalizationRefused(r) \/ CandidateVerified(r) \/ NothingToCommit(r)
            \/ GiveUp(r)
  BY <1>11 DEF FinalizationRefused, CandidateVerified, NothingToCommit, GiveUp,
     Record, Attempting
<1>12. CASE \/ StartRun(r) \/ RefuseRun(r) \/ Stop(r) \/ Crash(r) \/ ListReady(r)
            \/ LockForClaim(r) \/ LockRefused(r) \/ ClaimRefused(r) \/ Claim(r)
            \/ PackageRejected(r) \/ RepairAssertion(r) \/ SettleFailure(r)
            \/ SettleSuccess(r) \/ SettleForfeit(r)
  <2>1. pc'[r] \notin Attempting
    BY <1>12 DEF StartRun, RefuseRun, Stop, Crash, ListReady, LockForClaim,
       LockRefused, ClaimRefused, Claim, PackageRejected, RepairAssertion,
       SettleFailure, SettleSuccess, SettleForfeit, End, TypeOK, Attempting
  <2>2. QED
    BY <1>2, <2>1
<1>13. QED
  BY <1>3, <1>4, <1>5, <1>6, <1>8, <1>9, <1>10, <1>11, <1>12 DEF RunnerAct,
     RunnerStep, ClaimStep, ExecuteStep, FinalizeStep, SettleStep

-----------------------------------------------------------------------------
(* A passed task has its evidence.                                         *)

LEMMA SettledEvidence ==
    ASSUME TypeOK, Ownership, PendingRecord, NEW r \in Runner,
           SettleFailure(r) \/ SettleSuccess(r) \/ SettleForfeit(r),
           cached[r] = "passed"
    PROVE  \A t \in Task : t = job[r] => HasEvidence(t)'
<1>1. /\ job[r] \in Task /\ no[r] \in Number
      /\ pc[r] \in Attempting
  BY DEF Ownership, Owns, HasJob, InTask, SettleFailure, SettleSuccess,
     SettleForfeit, Attempting
<1>2. /\ pc[r] = "settling" /\ row[r].note = "completed"
      /\ row[r].status = "succeeded"
      /\ row[r].commit => <<job[r], no[r]>> \in git
  BY <1>1 DEF PendingRecord
<1>3. attempt'[job[r]][no[r]] = row[r] /\ git' = git
  BY <1>1, <1>2 DEF SettleFailure, SettleSuccess, SettleForfeit, TypeOK, repo
<1>4. QED
  BY <1>1, <1>2, <1>3 DEF HasEvidence, Evidence

LEMMA PassedStep ==
    ASSUME TypeOK, Ownership, TypeOK', PassedHasEvidence, PendingRecord,
           NEW r \in Runner, RunnerAct(r)
    PROVE  PassedHasEvidence'
<1>1. EvidenceKept
  BY EvidenceKeptStep
<1>2. ASSUME NEW t \in Task, task'[t] = "passed", task[t] # "passed"
      PROVE  HasEvidence(t)'
  <2>1. task' # task
    BY <1>2
  <2>2. CASE CommitClaim(r) \/ PackageRejected(r) \/ Repair(r)
    BY <1>2, <2>2 DEF CommitClaim, PackageRejected, Repair, TypeOK
  <2>3. CASE SettleFailure(r) \/ SettleSuccess(r) \/ SettleForfeit(r)
    <3>1. t = job[r] /\ TaskAfter(r) = "passed"
      BY <1>2, <2>3 DEF SettleFailure, SettleSuccess, SettleForfeit, TypeOK
    <3>2. cached[r] = "passed"
      BY <1>2, <3>1 DEF TaskAfter
    <3>3. QED
      BY <2>3, <3>1, <3>2, SettledEvidence
  <2>4. QED
    BY <2>1, <2>2, <2>3 DEF RunnerAct, RunnerStep, ClaimStep, ExecuteStep,
       FinalizeStep, SettleStep, StartRun, RefuseRun, Stop, ListReady, LockForClaim,
       LockRefused, ClaimRefused, Claim, LoseOwnership, CannotExecute,
       StartExecutor, ExecutorFails, ExecutorSucceeds, FinalizationRefused,
       CandidateRejected, CandidateVerified, CommitDenied, CommitCandidate,
       NothingToCommit, RecordSuccess, RecordFailure, GiveUp, RepairAssertion,
       Crash, shared
<1>3. QED
  BY <1>1, <1>2 DEF PassedHasEvidence, EvidenceKept

-----------------------------------------------------------------------------
(* What a session remembers, and the tasks it works on.                    *)

LEMMA RememberedStep ==
    ASSUME TypeOK, Ownership, TypeOK', EvidenceInv, NEW r \in Runner, RunnerAct(r)
    PROVE  NoSessionLeft' /\ RememberedHasEvidence'
<1>1. EvidenceKept /\ SessionFrame(r)
  BY EvidenceKeptStep, SessionFrameStep
<1>2. ASSUME NEW s \in Runner \ {r}
      PROVE  /\ pc'[s] \in Ended => job'[s] = NoTask
             /\ pc'[s] = "idle" /\ job'[s] # NoTask /\ cached'[s] = "passed"
                    => HasEvidence(job[s])'
  BY <1>1 DEF EvidenceInv, NoSessionLeft, RememberedHasEvidence, SessionFrame,
     EvidenceKept, TypeOK
<1>3. /\ pc'[r] \in Ended => job'[r] = NoTask
      /\ pc'[r] = "idle" /\ job'[r] # NoTask /\ cached'[r] = "passed"
             => HasEvidence(job[r])'
  <2>1. CASE StartRun(r) \/ RefuseRun(r)
    BY <2>1 DEF StartRun, RefuseRun, session, TypeOK, EvidenceInv, NoSessionLeft
  <2>2. CASE ClaimRefused(r)
    BY <2>2 DEF ClaimRefused, session, TypeOK, Ownership, Owns, NotPending, Ended
  <2>3. CASE SettleSuccess(r)
    <3>1. job' = job /\ cached' = cached /\ job[r] \in Task /\ pc'[r] = "idle"
      BY <2>3 DEF SettleSuccess, Ownership, Owns, HasJob, InTask, Attempting, TypeOK
    <3>2. QED
      BY <2>3, <3>1, SettledEvidence DEF EvidenceInv, Ended
  <2>4. CASE \/ Stop(r) \/ Crash(r) \/ LockRefused(r) \/ PackageRejected(r)
             \/ RepairAssertion(r) \/ SettleFailure(r) \/ SettleForfeit(r)
    BY <2>4 DEF Stop, Crash, LockRefused, PackageRejected, RepairAssertion,
       SettleFailure, SettleForfeit, End, TypeOK, Ended
  <2>5. CASE \/ LoseOwnership(r) \/ CannotExecute(r) \/ StartExecutor(r)
             \/ ExecutorFails(r) \/ ExecutorSucceeds(r) \/ FinalizeStep(r)
             \/ GiveUp(r)
    BY <2>5, ContinuesStep DEF Continues, Attempting, Ended
  <2>6. CASE ListReady(r) \/ LockForClaim(r) \/ Claim(r) \/ CommitClaim(r) \/ Repair(r)
    BY <2>6 DEF ListReady, LockForClaim, Claim, CommitClaim, Repair, TypeOK, Ended
  <2>7. QED
    BY <2>1, <2>2, <2>3, <2>4, <2>5, <2>6 DEF RunnerAct, RunnerStep, ClaimStep,
       ExecuteStep, SettleStep
<1>4. QED
  BY <1>2, <1>3 DEF NoSessionLeft, RememberedHasEvidence

LEMMA ReadyHasDependencies ==
    ASSUME TypeOK, EvidenceInv, NEW r \in Runner, pc[r] = "idle",
           NEW t \in Task, Ready(r, t), NEW d \in Deps[t]
    PROVE  HasEvidence(d)
<1>1. d \in Task
  BY DepsAssumption
<1>2. Seen(r, d) = "passed"
  BY DEF Ready
<1>3. d # NoTask
  BY <1>1, TaskAssumption DEF NoTask
<1>4. QED
  BY <1>1, <1>2, <1>3 DEF Seen, EvidenceInv, PassedHasEvidence, RememberedHasEvidence

LEMMA ClaimingStep ==
    ASSUME TypeOK, Ownership, TypeOK', EvidenceInv, NEW r \in Runner, RunnerAct(r)
    PROVE  ClaimingAfterDependencies'
<1>1. EvidenceKept /\ SessionFrame(r)
  BY EvidenceKeptStep, SessionFrameStep
<1>2. ASSUME NEW t \in Task, NEW d \in Deps[t], HasEvidence(d)
      PROVE  HasEvidence(d)'
  BY <1>1, <1>2, DepsAssumption DEF EvidenceKept
<1>3. ASSUME NEW s \in Runner, pc'[s] \in Claiming, pc[s] \in Claiming,
             job'[s] = job[s], NEW d \in Deps[job[s]]
      PROVE  HasEvidence(d)'
  <2>1. job[s] \in Task
    BY <1>3 DEF Ownership, Owns, HasJob, InTask
  <2>2. HasEvidence(d)
    BY <1>3 DEF EvidenceInv, ClaimingAfterDependencies
  <2>3. QED
    BY <1>2, <2>1, <2>2
<1>4. ASSUME NEW s \in Runner \ {r}, pc'[s] \in Claiming, NEW d \in Deps[job'[s]]
      PROVE  HasEvidence(d)'
  BY <1>1, <1>3, <1>4 DEF SessionFrame
<1>5. ASSUME pc'[r] \in Claiming, NEW d \in Deps[job'[r]]
      PROVE  HasEvidence(d)'
  <2>1. CASE ListReady(r)
    <3>1. PICK t \in Task : Ready(r, t) /\ job' = [job EXCEPT ![r] = t]
      BY <2>1 DEF ListReady
    <3>2. job'[r] = t /\ pc[r] = "idle"
      BY <2>1, <3>1 DEF ListReady, TypeOK
    <3>3. QED
      BY <1>2, <1>5, <3>1, <3>2, ReadyHasDependencies
  <2>2. CASE LockForClaim(r) \/ Claim(r)
    BY <1>3, <1>5, <2>2 DEF LockForClaim, Claim, Claiming, session
  <2>3. CASE \/ LoseOwnership(r) \/ CannotExecute(r) \/ StartExecutor(r)
             \/ ExecutorFails(r) \/ ExecutorSucceeds(r) \/ FinalizeStep(r)
             \/ GiveUp(r)
    BY <1>5, <2>3, ContinuesStep DEF Continues, Attempting, Claiming
  <2>4. CASE \/ StartRun(r) \/ RefuseRun(r) \/ Stop(r) \/ Crash(r) \/ LockRefused(r)
             \/ PackageRejected(r) \/ RepairAssertion(r) \/ SettleFailure(r)
             \/ SettleForfeit(r) \/ SettleSuccess(r) \/ ClaimRefused(r)
             \/ CommitClaim(r) \/ Repair(r)
    BY <1>5, <2>4 DEF StartRun, RefuseRun, Stop, Crash, LockRefused, PackageRejected,
       RepairAssertion, SettleFailure, SettleForfeit, SettleSuccess, ClaimRefused,
       CommitClaim, Repair, End, TypeOK, Claiming
  <2>5. QED
    BY <2>1, <2>2, <2>3, <2>4 DEF RunnerAct, RunnerStep, ClaimStep, ExecuteStep,
       SettleStep
<1>6. QED
  BY <1>4, <1>5 DEF ClaimingAfterDependencies

-----------------------------------------------------------------------------
(* What is on record of a task, its worktrees included.                    *)

LEMMA DependenciesStep ==
    ASSUME TypeOK, Ownership, TypeOK', EvidenceInv, NEW r \in Runner, RunnerAct(r)
    PROVE  DependenciesVerifiedFirst'
<1> SUFFICES ASSUME NEW t \in Task, NEW d \in Deps[t], NEW a \in Number, ~Free(t, a)'
             PROVE  HasEvidence(d)'
  BY DEF DependenciesVerifiedFirst
<1>1. EvidenceKept /\ RowsFrame(r)
  BY EvidenceKeptStep, RowsFrameStep
<1>2. d \in Task
  BY DepsAssumption
<1>3. CASE \E b \in Number : ~Free(t, b)
  BY <1>1, <1>2, <1>3 DEF EvidenceInv, DependenciesVerifiedFirst, EvidenceKept
<1>4. CASE \A b \in Number : Free(t, b)
  <2>1. pc[r] \in Attempting => job[r] # t
    BY <1>4 DEF Ownership, Owns, HasJob, InTask, AttemptIsRunning, Free
  <2>2. pc[r] = "claimed" /\ t = job[r]
    BY <1>1, <1>4, <2>1 DEF RowsFrame, Free, Same
  <2>3. QED
    BY <1>1, <1>2, <2>2 DEF EvidenceInv, ClaimingAfterDependencies, Claiming,
       EvidenceKept
<1>5. QED
  BY <1>3, <1>4

LEMMA WorktreeStep ==
    ASSUME TypeOK, Ownership, TypeOK', EvidenceInv, NEW r \in Runner, RunnerAct(r)
    PROVE  WorktreeHasExecution'
<1>1. RecordFrame
  BY RecordFrameStep
<1>2. trees' \subseteq trees \cup {x \in Task \X Number : ~Free(x[1], x[2])}
  <2>1. CASE StartExecutor(r)
    <3>1. job[r] \in Task /\ no[r] \in Number /\ ~Free(job[r], no[r])
      BY <2>1 DEF StartExecutor, Ownership, Owns, HasJob, InTask, Attempting,
         AttemptIsRunning, Free
    <3>2. QED
      BY <2>1, <3>1 DEF StartExecutor
  <2>2. CASE trees' = trees
    BY <2>2
  <2>3. QED
    BY <2>1, <2>2 DEF RunnerAct, RunnerStep, ClaimStep, ExecuteStep, FinalizeStep,
       SettleStep, StartRun, RefuseRun, Stop, ListReady, LockForClaim, LockRefused,
       ClaimRefused, Claim, CommitClaim, PackageRejected, LoseOwnership,
       CannotExecute, ExecutorFails, ExecutorSucceeds, FinalizationRefused,
       CandidateRejected, CandidateVerified, CommitDenied, CommitCandidate,
       NothingToCommit, RecordSuccess, RecordFailure, Repair, GiveUp,
       RepairAssertion, SettleFailure, SettleSuccess, SettleForfeit, Crash, repo
<1>3. QED
  BY <1>1, <1>2 DEF EvidenceInv, WorktreeHasExecution, RecordFrame

LEMMA EvidenceStep ==
    TypeOK /\ Ownership /\ TypeOK' /\ EvidenceInv /\ [Next]_vars => EvidenceInv'
<1> SUFFICES ASSUME TypeOK, Ownership, TypeOK', EvidenceInv, [Next]_vars
             PROVE  EvidenceInv'
  OBVIOUS
<1>1. CASE UNCHANGED vars \/ Tick
  <2>1. UNCHANGED <<task, attempt, git, trees, pc, job, no, base, row, cached>>
    BY <1>1 DEF vars, shared, repo, session, Tick
  <2>2. /\ \A t : HasEvidence(t)' <=> HasEvidence(t)
        /\ \A t, a : Free(t, a)' <=> Free(t, a)
    BY <2>1 DEF HasEvidence, Evidence, Free
  <2>3. /\ PassedHasEvidence' /\ NoSessionLeft' /\ PendingRecord'
        /\ DependenciesVerifiedFirst' /\ WorktreeHasExecution'
    BY <2>1, <2>2 DEF EvidenceInv, PassedHasEvidence, NoSessionLeft, PendingRecord,
       DependenciesVerifiedFirst, WorktreeHasExecution
  <2>4. RememberedHasEvidence' /\ ClaimingAfterDependencies'
    BY <2>1, <2>2 DEF EvidenceInv, RememberedHasEvidence, ClaimingAfterDependencies
  <2>5. QED
    BY <2>3, <2>4 DEF EvidenceInv
<1>2. CASE Cleanup
  <2>1. PICK t \in Task, a \in Number : SweepRead(t, a) \/ SweepWrite(t, a)
    BY <1>2 DEF Cleanup
  <2>2. UNCHANGED <<task, git, trees, pc, job, no, base, row, cached>>
    BY <2>1 DEF SweepRead, SweepWrite, shared, repo, session
  <2>3. \A u \in Task, b \in Number : Same(attempt'[u][b], attempt[u][b])
    BY <2>1, SweepKeeps
  <2>4. /\ \A u \in Task : HasEvidence(u) => HasEvidence(u)'
        /\ \A u \in Task, b \in Number : Free(u, b)' <=> Free(u, b)
    BY <2>2, <2>3 DEF HasEvidence, Evidence, Same, Free
  <2>5. /\ PassedHasEvidence' /\ NoSessionLeft' /\ PendingRecord'
        /\ DependenciesVerifiedFirst' /\ WorktreeHasExecution'
    BY <2>2, <2>4, DepsAssumption DEF EvidenceInv, PassedHasEvidence, NoSessionLeft,
       PendingRecord, DependenciesVerifiedFirst, WorktreeHasExecution
  <2>6. RememberedHasEvidence'
    BY <2>2, <2>4 DEF EvidenceInv, RememberedHasEvidence, TypeOK
  <2>7. ClaimingAfterDependencies'
    BY <2>2, <2>4, DepsAssumption DEF EvidenceInv, ClaimingAfterDependencies,
       Ownership, Owns, HasJob, InTask
  <2>8. QED
    BY <2>5, <2>6, <2>7 DEF EvidenceInv
<1>3. ASSUME NEW r \in Runner, RunnerAct(r)
      PROVE  EvidenceInv'
  <2>1. PendingRecord'
    <3>1. SessionFrame(r) /\ git \subseteq git'
      BY <1>3, SessionFrameStep, GitGrows
    <3>2. \A s \in Runner : Record(s)
      BY RecordOf DEF EvidenceInv
    <3>3. \A s \in Runner \ {r} : Record(s)'
      BY <3>1, <3>2 DEF SessionFrame, Record
    <3>4. QED
      BY <1>3, <3>2, <3>3, RecordStep, RecordOf
  <2>2. QED
    BY <1>3, <2>1, PassedStep, RememberedStep, ClaimingStep, DependenciesStep,
       WorktreeStep DEF EvidenceInv
<1>4. QED
  BY <1>1, <1>2, <1>3 DEF Next, RunnerAct

LEMMA InitEvidence == Init => EvidenceInv
BY DEF Init, EvidenceInv, PassedHasEvidence, NoSessionLeft, RememberedHasEvidence,
   PendingRecord, ClaimingAfterDependencies, DependenciesVerifiedFirst,
   WorktreeHasExecution, Free, NoRow, Ended, Claiming, Attempting

-----------------------------------------------------------------------------

LEMMA EvidenceHolds == Spec => []EvidenceInv
<1>1. Init => TypeOK /\ Ownership /\ EvidenceInv
  BY InitType, InitOwnership, InitEvidence
<1>2. TypeOK /\ Ownership /\ EvidenceInv /\ [Next]_vars
        => (TypeOK /\ Ownership /\ EvidenceInv)'
  BY TypeStep, OwnershipStep, EvidenceStep
<1>3. QED
  BY <1>1, <1>2, PTL DEF Spec

\* A passed task has a verified attempt on record, with the commit it names in
\* the repository: _record_success runs last, in the transaction that settles.
THEOREM PassedIsProved == Spec => []PassedHasEvidence
<1>1. EvidenceInv => PassedHasEvidence
  BY DEF EvidenceInv
<1>2. QED
  BY <1>1, EvidenceHolds, PTL

\* No attempt of a task is made before its dependencies are proved done,
\* although readiness reads the tasks through a session that may be stale.
THEOREM DependenciesProved == Spec => []DependenciesVerifiedFirst
<1>1. EvidenceInv => DependenciesVerifiedFirst
  BY DEF EvidenceInv
<1>2. QED
  BY <1>1, EvidenceHolds, PTL

\* persist_execution_ownership commits the execution before a worktree is made,
\* so no crash leaves a worktree that no execution explains.
THEOREM WorktreesExplained == Spec => []WorktreeHasExecution
<1>1. EvidenceInv => WorktreeHasExecution
  BY DEF EvidenceInv
<1>2. QED
  BY <1>1, EvidenceHolds, PTL

-----------------------------------------------------------------------------
(* Leases.  A claim may come from a session whose transaction and task object
 * are older than another runner's lease; what keeps the two apart is that the
 * lease it meets was then still valid for it.                              *)

LEMMA HoldsLeaseIsAttempting ==
    /\ HoldsLease \subseteq Attempting
    /\ "owned" \notin HoldsLease /\ "forfeiting" \notin HoldsLease
    /\ {"executing", "finalizing", "verified", "committed", "failed", "settling"}
           \subseteq HoldsLease
BY DEF HoldsLease, Attempting

\* Two leases that were valid when their runners began are for two tasks.
LEMMA LeasesApart ==
    ASSUME TypeOK, Ownership, LeaseWasValid, OneActiveLease,
           NEW r \in Runner, NEW s \in Runner,
           r # s, pc[r] \in HoldsLease, pc[s] \in HoldsLease
    PROVE  job[r] # job[s]
<1> SUFFICES ASSUME job[r] = job[s] PROVE FALSE
  OBVIOUS
<1>1. /\ job[r] \in Task /\ no[r] \in Number /\ no[s] \in Number
      /\ no[r] # no[s]
  BY HoldsLeaseIsAttempting DEF Ownership, Owns, HasJob, InTask, AttemptsDiffer
<1>2. /\ attempt[job[r]][no[r]].lease = "active"
      /\ attempt[job[r]][no[s]].lease = "active"
  BY DEF LeaseWasValid, Live
<1>3. QED
  BY <1>1, <1>2 DEF OneActiveLease

\* For a runner that is claiming a task, whoever executes it has a valid lease.
LEMMA LeaseSeenValid ==
    ASSUME TypeOK, Ownership, LeaseWasValid, PendingWasSeenBefore,
           NEW r \in Runner, NEW s \in Runner, pc[r] \in {"locked", "claimed"},
           pc[s] \in HoldsLease, job[r] = job[s]
    PROVE  Live(attempt[job[s]][no[s]], base[r])
<1>1. cached[r] \in {"pending", "running"} /\ pc[r] \in Claiming
  BY DEF Ownership, Owns, NotPending, Claiming
<1>2. base[r] <= base[s]
  BY <1>1 DEF PendingWasSeenBefore
<1>3. Live(attempt[job[s]][no[s]], base[s])
  BY DEF LeaseWasValid
<1>4. job[s] \in Task /\ no[s] \in Number
  BY HoldsLeaseIsAttempting DEF Ownership, Owns, HasJob, InTask
<1>5. /\ attempt[job[s]][no[s]].expires \in Int
      /\ base[r] \in Int /\ base[s] \in Int
  BY <1>4 DEF TypeOK, Row, NoTx
<1>6. QED
  BY <1>2, <1>3, <1>5 DEF Live

\* So no claim is made of a task that another runner executes.
LEMMA ClaimedApart ==
    ASSUME TypeOK, Ownership, LeaseWasValid, PendingWasSeenBefore,
           ClaimFindsNoLease, NEW r \in Runner, NEW s \in Runner,
           pc[r] = "claimed", pc[s] \in HoldsLease
    PROVE  job[r] # job[s]
<1> SUFFICES ASSUME job[r] = job[s] PROVE FALSE
  OBVIOUS
<1>1. Live(attempt[job[s]][no[s]], base[r])
  BY LeaseSeenValid
<1>2. no[s] \in Number
  BY HoldsLeaseIsAttempting DEF Ownership, Owns, HasJob, InTask
<1>3. QED
  BY <1>1, <1>2 DEF ClaimFindsNoLease, Leased

-----------------------------------------------------------------------------
(* Which steps write a task's leases, and which take a lease up.           *)

LeaseFrame(r) ==
    /\ \A t \in Task : t # job[r] => attempt'[t] = attempt[t]
    /\ attempt' # attempt => pc[r] = "claimed" \/ pc[r] \in HoldsLease

LEMMA LeaseFrameStep ==
    ASSUME TypeOK, Ownership, NEW r \in Runner, RunnerAct(r)
    PROVE  LeaseFrame(r)
<1>1. CASE attempt' = attempt
  BY <1>1 DEF LeaseFrame
<1>2. CASE CommitClaim(r) \/ PackageRejected(r)
  BY <1>2 DEF CommitClaim, PackageRejected, LeaseFrame, TypeOK
<1>3. CASE Repair(r)
  <2>1. PICK rows : attempt' = [attempt EXCEPT ![job[r]] = rows]
    BY <1>3 DEF Repair
  <2>2. QED
    BY <1>3, <2>1, HoldsLeaseIsAttempting DEF Repair, LeaseFrame, TypeOK
<1>4. CASE SettleFailure(r) \/ SettleSuccess(r)
  BY <1>4, HoldsLeaseIsAttempting DEF SettleFailure, SettleSuccess, LeaseFrame, TypeOK
<1>5. QED
  BY <1>1, <1>2, <1>3, <1>4 DEF RunnerAct, RunnerStep, ClaimStep, ExecuteStep,
     FinalizeStep, SettleStep, StartRun, RefuseRun, Stop, ListReady, LockForClaim,
     LockRefused, ClaimRefused, Claim, LoseOwnership, CannotExecute,
     StartExecutor, ExecutorFails, ExecutorSucceeds, FinalizationRefused,
     CandidateRejected, CandidateVerified, CommitDenied, CommitCandidate,
     NothingToCommit, RecordSuccess, RecordFailure, GiveUp, RepairAssertion,
     SettleForfeit, Crash, shared

\* The lease is taken up when it is checked, and kept to the end.
TakesUp(r) ==
    pc'[r] \in HoldsLease =>
        /\ job'[r] = job[r] /\ no'[r] = no[r]
        /\ attempt' = attempt
        /\ \/ pc[r] \in HoldsLease /\ base'[r] = base[r]
           \/ OwnsLease(r) /\ base'[r] = now /\ pc[r] = "owned"

LEMMA TakesUpStep ==
    ASSUME TypeOK, Ownership, NEW r \in Runner, RunnerAct(r)
    PROVE  TakesUp(r)
<1> USE HoldsLeaseIsAttempting DEF TakesUp, shared, session
<1>1. CASE CannotExecute(r) \/ StartExecutor(r)
  BY <1>1 DEF CannotExecute, StartExecutor, TypeOK
<1>2. CASE LoseOwnership(r)
  BY <1>2 DEF LoseOwnership, TypeOK
<1>3. CASE ExecutorFails(r) \/ ExecutorSucceeds(r) \/ FinalizeStep(r) \/ GiveUp(r)
  <2>1. pc[r] \in HoldsLease
    BY <1>3 DEF ExecutorFails, ExecutorSucceeds, FinalizeStep, GiveUp,
       FinalizationRefused, CandidateRejected, CandidateVerified, CommitDenied,
       CommitCandidate, NothingToCommit, RecordSuccess
  <2>2. attempt' = attempt /\ job' = job /\ no' = no /\ base' = base
    BY <1>3 DEF ExecutorFails, ExecutorSucceeds, FinalizeStep, GiveUp,
       FinalizationRefused, CandidateRejected, CandidateVerified, CommitDenied,
       CommitCandidate, NothingToCommit, RecordSuccess, RecordFailure
  <2>3. QED
    BY <2>1, <2>2
<1>4. CASE \/ StartRun(r) \/ RefuseRun(r) \/ Stop(r) \/ Crash(r) \/ ListReady(r)
           \/ ClaimStep(r) \/ Repair(r) \/ RepairAssertion(r) \/ SettleFailure(r)
           \/ SettleSuccess(r) \/ SettleForfeit(r)
  <2>1. pc'[r] \notin HoldsLease
    BY <1>4 DEF StartRun, RefuseRun, Stop, Crash, ListReady, ClaimStep,
       LockForClaim, LockRefused, ClaimRefused, Claim, CommitClaim, PackageRejected,
       Repair, RepairAssertion, SettleFailure, SettleSuccess, SettleForfeit, End,
       TypeOK, HoldsLease, Attempting
  <2>2. QED
    BY <2>1
<1>5. QED
  BY <1>1, <1>2, <1>3, <1>4 DEF RunnerAct, RunnerStep, ExecuteStep, SettleStep

-----------------------------------------------------------------------------
(* Time.                                                                   *)

Time(r) ==
    /\ base[r] <= now
    /\ pc[r] \in Claiming \cup (Attempting \ {"owned"}) => base[r] # NoTx
    /\ pc[r] = "idle" /\ job[r] # NoTask /\ cached[r] = "pending" => base[r] # NoTx

LEMMA TimeStep ==
    ASSUME TypeOK, Ownership, TypeOK', EvidenceInv, TransactionTime,
           NEW r \in Runner, RunnerAct(r)
    PROVE  TransactionTime'
<1> USE DEF shared, session
<1>1. ASSUME NEW s \in Runner PROVE Time(s)
  BY DEF TransactionTime, Time
<1>2. ASSUME NEW s \in Runner \ {r} PROVE Time(s)'
  BY <1>1, SessionFrameStep DEF SessionFrame, Time
<1>3. /\ now \in Nat /\ base[r] \in Nat \cup {NoTx} /\ NoTx <= now /\ now # NoTx
      /\ base[r] <= now
  BY <1>1 DEF TypeOK, NoTx, Time
<1>4. Time(r)'
  <2>1. CASE StartRun(r) \/ RefuseRun(r)
    BY <1>3, <2>1 DEF StartRun, RefuseRun, Time, TypeOK, EvidenceInv, NoSessionLeft,
       Ended, Claiming, Attempting
  <2>2. CASE ListReady(r)
    <3>1. base'[r] = TxTime(r) /\ now' = now /\ pc'[r] = "listed"
      BY <2>2 DEF ListReady, TypeOK
    <3>2. TxTime(r) <= now /\ TxTime(r) # NoTx
      BY <1>3 DEF TxTime
    <3>3. QED
      BY <3>1, <3>2 DEF Time
  <2>3. CASE LockForClaim(r) \/ Claim(r)
    BY <1>1, <2>3 DEF LockForClaim, Claim, Time, TypeOK, Claiming
  <2>4. CASE ClaimRefused(r)
    BY <1>1, <2>4 DEF ClaimRefused, Time, TypeOK, Claiming, Attempting
  <2>5. CASE SettleSuccess(r)
    <3>1. cached'[r] = "passed" /\ base'[r] = NoTx /\ now' = now /\ pc'[r] = "idle"
      BY <2>5 DEF SettleSuccess, TypeOK, EvidenceInv, PendingRecord, Attempting
    <3>2. QED
      BY <1>3, <3>1 DEF Time, Claiming, Attempting
  <2>6. CASE CommitClaim(r) \/ Repair(r)
    <3>1. base'[r] = NoTx /\ now' = now /\ pc'[r] = "owned"
      BY <2>6 DEF CommitClaim, Repair, TypeOK
    <3>2. QED
      BY <1>3, <3>1 DEF Time, Claiming, Attempting
  <2>7. CASE LoseOwnership(r) \/ CannotExecute(r) \/ StartExecutor(r)
    <3>1. base'[r] = now /\ now' = now /\ pc'[r] # "idle"
      BY <2>7 DEF LoseOwnership, CannotExecute, StartExecutor, ExecutionEnds, TypeOK
    <3>2. QED
      BY <1>3, <3>1 DEF Time
  <2>8. CASE ExecutorFails(r) \/ ExecutorSucceeds(r) \/ FinalizeStep(r) \/ GiveUp(r)
    <3>1. pc[r] \in Attempting \ {"owned"} /\ base' = base /\ now' = now
      BY <2>8 DEF ExecutorFails, ExecutorSucceeds, FinalizeStep, GiveUp,
         FinalizationRefused, CandidateRejected, CandidateVerified, CommitDenied,
         CommitCandidate, NothingToCommit, RecordSuccess, RecordFailure, Attempting
    <3>2. pc'[r] \in Attempting
      BY <2>8, ContinuesStep DEF Continues
    <3>3. QED
      BY <1>1, <3>1, <3>2 DEF Time, Attempting
  <2>9. CASE \/ Stop(r) \/ Crash(r) \/ LockRefused(r) \/ PackageRejected(r)
             \/ RepairAssertion(r) \/ SettleFailure(r) \/ SettleForfeit(r)
    <3>1. base'[r] = NoTx /\ now' = now /\ pc'[r] \in Ended
      BY <2>9 DEF Stop, Crash, LockRefused, PackageRejected, RepairAssertion,
         SettleFailure, SettleForfeit, End, TypeOK, Ended
    <3>2. QED
      BY <1>3, <3>1 DEF Time, Ended, Claiming, Attempting
  <2>10. QED
    BY <2>1, <2>2, <2>3, <2>4, <2>5, <2>6, <2>7, <2>8, <2>9 DEF RunnerAct,
       RunnerStep, ClaimStep, ExecuteStep, SettleStep
<1>5. QED
  BY <1>2, <1>4 DEF TransactionTime, Time

-----------------------------------------------------------------------------
(* A lease that was valid when its runner began still is, for that runner. *)

LEMMA LeaseWasValidStep ==
    ASSUME TypeOK, Ownership, TypeOK', LeaseInv, NEW r \in Runner, RunnerAct(r)
    PROVE  LeaseWasValid'
<1>1. SessionFrame(r) /\ LeaseFrame(r) /\ TakesUp(r)
  BY SessionFrameStep, LeaseFrameStep, TakesUpStep
<1>2. ASSUME NEW s \in Runner \ {r}, pc'[s] \in HoldsLease
      PROVE  Live(attempt[job[s]][no[s]], base[s])'
  <2>1. pc[s] \in HoldsLease /\ job'[s] = job[s] /\ no'[s] = no[s] /\ base'[s] = base[s]
    BY <1>1, <1>2 DEF SessionFrame
  <2>2. job[s] \in Task
    BY <2>1, HoldsLeaseIsAttempting DEF Ownership, Owns, HasJob, InTask
  <2>3. CASE attempt' = attempt
    BY <2>1, <2>3 DEF LeaseInv, LeaseWasValid
  <2>4. CASE attempt' # attempt
    <3>1. job[s] # job[r]
      BY <1>1, <2>1, <2>4, ClaimedApart, LeasesApart DEF LeaseFrame, LeaseInv
    <3>2. attempt'[job[s]] = attempt[job[s]]
      BY <1>1, <2>2, <3>1 DEF LeaseFrame
    <3>3. QED
      BY <2>1, <3>2 DEF LeaseInv, LeaseWasValid
  <2>5. QED
    BY <2>3, <2>4
<1>3. ASSUME pc'[r] \in HoldsLease
      PROVE  Live(attempt[job[r]][no[r]], base[r])'
  BY <1>1, <1>3 DEF TakesUp, LeaseInv, LeaseWasValid, OwnsLease
<1>4. QED
  BY <1>2, <1>3 DEF LeaseWasValid

LEMMA ListReadySeesPending ==
    ASSUME TypeOK, Ownership, EvidenceInv, LeaseInv, NEW s \in Runner, ListReady(s),
           NEW r \in Runner, pc[r] \in HoldsLease, job'[s] = job[r]
    PROVE  base'[s] <= base[r]
<1>1. PICK t \in Task : Ready(s, t) /\ job' = [job EXCEPT ![s] = t]
  BY DEF ListReady
<1>2. pc[s] = "idle" /\ base'[s] = TxTime(s) /\ job'[s] = t
  BY <1>1 DEF ListReady, TypeOK
<1>3. task[t] # "pending"
  BY <1>2, HoldsLeaseIsAttempting DEF Ownership, Owns, NotPending
<1>4. t = job[s] /\ cached[s] = "pending"
  BY <1>1, <1>3 DEF Ready, Seen
<1>5. t # NoTask
  BY TaskAssumption DEF NoTask
<1>6. base[s] # NoTx
  BY <1>2, <1>4, <1>5 DEF LeaseInv, TransactionTime
<1>7. base[s] <= base[r]
  BY <1>2, <1>4 DEF LeaseInv, PendingWasSeenBefore
<1>8. QED
  BY <1>2, <1>6, <1>7 DEF TxTime

LEMMA PendingStep ==
    ASSUME TypeOK, Ownership, TypeOK', EvidenceInv, LeaseInv, TransactionTime',
           NEW r \in Runner, RunnerAct(r)
    PROVE  PendingWasSeenBefore'
<1> DEFINE Waits(s) == /\ pc[s] \in Claiming \cup {"idle"}
                       /\ cached[s] \in {"pending", "running"}
<1>1. SessionFrame(r) /\ TakesUp(r)
  BY SessionFrameStep, TakesUpStep
<1>2. ASSUME NEW s \in Runner, NEW q \in Runner, Waits(s), pc[q] \in HoldsLease,
             job[s] = job[q]
      PROVE  base[s] <= base[q]
  BY <1>2 DEF LeaseInv, PendingWasSeenBefore
<1>3. ASSUME NEW s \in Runner, NEW q \in Runner, s # r, q # r, Waits(s)',
             pc'[q] \in HoldsLease, job'[s] = job'[q]
      PROVE  base'[s] <= base'[q]
  BY <1>1, <1>2, <1>3 DEF SessionFrame
<1>4. ASSUME NEW s \in Runner \ {r}, Waits(s)', pc'[r] \in HoldsLease,
             job'[s] = job'[r]
      PROVE  base'[s] <= base'[r]
  <2>1. /\ Waits(s) /\ base'[s] = base[s] /\ job'[s] = job[s]
        /\ job'[r] = job[r] /\ base[s] <= now
    BY <1>1, <1>4 DEF SessionFrame, TakesUp, LeaseInv, TransactionTime
  <2>2. QED
    BY <1>1, <1>2, <1>4, <2>1 DEF TakesUp
<1>5. ASSUME NEW q \in Runner \ {r}, Waits(r)', pc'[q] \in HoldsLease,
             job'[r] = job'[q]
      PROVE  base'[r] <= base'[q]
  <2>1. /\ pc[q] \in HoldsLease /\ base'[q] = base[q] /\ job'[q] = job[q]
        /\ job[q] \in Task
    BY <1>1, <1>5, HoldsLeaseIsAttempting DEF SessionFrame, Ownership, Owns, HasJob,
       InTask
  <2> USE DEF session
  <2>2. CASE ListReady(r)
    BY <1>5, <2>1, <2>2, ListReadySeesPending
  <2>3. CASE StartRun(r) \/ RefuseRun(r)
    <3>1. job'[r] = NoTask
      BY <2>3 DEF StartRun, RefuseRun, EvidenceInv, NoSessionLeft
    <3>2. QED
      BY <1>5, <2>1, <3>1, TaskAssumption DEF NoTask
  <2>4. CASE LockForClaim(r) \/ ClaimRefused(r) \/ Claim(r)
    <3>1. Waits(r) /\ job' = job /\ base' = base
      BY <2>4 DEF LockForClaim, ClaimRefused, Claim, Ownership, Owns, NotPending,
         Claiming
    <3>2. QED
      BY <1>2, <1>5, <2>1, <3>1
  <2>5. CASE SettleSuccess(r)
    <3>1. cached'[r] = "passed"
      BY <2>5 DEF SettleSuccess, TypeOK, EvidenceInv, PendingRecord, Attempting
    <3>2. QED
      BY <1>5, <3>1
  <2>6. CASE \/ LoseOwnership(r) \/ CannotExecute(r) \/ StartExecutor(r)
             \/ ExecutorFails(r) \/ ExecutorSucceeds(r) \/ FinalizeStep(r)
             \/ GiveUp(r)
    BY <1>5, <2>6, ContinuesStep DEF Continues, Attempting, Claiming
  <2>7. CASE \/ Stop(r) \/ Crash(r) \/ LockRefused(r) \/ PackageRejected(r)
             \/ RepairAssertion(r) \/ SettleFailure(r) \/ SettleForfeit(r)
             \/ CommitClaim(r) \/ Repair(r)
    BY <1>5, <2>7 DEF Stop, Crash, LockRefused, PackageRejected, RepairAssertion,
       SettleFailure, SettleForfeit, CommitClaim, Repair, End, TypeOK, Claiming
  <2>8. QED
    BY <2>2, <2>3, <2>4, <2>5, <2>6, <2>7 DEF RunnerAct, RunnerStep, ClaimStep,
       ExecuteStep, SettleStep
<1>6. Waits(r)' => pc'[r] \notin HoldsLease
  BY DEF Claiming, HoldsLease, Attempting
<1>7. \A s, q \in Runner :
        Waits(s)' /\ pc'[q] \in HoldsLease /\ job'[s] = job'[q]
            => base'[s] <= base'[q]
  BY <1>3, <1>4, <1>5, <1>6
<1>8. QED
  BY <1>7 DEF PendingWasSeenBefore

-----------------------------------------------------------------------------
(* A claim in progress, and the failures a repair may follow.              *)

LEMMA ClaimFindsStep ==
    ASSUME TypeOK, Ownership, TypeOK', LeaseInv, NEW r \in Runner, RunnerAct(r)
    PROVE  ClaimFindsNoLease'
<1>1. SessionFrame(r) /\ LeaseFrame(r)
  BY SessionFrameStep, LeaseFrameStep
<1>2. ASSUME NEW s \in Runner \ {r}, pc'[s] = "claimed"
      PROVE  ~Leased(job[s], base[s])'
  <2>1. pc[s] = "claimed" /\ job'[s] = job[s] /\ base'[s] = base[s]
    BY <1>1, <1>2 DEF SessionFrame
  <2>2. job[s] \in Task /\ lock[job[s]] = s
    BY <2>1 DEF Ownership, Owns, HasJob, InTask, Claiming, ClaimHoldsLock
  <2>3. pc[r] = "claimed" => job[r] # job[s]
    BY <2>2 DEF Ownership, Owns, ClaimHoldsLock
  <2>4. attempt'[job[s]] = attempt[job[s]]
    BY <1>1, <2>1, <2>2, <2>3, ClaimedApart DEF LeaseFrame, LeaseInv
  <2>5. QED
    BY <2>1, <2>4 DEF LeaseInv, ClaimFindsNoLease, Leased
<1>3. ASSUME pc'[r] = "claimed"
      PROVE  ~Leased(job[r], base[r])'
  <2>1. CASE Claim(r)
    BY <2>1 DEF Claim, Leased, shared
  <2>2. CASE \/ LoseOwnership(r) \/ CannotExecute(r) \/ StartExecutor(r)
             \/ ExecutorFails(r) \/ ExecutorSucceeds(r) \/ FinalizeStep(r)
             \/ GiveUp(r)
    BY <1>3, <2>2, ContinuesStep DEF Continues, Attempting
  <2>3. CASE \/ StartRun(r) \/ RefuseRun(r) \/ Stop(r) \/ Crash(r) \/ LockRefused(r)
             \/ PackageRejected(r) \/ RepairAssertion(r) \/ SettleFailure(r)
             \/ SettleForfeit(r) \/ SettleSuccess(r) \/ ClaimRefused(r)
             \/ CommitClaim(r) \/ Repair(r) \/ ListReady(r) \/ LockForClaim(r)
    BY <1>3, <2>3 DEF StartRun, RefuseRun, Stop, Crash, LockRefused, PackageRejected,
       RepairAssertion, SettleFailure, SettleForfeit, SettleSuccess, ClaimRefused,
       CommitClaim, Repair, ListReady, LockForClaim, End, TypeOK, Ended
  <2>4. QED
    BY <2>1, <2>2, <2>3 DEF RunnerAct, RunnerStep, ClaimStep, ExecuteStep, SettleStep
<1>4. QED
  BY <1>2, <1>3 DEF ClaimFindsNoLease

Gives(r) ==
    /\ pc[r] \in {"claimed", "owned", "executing"} => row[r].note = "none"
    /\ pc[r] \in {"finalizing", "verified", "committed"}
           => row[r].status = "succeeded" /\ row[r].note = "none"
    /\ pc[r] = "failed"
           => \/ row[r].status = "succeeded" /\ row[r].note = "none"
              \/ row[r].lease # "active"

LEMMA GivesStep ==
    ASSUME TypeOK, Ownership, NEW r \in Runner, Gives(r), RunnerAct(r)
    PROVE  Gives(r)'
<1> USE DEF shared, session
<1>1. row[r] \in Row
  BY DEF TypeOK
<1>2. CASE \/ StartRun(r) \/ RefuseRun(r) \/ Stop(r) \/ Crash(r) \/ LockRefused(r)
           \/ PackageRejected(r) \/ RepairAssertion(r) \/ SettleFailure(r)
           \/ SettleForfeit(r) \/ SettleSuccess(r) \/ ClaimRefused(r)
           \/ ListReady(r) \/ LockForClaim(r) \/ LoseOwnership(r) \/ GiveUp(r)
  BY <1>2 DEF StartRun, RefuseRun, Stop, Crash, LockRefused, PackageRejected,
     RepairAssertion, SettleFailure, SettleForfeit, SettleSuccess, ClaimRefused,
     ListReady, LockForClaim, LoseOwnership, GiveUp, End, TypeOK, Ended, Gives
<1>3. CASE Claim(r) \/ Repair(r)
  <2>1. row'[r].note = "none" /\ pc'[r] \in {"claimed", "owned"}
    BY <1>3 DEF Claim, Repair, NewClaim, TypeOK
  <2>2. QED
    BY <2>1 DEF Gives
<1>4. CASE CommitClaim(r)
  BY <1>4 DEF CommitClaim, Gives, TypeOK
<1>5. CASE StartExecutor(r) \/ ExecutorSucceeds(r)
  <2>1. \/ pc'[r] = "executing" /\ row'[r] = [row[r] EXCEPT !.expires = now + RenewTime]
        \/ pc'[r] = "finalizing" /\ row'[r] = [row[r] EXCEPT !.status = "succeeded"]
    BY <1>5 DEF StartExecutor, ExecutorSucceeds, TypeOK
  <2>2. row[r].note = "none"
    BY <1>5 DEF StartExecutor, ExecutorSucceeds, Gives
  <2>3. QED
    BY <1>1, <2>1, <2>2 DEF Gives, Row
<1>6. CASE CannotExecute(r) \/ ExecutorFails(r)
  <2>1. pc'[r] = "settling"
    BY <1>6 DEF CannotExecute, ExecutorFails, ExecutionEnds, TypeOK
  <2>2. QED
    BY <2>1 DEF Gives
<1>7. ASSUME NEW note, RecordFailure(r, note)
      PROVE  Gives(r)'
  <2>1. pc'[r] = "failed"
        /\ row'[r] = [row[r] EXCEPT !.status = "failed", !.note = note,
                                   !.lease = Released(r)]
    BY <1>7 DEF RecordFailure, TypeOK
  <2>2. Released(r) # "active"
    BY DEF Released
  <2>3. row'[r].lease # "active"
    BY <1>1, <2>1, <2>2 DEF Row
  <2>4. QED
    BY <2>1, <2>3 DEF Gives
<1>8. CASE CommitCandidate(r)
  BY <1>8 DEF CommitCandidate, Gives, TypeOK
<1>9. CASE FinalizationRefused(r) \/ CandidateVerified(r) \/ NothingToCommit(r)
  BY <1>9 DEF FinalizationRefused, CandidateVerified, NothingToCommit, Gives, TypeOK
<1>10. CASE RecordSuccess(r)
  BY <1>10 DEF RecordSuccess, Gives, TypeOK
<1>11. QED
  BY <1>2, <1>3, <1>4, <1>5, <1>6, <1>7, <1>8, <1>9, <1>10 DEF RunnerAct,
     RunnerStep, ClaimStep, ExecuteStep, FinalizeStep, SettleStep,
     CandidateRejected, CommitDenied

LEMMA FailureStep ==
    ASSUME TypeOK, Ownership, FailureGivesUpLease, NEW r \in Runner, RunnerAct(r)
    PROVE  FailureGivesUpLease'
<1>1. \A s \in Runner : Gives(s)
  BY DEF FailureGivesUpLease, Gives
<1>2. \A s \in Runner \ {r} : Gives(s)'
  BY <1>1, SessionFrameStep DEF SessionFrame, Gives
<1>3. Gives(r)'
  BY <1>1, GivesStep
<1>4. QED
  BY <1>2, <1>3 DEF FailureGivesUpLease, Gives

-----------------------------------------------------------------------------
(* One active lease.                                                       *)

LEMMA WithClaimActive ==
    ASSUME NEW rows \in [Number -> Row], NEW time \in Nat \cup {NoTx},
           NEW a \in Number, NEW claim, NEW b \in Number \ {a},
           WithClaim(rows, time, a, claim)[b].lease = "active"
    PROVE  Live(rows[b], time)
<1>1. rows[b] \in Row
  OBVIOUS
<1>2. [rows[b] EXCEPT !.lease = "expired"].lease = "expired"
  BY <1>1 DEF Row
<1>3. rows[b].lease = "active" /\ ~(rows[b].expires <= time)
  BY <1>2 DEF WithClaim
<1>4. rows[b].expires \in Int /\ time \in Int
  BY <1>1 DEF Row, NoTx
<1>5. QED
  BY <1>3, <1>4 DEF Live

\* After a claim of a task no other lease of it is active.
LEMMA OnlyTheClaimActive ==
    ASSUME TypeOK, OneActiveLease, NEW t \in Task, NEW a \in Number,
           \A u \in Task : u # t => attempt'[u] = attempt[u],
           \A b \in Number \ {a} : attempt'[t][b].lease # "active"
    PROVE  OneActiveLease'
BY DEF OneActiveLease

LEMMA NothingNewActive ==
    ASSUME OneActiveLease,
           \A t \in Task, a \in Number :
               attempt'[t][a].lease = "active" => attempt[t][a].lease = "active"
    PROVE  OneActiveLease'
BY DEF OneActiveLease

LEMMA OneLeaseStep ==
    ASSUME TypeOK, Ownership, TypeOK', LeaseInv, NEW r \in Runner, RunnerAct(r)
    PROVE  OneActiveLease'
<1>1. CASE attempt' = attempt
  BY <1>1 DEF LeaseInv, OneActiveLease
<1>2. CASE CommitClaim(r) \/ PackageRejected(r)
  <2>1. /\ pc[r] = "claimed" /\ job[r] \in Task /\ no[r] \in Number
        /\ attempt[job[r]] \in [Number -> Row] /\ base[r] \in Nat \cup {NoTx}
    BY <1>2 DEF CommitClaim, PackageRejected, Ownership, Owns, HasJob, InTask,
       Claiming, TypeOK
  <2>2. PICK claim :
          attempt' = [attempt EXCEPT ![job[r]] = WithClaim(@, base[r], no[r], claim)]
    BY <1>2 DEF CommitClaim, PackageRejected
  <2>3. /\ attempt'[job[r]] = WithClaim(attempt[job[r]], base[r], no[r], claim)
        /\ \A u \in Task : u # job[r] => attempt'[u] = attempt[u]
    BY <2>1, <2>2 DEF TypeOK
  <2>4. ASSUME NEW b \in Number \ {no[r]}
        PROVE  attempt'[job[r]][b].lease # "active"
    <3>1. ~Live(attempt[job[r]][b], base[r])
      BY <2>1 DEF LeaseInv, ClaimFindsNoLease, Leased
    <3>2. QED
      BY <2>1, <2>3, <3>1, WithClaimActive
  <2>5. QED
    BY <2>1, <2>3, <2>4, OnlyTheClaimActive DEF LeaseInv
<1>3. CASE SettleFailure(r) \/ SettleSuccess(r)
  <2>1. /\ pc[r] \in HoldsLease /\ job[r] \in Task /\ no[r] \in Number
        /\ attempt' = [attempt EXCEPT ![job[r]][no[r]] = row[r]]
    BY <1>3, HoldsLeaseIsAttempting DEF SettleFailure, SettleSuccess, Ownership,
       Owns, HasJob, InTask
  <2>2. attempt[job[r]][no[r]].lease = "active"
    BY <2>1 DEF LeaseInv, LeaseWasValid, Live
  <2>3. \A t \in Task, a \in Number :
          attempt'[t][a] = IF t = job[r] /\ a = no[r] THEN row[r] ELSE attempt[t][a]
    BY <2>1 DEF TypeOK
  <2>4. QED
    BY <2>2, <2>3, NothingNewActive DEF LeaseInv
<1>4. CASE Repair(r)
  <2>1. /\ pc[r] = "failed" /\ MayRepair(r)
        /\ job[r] \in Task /\ no[r] \in Number /\ row[r] \in Row
        /\ attempt[job[r]] \in [Number -> Row] /\ base[r] \in Nat \cup {NoTx}
    BY <1>4 DEF Repair, Ownership, Owns, HasJob, InTask, Attempting, TypeOK
  <2> DEFINE rows == [attempt[job[r]] EXCEPT ![no[r]] = row[r]]
  <2>2. rows \in [Number -> Row] /\ rows[no[r]] = row[r]
        /\ \A b \in Number \ {no[r]} : rows[b] = attempt[job[r]][b]
    BY <2>1
  <2>3a. PICK a \in Number :
           \E claim : attempt' =
               [attempt EXCEPT ![job[r]] = WithClaim(rows, base[r], a, claim)]
    BY <1>4 DEF Repair
  <2>3. PICK claim :
          attempt' = [attempt EXCEPT ![job[r]] = WithClaim(rows, base[r], a, claim)]
    BY <2>3a
  <2> HIDE DEF rows
  <2>4. /\ attempt'[job[r]] = WithClaim(rows, base[r], a, claim)
        /\ \A u \in Task : u # job[r] => attempt'[u] = attempt[u]
    BY <2>1, <2>3 DEF TypeOK
  <2>5. row[r].lease # "active"
    <3>1. Retryability("succeeded", "none") = "HUMAN_REQUIRED"
      BY DEF Retryability
    <3>2. ~(row[r].status = "succeeded" /\ row[r].note = "none")
      BY <2>1, <3>1 DEF MayRepair, RepairAction
    <3>3. QED
      BY <2>1, <3>2 DEF LeaseInv, FailureGivesUpLease
  <2>6. ASSUME NEW b \in Number, rows[b].lease = "active"
        PROVE  FALSE
    <3>1. b # no[r] /\ attempt[job[r]][b].lease = "active"
      BY <2>2, <2>5, <2>6
    <3>2. attempt[job[r]][no[r]].lease = "active"
      BY <2>1, HoldsLeaseIsAttempting DEF LeaseInv, LeaseWasValid, Live
    <3>3. QED
      BY <2>1, <3>1, <3>2 DEF LeaseInv, OneActiveLease
  <2>7. ASSUME NEW b \in Number \ {a}
        PROVE  attempt'[job[r]][b].lease # "active"
    <3>1. ~Live(rows[b], base[r])
      BY <2>6 DEF Live
    <3>2. rows \in [Number -> Row] /\ base[r] \in Nat \cup {NoTx}
      BY <2>1, <2>2
    <3>3. WithClaim(rows, base[r], a, claim)[b].lease # "active"
      BY <3>1, <3>2, WithClaimActive
    <3>4. QED
      BY <2>4, <3>3
  <2>8. QED
    BY <2>1, <2>4, <2>7, OnlyTheClaimActive DEF LeaseInv
<1>5. QED
  BY <1>1, <1>2, <1>3, <1>4 DEF RunnerAct, RunnerStep, ClaimStep, ExecuteStep,
     FinalizeStep, SettleStep, StartRun, RefuseRun, Stop, ListReady, LockForClaim,
     LockRefused, ClaimRefused, Claim, LoseOwnership, CannotExecute,
     StartExecutor, ExecutorFails, ExecutorSucceeds, FinalizationRefused,
     CandidateRejected, CandidateVerified, CommitDenied, CommitCandidate,
     NothingToCommit, RecordSuccess, RecordFailure, GiveUp, RepairAssertion,
     SettleForfeit, Crash, shared

-----------------------------------------------------------------------------

LEMMA SweepLeaseStep ==
    ASSUME TypeOK, Ownership, LeaseInv, NEW t \in Task, NEW a \in Number,
           SweepRead(t, a) \/ SweepWrite(t, a)
    PROVE  LeaseInv'
<1>1. UNCHANGED <<now, pc, job, no, base, row, cached>>
  BY DEF SweepRead, SweepWrite, session
<1>2. TransactionTime' /\ PendingWasSeenBefore' /\ FailureGivesUpLease'
  BY <1>1 DEF LeaseInv, TransactionTime, PendingWasSeenBefore, FailureGivesUpLease
<1>3. CASE attempt' = attempt
  BY <1>1, <1>2, <1>3 DEF LeaseInv, LeaseWasValid, ClaimFindsNoLease, Leased,
     OneActiveLease
<1>4. CASE SweepWrite(t, a)
  <2>1. attempt[t][a] \in Row
    BY DEF TypeOK
  <2>2. [attempt[t][a] EXCEPT !.lease = "expired"].lease = "expired"
    BY <2>1 DEF Row
  <2>3. \A u \in Task, b \in Number :
          attempt'[u][b] = IF u = t /\ b = a
                           THEN [attempt[t][a] EXCEPT !.lease = "expired"]
                           ELSE attempt[u][b]
    BY <1>4 DEF SweepWrite, TypeOK
  <2>4. OneActiveLease'
    BY <2>2, <2>3, NothingNewActive DEF LeaseInv
  <2>5. ClaimFindsNoLease'
    <3>1. ASSUME NEW r \in Runner, pc[r] = "claimed"
          PROVE  ~Leased(job[r], base[r])'
      <4>1. job[r] \in Task /\ ~Leased(job[r], base[r])
        BY <3>1 DEF LeaseInv, ClaimFindsNoLease, Ownership, Owns, HasJob, InTask,
           Claiming
      <4>2. QED
        BY <1>1, <2>2, <2>3, <4>1 DEF Leased, Live
    <3>2. QED
      BY <1>1, <3>1 DEF ClaimFindsNoLease
  <2>6. LeaseWasValid'
    <3>1. ASSUME NEW r \in Runner, pc[r] \in HoldsLease
          PROVE  Live(attempt[job[r]][no[r]], base[r])'
      <4>1. /\ job[r] \in Task /\ no[r] \in Number
            /\ ~(job[r] = t /\ no[r] = a)
        BY <1>4, <3>1, HoldsLeaseIsAttempting DEF SweepWrite, Ownership, Owns, HasJob,
           InTask
      <4>2. QED
        BY <1>1, <2>3, <3>1, <4>1 DEF LeaseInv, LeaseWasValid
    <3>2. QED
      BY <1>1, <3>1 DEF LeaseWasValid
  <2>7. QED
    BY <1>2, <2>4, <2>5, <2>6 DEF LeaseInv
<1>5. QED
  BY <1>3, <1>4 DEF SweepRead, shared

LEMMA LeaseStep ==
    TypeOK /\ Ownership /\ TypeOK' /\ EvidenceInv /\ LeaseInv /\ [Next]_vars
        => LeaseInv'
<1> SUFFICES ASSUME TypeOK, Ownership, TypeOK', EvidenceInv, LeaseInv, [Next]_vars
             PROVE  LeaseInv'
  OBVIOUS
<1>1. CASE UNCHANGED vars \/ Tick
  <2>1. /\ UNCHANGED <<attempt, pc, job, no, base, row, cached>>
        /\ now' >= now
    BY <1>1 DEF vars, shared, session, Tick, TypeOK
  <2>2. LeaseWasValid' /\ OneActiveLease' /\ PendingWasSeenBefore'
        /\ FailureGivesUpLease'
    BY <2>1 DEF LeaseInv, LeaseWasValid, OneActiveLease, PendingWasSeenBefore,
       FailureGivesUpLease
  <2>3. ClaimFindsNoLease'
    BY <2>1 DEF LeaseInv, ClaimFindsNoLease, Leased
  <2>4. TransactionTime'
    <3>1. \A r \in Runner : base[r] <= now'
      BY <2>1 DEF LeaseInv, TransactionTime, TypeOK, NoTx
    <3>2. QED
      BY <2>1, <3>1 DEF LeaseInv, TransactionTime
  <2>5. QED
    BY <2>2, <2>3, <2>4 DEF LeaseInv
<1>2. CASE Cleanup
  BY <1>2, SweepLeaseStep DEF Cleanup
<1>3. ASSUME NEW r \in Runner, RunnerAct(r)
      PROVE  LeaseInv'
  <2>1. TransactionTime'
    BY <1>3, TimeStep DEF LeaseInv
  <2>2. QED
    BY <1>3, <2>1, LeaseWasValidStep, PendingStep, ClaimFindsStep, FailureStep,
       OneLeaseStep DEF LeaseInv
<1>4. QED
  BY <1>1, <1>2, <1>3 DEF Next, RunnerAct

LEMMA InitLease == Init => LeaseInv
BY DEF Init, LeaseInv, TransactionTime, LeaseWasValid, PendingWasSeenBefore,
   ClaimFindsNoLease, FailureGivesUpLease, OneActiveLease, Ended, Claiming,
   Attempting, HoldsLease, NoTx, NoRow

LEMMA LeaseHolds == Spec => [](TypeOK /\ Ownership /\ LeaseInv)
<1>1. Init => TypeOK /\ Ownership /\ EvidenceInv /\ LeaseInv
  BY InitType, InitOwnership, InitEvidence, InitLease
<1>2. TypeOK /\ Ownership /\ EvidenceInv /\ LeaseInv /\ [Next]_vars
        => (TypeOK /\ Ownership /\ EvidenceInv /\ LeaseInv)'
  BY TypeStep, OwnershipStep, EvidenceStep, LeaseStep
<1>3. QED
  BY <1>1, <1>2, PTL DEF Spec

\* Two runners never execute, verify or commit the same task at a time: the
\* claim of one is made under the row lock, against the lease of the other.
THEOREM OneRunnerPerTask == Spec => []OneLiveAttempt
<1>1. TypeOK /\ Ownership /\ LeaseInv => OneLiveAttempt
  BY LeasesApart DEF LeaseInv, OneLiveAttempt
<1>2. QED
  BY <1>1, LeaseHolds, PTL

\* A task has at most one active lease row, the one active_for_task finds.
THEOREM LeaseIsUnique == Spec => []OneActiveLease
<1>1. LeaseInv => OneActiveLease
  BY DEF LeaseInv
<1>2. QED
  BY <1>1, LeaseHolds, PTL

\* A claim never meets a lease row that another transaction has renewed: for
\* whoever claims, the committed lease of whoever executes is still valid.
THEOREM ClaimNeverWaits == Spec => []NoLeaseRowWait
<1>1. TypeOK /\ Ownership /\ LeaseInv => NoLeaseRowWait
  BY LeaseSeenValid DEF LeaseInv, NoLeaseRowWait
<1>2. QED
  BY <1>1, LeaseHolds, PTL
=============================================================================
