-------------------------- MODULE BootstrapProofs --------------------------
(***************************************************************************)
(* Nothing is recorded that has been neither verified nor proved, and      *)
(* nothing is verified before its dependencies, with any number of         *)
(* commands at once; and with one at a time the cut-over is complete.      *)
(***************************************************************************)
EXTENDS BootstrapProperties, TLAPS

HasTask == {"executing", "proving", "recording", "inserting", "local", "saving"}

\* What a command carries from step to step: v is what has been
\* verified or proved.
Carries(p, v) ==
    /\ p.pc = "idle" => p = Idle
    /\ p.pc \in HasTask => p.task \in Task
    /\ p.read.completed \subseteq v
    /\ p.result = "completed" => p.task \in v
    /\ p.pc = "executing" => Deps[p.task] \subseteq v
    /\ p.pc = "proving" => p.task = ProofTask

BootstrapInv ==
    /\ TypeOK
    /\ \A c \in Command : Carries(cmd[c], Accepted)
    /\ RecordedIsVerified
    /\ DependenciesVerified

-----------------------------------------------------------------------------
(* The operators on states and runs.                                       *)

LEMMA IdleType == Idle \in Process /\ NoState \in State /\ NoRun \in Run
  BY DEF Idle, NoState, NoRun, Process, Label, State, Run

LEMMA LoadedType ==
  ASSUME file \in State, db \in Run
  PROVE  /\ Loaded \in State
         /\ Loaded.completed \in {file.completed, db.completed}
<1>1. BlockedInRun(db) \in SUBSET Task
  BY DEF BlockedInRun
<1>2. CASE AskDatabase
  <2>1. Loaded = [completed |-> db.completed, last |-> db.last,
                  blocked |-> BlockedInRun(db)]
    BY <1>2 DEF Loaded
  <2>2. db.completed \in SUBSET Task /\ db.last \in Task \cup {NoTask}
    BY DEF Run
  <2>3. QED
    BY <1>1, <2>1, <2>2 DEF State
<1>3. CASE ~AskDatabase
  BY <1>3 DEF Loaded
<1>4. QED
  BY <1>2, <1>3

LEMMA MarkedType ==
  ASSUME NEW d \in Run, NEW t \in Task, NEW res, NEW v,
         d.completed \subseteq v, res = "completed" => t \in v
  PROVE  Marked(d, t, res) \in Run /\ Marked(d, t, res).completed \subseteq v
<1> DEFINE m == Marked(d, t, res)
<1>1. /\ d.exists \in BOOLEAN /\ d.blocked \in BOOLEAN /\ d.head \in BOOLEAN
      /\ d.completed \in SUBSET Task /\ d.last \in Task \cup {NoTask}
      /\ d.current \in Task \cup {NoTask} /\ d.points + 1 \in Nat
  BY DEF Run
<1>2. CASE res = "completed"
  <2>1. m = [exists |-> d.exists, completed |-> d.completed \cup {t},
             last |-> t, current |-> d.current, blocked |-> FALSE,
             head |-> TRUE, points |-> d.points + 1]
    BY <1>2 DEF Marked, Run
  <2>2. m.completed = d.completed \cup {t} /\ d.completed \cup {t} \in SUBSET Task
    BY <1>1, <2>1
  <2>3. m \in Run
    BY <1>1, <2>1, <2>2 DEF Run
  <2>4. QED
    BY <1>2, <2>2, <2>3
<1>3. CASE res # "completed"
  <2>1. m = [exists |-> d.exists, completed |-> d.completed, last |-> d.last,
             current |-> t, blocked |-> TRUE, head |-> d.head,
             points |-> d.points + 1]
    BY <1>3 DEF Marked, Run
  <2>2. QED
    BY <1>1, <1>3, <2>1 DEF Run
<1>4. QED
  BY <1>2, <1>3

LEMMA NotedType ==
  ASSUME NEW s \in State, NEW t \in Task, NEW res, NEW v,
         s.completed \subseteq v, res = "completed" => t \in v
  PROVE  Noted(s, t, res) \in State /\ Noted(s, t, res).completed \subseteq v
  BY DEF Noted, State

LEMMA MigratedType ==
  ASSUME NEW s \in State, NEW d \in Run, NEW e \in Migrated(s, d)
  PROVE  e \in Run /\ e.completed \in {s.completed, d.completed}
<1>1. CASE d.exists
  BY <1>1 DEF Migrated
<1>2. CASE ~d.exists
  <2>1. PICK b \in Task \cup {NoTask} : e = Written(s, b)
    BY <1>2 DEF Migrated, State
  <2>2. QED
    BY <2>1 DEF Written, NoRun, Run, State
<1>3. QED
  BY <1>1, <1>2

-----------------------------------------------------------------------------
LEMMA InitBootstrapInv == Init => BootstrapInv
<1> SUFFICES ASSUME Init PROVE BootstrapInv
  OBVIOUS
<1>1. TypeOK
  BY IdleType DEF Init, TypeOK
<1>2. ASSUME NEW c \in Command PROVE Carries(cmd[c], Accepted)
  BY DEF Init, Carries, Idle, NoState, HasTask
<1>3. RecordedIsVerified /\ DependenciesVerified
  BY DEF Init, RecordedIsVerified, DependenciesVerified, NoState, NoRun
<1>4. QED
  BY <1>1, <1>2, <1>3 DEF BootstrapInv

-----------------------------------------------------------------------------
(* The steps.                                                              *)

\* Nothing that was accepted ceases to be, so the other commands keep what they carry.
LEMMA CommandKeeps ==
  ASSUME BootstrapInv, NEW c \in Command, NEW p \in Process,
         cmd' = [cmd EXCEPT ![c] = p], Carries(p, Accepted'),
         file' \in State, db' \in Run, <<torn, authority, up>>' \in BOOLEAN \X BOOLEAN \X BOOLEAN,
         verified' \in SUBSET Task, proved' \in SUBSET {ProofTask},
         Accepted \subseteq Accepted',
         RecordedIsVerified', DependenciesVerified'
  PROVE  BootstrapInv'
<1>1. TypeOK'
  BY DEF BootstrapInv, TypeOK
<1>2. ASSUME NEW d \in Command PROVE Carries(cmd[d], Accepted)'
  <2>1. CASE d = c
    BY <2>1 DEF BootstrapInv, TypeOK, Carries
  <2>2. CASE d # c
    <3>1. cmd'[d] = cmd[d] /\ Carries(cmd[d], Accepted)
      BY <2>2 DEF BootstrapInv, TypeOK
    <3>2. QED
      BY <3>1 DEF Carries
  <2>3. QED
    BY <2>1, <2>2
<1>3. QED
  BY <1>1, <1>2 DEF BootstrapInv

\* A step that writes to no store and verifies nothing.
LEMMA QuietStep ==
  ASSUME BootstrapInv, NEW c \in Command, NEW p \in Process,
         cmd' = [cmd EXCEPT ![c] = p], Carries(p, Accepted),
         UNCHANGED <<stores, up, outcomes>>
  PROVE  BootstrapInv'
<1>1. /\ verified' = verified /\ proved' = proved /\ Accepted' = Accepted
      /\ file' = file /\ db' = db
      /\ <<torn, authority, up>>' = <<torn, authority, up>>
  BY DEF stores, outcomes, Accepted
<1>2. RecordedIsVerified' /\ DependenciesVerified'
  BY <1>1 DEF BootstrapInv, RecordedIsVerified, DependenciesVerified
<1>3. QED
  BY <1>1, <1>2, CommandKeeps DEF BootstrapInv, TypeOK

LEMMA LoadedVerified ==
  ASSUME BootstrapInv
  PROVE  Loaded \in State /\ Loaded.completed \subseteq Accepted
BY LoadedType DEF BootstrapInv, TypeOK, RecordedIsVerified

LEMMA IdleCarries == ASSUME NEW v PROVE Idle \in Process /\ Carries(Idle, v)
BY IdleType DEF Carries, Idle, NoState, HasTask

LEMMA DecideStep ==
  ASSUME BootstrapInv, NEW c \in Command, Decide(c)
  PROVE  BootstrapInv'
<1>1. PICK t \in Task : RunTask(c, t) \/ RunWaits(c, t)
  BY DEF Decide
<1>2. cmd[c] \in Process /\ Carries(cmd[c], Accepted)
  BY DEF BootstrapInv, TypeOK
<1>3. CASE RunTask(c, t)
  <2> DEFINE p == [cmd[c] EXCEPT !.pc = "executing", !.task = t]
  <2>1. cmd' = [cmd EXCEPT ![c] = p] /\ UNCHANGED <<stores, up, outcomes>>
    BY <1>3 DEF RunTask
  <2>2. Deps[t] \subseteq Accepted
    <3>1. Deps[t] \subseteq Loaded.completed
      BY <1>3 DEF RunTask, DependenciesCompleted
    <3>2. QED
      BY <3>1, LoadedVerified
  <2>3. cmd[c].result = "none" /\ cmd[c].read = NoState
    BY <1>2, <1>3 DEF RunTask, Carries, Idle
  <2>4. p \in Process
    BY <1>2 DEF Process, Label
  <2>5. p.pc = "executing" /\ p.task = t /\ p.result = "none" /\ p.read = NoState
    BY <1>2, <2>3 DEF Process
  <2>6. Carries(p, Accepted)
    BY <2>2, <2>5 DEF Carries, NoState
  <2>7. QED
    BY <2>1, <2>4, <2>6, QuietStep
<1>4. CASE RunWaits(c, t)
  <2> DEFINE p == [cmd[c] EXCEPT !.pc = "recording", !.task = t,
                                 !.result = "blocked"]
  <2>1. cmd' = [cmd EXCEPT ![c] = p] /\ UNCHANGED <<stores, up, outcomes>>
    BY <1>4 DEF RunWaits
  <2>2. p \in Process /\ Carries(p, Accepted)
    BY <1>2 DEF Process, Label, Carries, HasTask
  <2>3. QED
    BY <2>1, <2>2, QuietStep
<1>5. QED
  BY <1>1, <1>3, <1>4

LEMMA OutcomeStep ==
  ASSUME BootstrapInv, NEW c \in Command, Verified(c) \/ Rejected(c)
  PROVE  BootstrapInv'
<1> DEFINE t == cmd[c].task
<1>1. cmd[c] \in Process /\ Carries(cmd[c], Accepted)
  BY DEF BootstrapInv, TypeOK
<1>2. t \in Task /\ Deps[t] \subseteq Accepted
  BY <1>1 DEF Carries, HasTask, Verified, Rejected
<1>3. CASE Rejected(c)
  <2> DEFINE p == [cmd[c] EXCEPT !.pc = "recording", !.result = "blocked"]
  <2>1. cmd' = [cmd EXCEPT ![c] = p] /\ UNCHANGED <<stores, up, outcomes>>
    BY <1>3 DEF Rejected
  <2>2. p \in Process /\ Carries(p, Accepted)
    BY <1>1, <1>2 DEF Process, Label, Carries, HasTask
  <2>3. QED
    BY <2>1, <2>2, QuietStep
<1>4. CASE Verified(c)
  <2> DEFINE p == [cmd[c] EXCEPT !.pc = "recording", !.result = "completed"]
  <2>1. cmd' = [cmd EXCEPT ![c] = p] /\ UNCHANGED <<stores, up, proved>>
    BY <1>4 DEF Verified
  <2>2. verified' = verified \cup {t}
    BY <1>4 DEF Verified
  <2>3. Accepted' = Accepted \cup {t}
    BY <2>1, <2>2 DEF Accepted
  <2>4. p \in Process /\ Carries(p, Accepted')
    BY <1>1, <1>2, <2>3 DEF Process, Label, Carries, HasTask
  <2>5. /\ file' = file /\ db' = db
        /\ <<torn, authority, up>>' = <<torn, authority, up>>
    BY <2>1 DEF stores
  <2>6. RecordedIsVerified' /\ DependenciesVerified'
    BY <1>2, <2>2, <2>3, <2>5
    DEF BootstrapInv, RecordedIsVerified, DependenciesVerified
  <2>7. QED
    BY <1>2, <2>1, <2>2, <2>3, <2>4, <2>5, <2>6, CommandKeeps
    DEF BootstrapInv, TypeOK
<1>5. QED
  BY <1>3, <1>4

\* codex-proof: the task is accepted without a look at what it depends on.
LEMMA ProofStep ==
  ASSUME BootstrapInv, NEW c \in Command, CodexProof(c) \/ Proved(c)
  PROVE  BootstrapInv'
<1>1. cmd[c] \in Process /\ Carries(cmd[c], Accepted) /\ ProofTask \in Task
  BY TaskAssumption DEF BootstrapInv, TypeOK
<1>2. CASE CodexProof(c)
  <2> DEFINE p == [cmd[c] EXCEPT !.pc = "proving", !.task = ProofTask]
  <2>1. cmd' = [cmd EXCEPT ![c] = p] /\ UNCHANGED <<stores, up, outcomes>>
    BY <1>2 DEF CodexProof
  <2>2. cmd[c].result = "none" /\ cmd[c].read = NoState
    BY <1>1, <1>2 DEF CodexProof, Carries, Idle
  <2>3. p \in Process
    BY <1>1 DEF Process, Label
  <2>4. /\ p.pc = "proving" /\ p.task = ProofTask
        /\ p.result = "none" /\ p.read = NoState
    BY <1>1, <2>2 DEF Process
  <2>5. Carries(p, Accepted)
    BY <1>1, <2>4 DEF Carries, NoState
  <2>6. QED
    BY <2>1, <2>3, <2>5, QuietStep
<1>3. CASE Proved(c)
  <2> DEFINE p == [cmd[c] EXCEPT !.pc = "recording", !.result = "completed"]
  <2>1. cmd[c].task = ProofTask
    BY <1>1, <1>3 DEF Proved, Carries
  <2>2. cmd' = [cmd EXCEPT ![c] = p] /\ UNCHANGED <<stores, up, verified>>
    BY <1>3 DEF Proved
  <2>3. proved' = proved \cup {ProofTask}
    BY <1>3, <2>1 DEF Proved
  <2>4. Accepted' = Accepted \cup {ProofTask}
    BY <2>2, <2>3 DEF Accepted
  <2>5. p \in Process /\ Carries(p, Accepted')
    BY <1>1, <2>1, <2>4 DEF Process, Label, Carries, HasTask
  <2>6. /\ file' = file /\ db' = db
        /\ <<torn, authority, up>>' = <<torn, authority, up>>
    BY <2>2 DEF stores
  <2>7. RecordedIsVerified' /\ DependenciesVerified'
    BY <2>2, <2>4, <2>6
    DEF BootstrapInv, RecordedIsVerified, DependenciesVerified
  <2>8. QED
    BY <2>2, <2>3, <2>4, <2>5, <2>6, <2>7, CommandKeeps
    DEF BootstrapInv, TypeOK
<1>4. QED
  BY <1>2, <1>3

\* A command that ends: what it has stored must have been accepted.
LEMMA EndStep ==
  ASSUME BootstrapInv, NEW c \in Command, Ends(c),
         file' \in State, db' \in Run, UNCHANGED <<up, outcomes>>,
         torn' \in BOOLEAN, authority' \in BOOLEAN,
         file'.completed \subseteq Accepted, db'.completed \subseteq Accepted
  PROVE  BootstrapInv'
<1>1. /\ cmd' = [cmd EXCEPT ![c] = Idle] /\ up' = up
      /\ verified' = verified /\ proved' = proved /\ Accepted' = Accepted
  BY DEF Ends, outcomes, Accepted
<1>2. /\ up' \in BOOLEAN /\ verified' \in SUBSET Task
      /\ proved' \in SUBSET {ProofTask} /\ Accepted \subseteq Accepted'
  BY <1>1 DEF BootstrapInv, TypeOK
<1>3. RecordedIsVerified' /\ DependenciesVerified'
  BY <1>1 DEF BootstrapInv, RecordedIsVerified, DependenciesVerified
<1>4. QED
  BY <1>1, <1>2, <1>3, IdleCarries, CommandKeeps

\* What is recorded as completed is the task the command has verified or proved.
LEMMA RecordStepKeeps ==
  ASSUME BootstrapInv, NEW c \in Command, RecordStep(c)
  PROVE  BootstrapInv'
<1> DEFINE t == cmd[c].task
<1>1. cmd[c] \in Process /\ Carries(cmd[c], Accepted)
  BY DEF BootstrapInv, TypeOK
<1>2. /\ file \in State /\ db \in Run
      /\ file.completed \subseteq Accepted /\ db.completed \subseteq Accepted
      /\ torn \in BOOLEAN /\ authority \in BOOLEAN
  BY DEF BootstrapInv, TypeOK, RecordedIsVerified
<1>3. CASE InsertPoint(c)
  <2> DEFINE p == [cmd[c] EXCEPT !.pc = "inserting", !.place = db.points + 1]
  <2>1. cmd' = [cmd EXCEPT ![c] = p] /\ UNCHANGED <<stores, up, outcomes>>
    BY <1>3 DEF InsertPoint
  <2>2. db.points + 1 \in Nat
    BY <1>2 DEF Run
  <2>3. cmd[c].pc = "recording"
    BY <1>3 DEF InsertPoint
  <2>4. p \in Process /\ Carries(p, Accepted)
    BY <1>1, <2>2, <2>3 DEF Process, Label, Carries, HasTask
  <2>5. QED
    BY <2>1, <2>4, QuietStep
<1>4. CASE CommitPoint(c)
  <2>1. t \in Task /\ (cmd[c].result = "completed" => t \in Accepted)
    BY <1>1, <1>4 DEF CommitPoint, Carries, HasTask
  <2>2. db' = Marked(db, t, cmd[c].result)
    BY <1>4 DEF CommitPoint
  <2>3. db' \in Run /\ db'.completed \subseteq Accepted
    BY <1>2, <2>1, <2>2, MarkedType
  <2>4. /\ Ends(c) /\ UNCHANGED <<up, outcomes>>
        /\ file' = file /\ torn' = torn /\ authority' = authority
    BY <1>4 DEF CommitPoint
  <2>5. QED
    BY <1>2, <2>3, <2>4, EndStep
<1>5. CASE FallBack(c)
  <2> DEFINE p == [cmd[c] EXCEPT !.pc = "local"]
  <2>1. cmd' = [cmd EXCEPT ![c] = p] /\ UNCHANGED <<stores, up, outcomes>>
    BY <1>5 DEF FallBack, Goto
  <2>2. cmd[c].pc \in {"recording", "inserting"}
    BY <1>5 DEF FallBack
  <2>3. p \in Process /\ Carries(p, Accepted)
    BY <1>1, <2>2 DEF Process, Label, Carries, HasTask
  <2>4. QED
    BY <2>1, <2>3, QuietStep
<1>6. CASE LoadLocal(c)
  <2> DEFINE p == [cmd[c] EXCEPT !.pc = "saving", !.read = Loaded]
  <2>1. cmd' = [cmd EXCEPT ![c] = p] /\ UNCHANGED <<stores, up, outcomes>>
    BY <1>6 DEF LoadLocal
  <2>2. cmd[c].pc = "local"
    BY <1>6 DEF LoadLocal
  <2>3. p \in Process /\ Carries(p, Accepted)
    BY <1>1, <2>2, LoadedVerified DEF Process, Label, Carries, HasTask
  <2>4. QED
    BY <2>1, <2>3, QuietStep
<1>7. CASE SaveState(c)
  <2>1. /\ t \in Task /\ (cmd[c].result = "completed" => t \in Accepted)
        /\ cmd[c].read \in State /\ cmd[c].read.completed \subseteq Accepted
    BY <1>1, <1>7 DEF SaveState, Carries, HasTask, Process
  <2>2. file' = Noted(cmd[c].read, t, cmd[c].result)
    BY <1>7 DEF SaveState
  <2>3. file' \in State /\ file'.completed \subseteq Accepted
    BY <2>1, <2>2, NotedType
  <2>4. /\ Ends(c) /\ UNCHANGED <<up, outcomes>>
        /\ db' = db /\ torn' = FALSE /\ authority' = authority
    BY <1>7 DEF SaveState
  <2>5. QED
    BY <1>2, <2>3, <2>4, EndStep
<1>8. CASE SaveTorn(c)
  <2>1. /\ Ends(c) /\ UNCHANGED <<up, outcomes>>
        /\ file' = file /\ db' = db /\ torn' = TRUE /\ authority' = authority
    BY <1>8 DEF SaveTorn
  <2>2. QED
    BY <1>2, <2>1, EndStep
<1>9. QED
  BY <1>3, <1>4, <1>5, <1>6, <1>7, <1>8 DEF RecordStep

\* A migration stores what the file said when it was read.
LEMMA MigrationStepKeeps ==
  ASSUME BootstrapInv, NEW c \in Command, MigrationStep(c)
  PROVE  BootstrapInv'
<1>1. cmd[c] \in Process /\ Carries(cmd[c], Accepted)
  BY DEF BootstrapInv, TypeOK
<1>2. /\ file \in State /\ db \in Run
      /\ file.completed \subseteq Accepted /\ db.completed \subseteq Accepted
      /\ torn \in BOOLEAN /\ authority \in BOOLEAN
  BY DEF BootstrapInv, TypeOK, RecordedIsVerified
<1>3. CASE ReadForMigration(c)
  <2> DEFINE p == [cmd[c] EXCEPT !.pc = "migrating", !.read = file]
  <2>1. cmd' = [cmd EXCEPT ![c] = p] /\ UNCHANGED <<stores, up, outcomes>>
    BY <1>3 DEF ReadForMigration
  <2>2. p \in Process /\ Carries(p, Accepted)
    BY <1>1, <1>2 DEF Process, Label, Carries, HasTask
  <2>3. QED
    BY <2>1, <2>2, QuietStep
<1>4. CASE MigrationRefused(c)
  <2>1. /\ Ends(c) /\ UNCHANGED <<up, outcomes>>
        /\ file' = file /\ db' = db /\ torn' = torn /\ authority' = authority
    BY <1>4 DEF MigrationRefused, stores
  <2>2. QED
    BY <1>2, <2>1, EndStep
<1>5. ASSUME NEW cutover \in BOOLEAN, Migrate(c, cutover) PROVE BootstrapInv'
  <2>1. PICK d \in Migrated(cmd[c].read, db) :
          /\ db' = d
          /\ authority' = (authority \/ (cutover /\ InSync(cmd[c].read, d)))
    BY <1>5 DEF Migrate
  <2>2. cmd[c].read \in State /\ cmd[c].read.completed \subseteq Accepted
    BY <1>1 DEF Process, Carries
  <2>3. db' \in Run /\ db'.completed \subseteq Accepted
    BY <1>2, <2>1, <2>2, MigratedType
  <2>4. authority' \in BOOLEAN
    BY <1>2, <2>1
  <2>5. Ends(c) /\ file' = file /\ torn' = torn /\ UNCHANGED <<up, outcomes>>
    BY <1>5 DEF Migrate
  <2>6. QED
    BY <1>2, <2>3, <2>4, <2>5, EndStep
<1>6. QED
  BY <1>3, <1>4, <1>5 DEF MigrationStep

LEMMA KillStep ==
  ASSUME BootstrapInv, NEW c \in Command, Kill(c)
  PROVE  BootstrapInv'
<1>1. /\ Ends(c) /\ UNCHANGED <<up, outcomes>>
      /\ file' = file /\ db' = db /\ torn' = torn /\ authority' = authority
  BY DEF Kill, stores
<1>2. QED
  BY <1>1, EndStep DEF BootstrapInv, TypeOK, RecordedIsVerified

-----------------------------------------------------------------------------
(* The results.                                                            *)

LEMMA NextKeepsBootstrapInv == BootstrapInv /\ [Next]_vars => BootstrapInv'
<1> SUFFICES ASSUME BootstrapInv, [Next]_vars PROVE BootstrapInv'
  OBVIOUS
<1>1. ASSUME NEW c \in Command, CommandStep(c) PROVE BootstrapInv'
  BY <1>1, DecideStep, OutcomeStep, ProofStep, RecordStepKeeps, MigrationStepKeeps,
     KillStep DEF CommandStep
<1>2. CASE Outage
  <2>1. up' \in BOOLEAN /\ UNCHANGED <<file, torn, db, authority, cmd, verified, proved>>
    BY <1>2 DEF Outage, stores, outcomes
  <2>2. Accepted' = Accepted
    BY <2>1 DEF Accepted
  <2>3. QED
    BY <2>1, <2>2 DEF BootstrapInv, TypeOK, RecordedIsVerified, DependenciesVerified
<1>3. CASE GuardedSummary
  <2>1. /\ db' = [db EXCEPT !.points = db.points + 1]
        /\ UNCHANGED <<file, torn, authority, up, cmd, verified, proved>>
    BY <1>3 DEF GuardedSummary, outcomes
  <2>2. db' \in Run /\ db'.completed = db.completed
    BY <2>1 DEF BootstrapInv, TypeOK, Run
  <2>3. Accepted' = Accepted
    BY <2>1 DEF Accepted
  <2>4. QED
    BY <2>1, <2>2, <2>3
    DEF BootstrapInv, TypeOK, RecordedIsVerified, DependenciesVerified
<1>4. CASE UNCHANGED vars
  <2>1. Accepted' = Accepted
    BY <1>4 DEF vars, Accepted
  <2>2. QED
    BY <1>4, <2>1
    DEF vars, BootstrapInv, TypeOK, RecordedIsVerified, DependenciesVerified
<1>5. QED
  BY <1>1, <1>2, <1>3, <1>4 DEF Next

\* The invariant of the stores and of what every command carries.
THEOREM BootstrapInvAlways == Spec => []BootstrapInv
BY InitBootstrapInv, NextKeepsBootstrapInv, PTL DEF Spec

\* Every variable of the two stores and of the commands has its type.
THEOREM BootstrapTypeCorrect == Spec => []TypeOK
<1>1. BootstrapInv => TypeOK
  BY DEF BootstrapInv
<1>2. QED
  BY <1>1, BootstrapInvAlways, PTL

\* Whatever the outages, kills and races of any number of commands,
\* mark_completed and migrate call no task completed that neither verify_task
\* has accepted in run nor codex-proof has proved.
THEOREM NothingUnverifiedIsRecorded == Spec => []RecordedIsVerified
<1>1. BootstrapInv => RecordedIsVerified
  BY DEF BootstrapInv
<1>2. QED
  BY <1>1, BootstrapInvAlways, PTL

\* The dependency check of run, although made on one of two stores that may
\* disagree and long before the outcome, lets no task be verified before what
\* it depends on has been verified or proved.
THEOREM VerifiedInOrder == Spec => []DependenciesVerified
<1>1. BootstrapInv => DependenciesVerified
  BY DEF BootstrapInv
<1>2. QED
  BY <1>1, BootstrapInvAlways, PTL

-----------------------------------------------------------------------------
(* Commands one at a time.                                                 *)

OneCommand == \E c : Command = {c}

\* What a migration has read is still what the file says: the only command that
\* could write the file is the one that has read it.
ReadIsFile == \A c \in Command : cmd[c].pc = "migrating" => cmd[c].read = file

LEMMA CommandReads ==
  ASSUME OneCommand, BootstrapInv, ReadIsFile, NEW c \in Command, CommandStep(c)
  PROVE  ReadIsFile'
<1>1. cmd[c] \in Process /\ \A d \in Command : d = c
  BY DEF OneCommand, BootstrapInv, TypeOK
<1>2. cmd'[c].pc # "migrating" => ReadIsFile'
  BY <1>1 DEF ReadIsFile
<1>3. Ends(c) => ReadIsFile'
  BY <1>2 DEF Ends, Idle, BootstrapInv, TypeOK
<1>4. CASE Decide(c) \/ Verified(c) \/ Rejected(c)
  <2>0. cmd \in [Command -> Process] /\ cmd[c] \in Process
    BY <1>1 DEF BootstrapInv, TypeOK
  <2>1. CASE Decide(c)
    <3>1. PICK t \in Task : RunTask(c, t) \/ RunWaits(c, t)
      BY <2>1 DEF Decide
    <3>2. CASE RunTask(c, t)
      BY <1>2, <2>0, <3>2 DEF RunTask, Process
    <3>3. CASE RunWaits(c, t)
      BY <1>2, <2>0, <3>3 DEF RunWaits, Process
    <3>4. QED
      BY <3>1, <3>2, <3>3
  <2>2. CASE Verified(c)
    BY <1>2, <2>0, <2>2 DEF Verified, Process
  <2>3. CASE Rejected(c)
    BY <1>2, <2>0, <2>3 DEF Rejected, Process
  <2>4. QED
    BY <1>4, <2>1, <2>2, <2>3
<1>5. CASE RecordStep(c)
  <2>0. cmd \in [Command -> Process] /\ cmd[c] \in Process
    BY <1>1 DEF BootstrapInv, TypeOK
  <2>1. CASE InsertPoint(c) \/ FallBack(c) \/ LoadLocal(c)
    <3>1. CASE InsertPoint(c)
      BY <1>2, <2>0, <3>1 DEF InsertPoint, Process
    <3>2. CASE FallBack(c)
      BY <1>2, <2>0, <3>2 DEF FallBack, Goto, Process
    <3>3. CASE LoadLocal(c)
      BY <1>2, <2>0, <3>3 DEF LoadLocal, Process
    <3>4. QED
      BY <2>1, <3>1, <3>2, <3>3
  <2>2. CASE CommitPoint(c) \/ SaveState(c) \/ SaveTorn(c)
    BY <1>3, <2>2 DEF CommitPoint, SaveState, SaveTorn
  <2>3. QED
    BY <1>5, <2>1, <2>2 DEF RecordStep
<1>6. CASE MigrationStep(c)
  <2>1. CASE ReadForMigration(c)
    <3>1. cmd'[c].read = file /\ file' = file
      BY <1>1, <2>1 DEF ReadForMigration, stores, Process, BootstrapInv, TypeOK
    <3>2. QED
      BY <1>1, <3>1 DEF ReadIsFile
  <2>2. CASE MigrationRefused(c) \/ \E cutover \in BOOLEAN : Migrate(c, cutover)
    BY <1>3, <2>2 DEF MigrationRefused, Migrate
  <2>3. QED
    BY <1>6, <2>1, <2>2 DEF MigrationStep
<1>7. CASE Kill(c)
  BY <1>3, <1>7 DEF Kill
<1>8. CASE CodexProof(c) \/ Proved(c)
  <2>0. cmd \in [Command -> Process] /\ cmd[c] \in Process
    BY <1>1 DEF BootstrapInv, TypeOK
  <2>1. CASE CodexProof(c)
    BY <1>2, <2>0, <2>1 DEF CodexProof, Process
  <2>2. CASE Proved(c)
    BY <1>2, <2>0, <2>2 DEF Proved, Process
  <2>3. QED
    BY <1>8, <2>1, <2>2
<1>9. QED
  BY <1>4, <1>5, <1>6, <1>7, <1>8 DEF CommandStep

LEMMA NextReads ==
  OneCommand /\ BootstrapInv /\ ReadIsFile /\ [Next]_vars => ReadIsFile'
<1> SUFFICES ASSUME OneCommand, BootstrapInv, ReadIsFile, [Next]_vars PROVE ReadIsFile'
  OBVIOUS
<1>1. CASE Outage \/ GuardedSummary \/ UNCHANGED vars
  <2>1. cmd' = cmd /\ file' = file
    BY <1>1 DEF Outage, GuardedSummary, vars, stores
  <2>2. QED
    BY <2>1 DEF ReadIsFile
<1>2. CASE \E c \in Command : CommandStep(c)
  BY <1>2, CommandReads
<1>3. QED
  BY <1>1, <1>2 DEF Next

\* Only a migration that is in sync with what it has read sets the authority.
LEMMA CutOverInSync ==
  ASSUME [Next]_vars, ~authority, authority'
  PROVE  \E c \in Command : /\ cmd[c].pc = "migrating"
                            /\ cmd[c].read.completed = db'.completed
<1>1. PICK c \in Command : CommandStep(c)
  BY DEF Next, vars, stores, Outage, GuardedSummary
<1>2. PICK cutover \in BOOLEAN : Migrate(c, cutover)
  <2>1. ~(Decide(c) \/ Verified(c) \/ Rejected(c) \/ Kill(c))
    BY DEF Decide, RunTask, RunWaits, Verified, Rejected, Kill, stores
  <2>2. ~RecordStep(c)
    BY DEF RecordStep, InsertPoint, CommitPoint, FallBack, LoadLocal,
           SaveState, SaveTorn, stores
  <2>3. ~ReadForMigration(c) /\ ~MigrationRefused(c)
    BY DEF ReadForMigration, MigrationRefused, stores
  <2>4. ~CodexProof(c) /\ ~Proved(c)
    BY DEF CodexProof, Proved, stores
  <2>5. QED
    BY <1>1, <2>1, <2>2, <2>3, <2>4 DEF CommandStep, MigrationStep
<1>3. InSync(cmd[c].read, db') /\ cmd[c].pc = "migrating"
  BY <1>2 DEF Migrate
<1>4. QED
  BY <1>3 DEF InSync

\* While commands run one at a time, migrate makes the database the authority
\* only with everything the file calls completed, through outages, kills, torn
\* files, runs left behind by an earlier migration and guarded runs beside it.
THEOREM CutOverIsComplete ==
  ASSUME OneCommand
  PROVE  Spec => CutOverComplete
<1>1. Init => BootstrapInv /\ ReadIsFile
  <2>1. Init => ReadIsFile
    BY DEF Init, ReadIsFile, Idle
  <2>2. QED
    BY <2>1, InitBootstrapInv
<1>2. BootstrapInv /\ ReadIsFile /\ [Next]_vars => BootstrapInv' /\ ReadIsFile'
  BY NextKeepsBootstrapInv, NextReads
<1>3. BootstrapInv /\ ReadIsFile /\ [Next]_vars
        => [~authority /\ authority' => file.completed \subseteq db'.completed]_vars
  BY CutOverInSync DEF ReadIsFile
<1>4. QED
  BY <1>1, <1>2, <1>3, PTL DEF Spec, CutOverComplete
=============================================================================
