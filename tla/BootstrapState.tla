--------------------------- MODULE BootstrapState ---------------------------
(***************************************************************************)
(* Where the bootstrap program keeps what is completed and what is blocked *)
(* (src/ai_ent/bootstrap/state.py and state_reconciliation.py): a local    *)
(* JSON file, until a migration makes the database the authority.          *)
(*                                                                         *)
(* A command of the operator reads the state, executes and verifies one    *)
(* task, which takes long, and then records the outcome wherever it can;   *)
(* the command codex-proof does so for its one task without reading it.    *)
(* The database may be out of reach at any time, commands may be killed,   *)
(* and guarded runs append checkpoints to the same run.  The option        *)
(* --force, with which the operator answers for the dependencies, is left  *)
(* out.                                                                    *)
(***************************************************************************)
EXTENDS Integers

CONSTANTS
    Command,      \* commands the operator runs, several perhaps at once
    Task, Deps,   \* the bootstrap tasks and what each depends on
    ProofTask,    \* TASK-0013, which codex-proof completes
    NoTask,       \* no task
    MaxPoints     \* bound on the checkpoints of the run

ASSUME TaskAssumption ==
    /\ Deps \in [Task -> SUBSET Task]
    /\ NoTask \notin Task /\ ProofTask \in Task
    /\ MaxPoints \in Nat

VARIABLES
    file,       \* what the JSON file says
    torn,       \* the JSON file cannot be parsed
    db,         \* the row of the bootstrap run, with its checkpoints
    authority,  \* the database is the authority
    up,         \* the database can be reached
    cmd,        \* each command: where it is, its task, what it is to record
                \* of it, the state it has read and will write somewhere, and
                \* the sequence number of the checkpoint it has inserted
    verified,   \* tasks that run has verified
    proved      \* those that codex-proof has, without asking what they depend on

outcomes == <<verified, proved>>
vars == <<file, torn, db, authority, up, cmd, verified, proved>>
stores == <<file, torn, db, authority>>

\* The order of the completed tasks is that in which they were recorded, in
\* either store; what can differ is the set and which of them was the last.
State == [completed : SUBSET Task, last : Task \cup {NoTask},
          blocked : SUBSET Task]
NoState == [completed |-> {}, last |-> NoTask, blocked |-> {}]

\* head: last_verified_commit, which the file never holds.
Run == [exists : BOOLEAN, completed : SUBSET Task, last : Task \cup {NoTask},
        current : Task \cup {NoTask}, blocked : BOOLEAN, head : BOOLEAN,
        points : Nat]
NoRun == [exists |-> FALSE, completed |-> {}, last |-> NoTask,
          current |-> NoTask, blocked |-> FALSE, head |-> FALSE, points |-> 0]

Idle == [pc |-> "idle", task |-> NoTask, result |-> "none", read |-> NoState,
         place |-> 0]

\* _load_database: a run has room for one blocked task.
BlockedInRun(d) == IF d.blocked THEN {d.current} \cap Task ELSE {}

\* load_state: the database while it answers and is the authority.
AskDatabase == up /\ authority
CanLoad == AskDatabase \/ ~torn
Loaded ==
    IF AskDatabase
    THEN [completed |-> db.completed, last |-> db.last,
          blocked |-> BlockedInRun(db)]
    ELSE file

-----------------------------------------------------------------------------
Init ==
    /\ file = NoState /\ torn = FALSE
    /\ db = NoRun /\ authority = FALSE
    /\ up \in BOOLEAN
    /\ cmd = [c \in Command |-> Idle]
    /\ verified = {} /\ proved = {}

Goto(c, label) == cmd' = [cmd EXCEPT ![c] = [@ EXCEPT !.pc = label]]
Ends(c) == cmd' = [cmd EXCEPT ![c] = Idle]

-----------------------------------------------------------------------------
(* bootstrap.py run: what it decides and what comes out of the execution.  *)

\* Mutant: nobody asks for the dependencies.
NothingMissing(t) == TRUE

DependenciesCompleted(t) == Deps[t] \subseteq Loaded.completed

RunTask(c, t) ==
    /\ cmd[c].pc = "idle" /\ CanLoad
    /\ DependenciesCompleted(t)
    /\ cmd' = [cmd EXCEPT ![c] = [@ EXCEPT !.pc = "executing", !.task = t]]
    /\ UNCHANGED <<stores, up, outcomes>>

RunWaits(c, t) ==
    /\ cmd[c].pc = "idle" /\ CanLoad
    /\ ~DependenciesCompleted(t)
    /\ cmd' = [cmd EXCEPT ![c] =
                        [@ EXCEPT !.pc = "recording", !.task = t,
                                  !.result = "blocked"]]
    /\ UNCHANGED <<stores, up, outcomes>>

Verified(c) ==
    /\ cmd[c].pc = "executing"
    /\ verified' = verified \cup {cmd[c].task}
    /\ cmd' = [cmd EXCEPT ![c] =
                        [@ EXCEPT !.pc = "recording", !.result = "completed"]]
    /\ UNCHANGED <<stores, up, proved>>

Rejected(c) ==
    /\ cmd[c].pc = "executing"
    /\ cmd' = [cmd EXCEPT ![c] =
                        [@ EXCEPT !.pc = "recording", !.result = "blocked"]]
    /\ UNCHANGED <<stores, up, outcomes>>

-----------------------------------------------------------------------------
(* bootstrap.py codex-proof.                                               *)

\* Nothing is loaded and no dependency asked for.
CodexProof(c) ==
    /\ cmd[c].pc = "idle"
    /\ cmd' = [cmd EXCEPT ![c] = [@ EXCEPT !.pc = "proving", !.task = ProofTask]]
    /\ UNCHANGED <<stores, up, outcomes>>

\* A proof that fails records nothing: the command just ends.
Proved(c) ==
    /\ cmd[c].pc = "proving"
    /\ proved' = proved \cup {cmd[c].task}
    /\ cmd' = [cmd EXCEPT ![c] =
                        [@ EXCEPT !.pc = "recording", !.result = "completed"]]
    /\ UNCHANGED <<stores, up, verified>>

-----------------------------------------------------------------------------
(* mark_completed and mark_blocked, first in the database.                 *)

\* The run's row is updated, and with it locked, before the next sequence
\* number is read and the checkpoint inserted with it.
InsertPoint(c) ==
    /\ cmd[c].pc = "recording" /\ AskDatabase
    /\ db.points < MaxPoints
    /\ \A d \in Command : cmd[d].pc # "inserting"
    /\ cmd' = [cmd EXCEPT ![c] =
                        [@ EXCEPT !.pc = "inserting", !.place = db.points + 1]]
    /\ UNCHANGED <<stores, up, outcomes>>

\* A new completion ends every block; a new block takes the place of another.
\* update_run_state takes None for "leave it", so current is never cleared.
Marked(d, t, res) ==
    IF res = "completed"
    THEN [d EXCEPT !.completed = @ \cup {t}, !.last = t, !.blocked = FALSE,
                   !.head = TRUE, !.points = @ + 1]
    ELSE [d EXCEPT !.current = t, !.blocked = TRUE, !.points = @ + 1]

CommitPoint(c) ==
    /\ cmd[c].pc = "inserting" /\ up
    /\ cmd[c].place = db.points + 1
    /\ db' = Marked(db, cmd[c].task, cmd[c].result)
    /\ Ends(c)
    /\ UNCHANGED <<file, torn, authority, up, outcomes>>

\* The database is not the authority, is out of reach, or refuses a sequence
\* number that a guarded run has used meanwhile: the file takes the outcome.
FallBack(c) ==
    /\ \/ cmd[c].pc = "recording" /\ ~AskDatabase
       \/ cmd[c].pc = "inserting" /\ (~up \/ cmd[c].place # db.points + 1)
    /\ Goto(c, "local")
    /\ UNCHANGED <<stores, up, outcomes>>

\* _mark_completed_local and _mark_blocked_local start from whatever
\* load_state returns then, which may be the database's state.
LoadLocal(c) ==
    /\ cmd[c].pc = "local" /\ CanLoad
    /\ cmd' = [cmd EXCEPT ![c] = [@ EXCEPT !.pc = "saving", !.read = Loaded]]
    /\ UNCHANGED <<stores, up, outcomes>>

\* Mutant: whatever the command did counts as done.
NotedAsDone(s, t, res) ==
    [completed |-> s.completed \cup {t}, last |-> t,
     blocked |-> s.blocked \ {t}]

Noted(s, t, res) ==
    IF res = "completed"
    THEN [completed |-> s.completed \cup {t}, last |-> t,
          blocked |-> s.blocked \ {t}]
    ELSE [s EXCEPT !.blocked = @ \cup {t}]

SaveState(c) ==
    /\ cmd[c].pc = "saving"
    /\ file' = Noted(cmd[c].read, cmd[c].task, cmd[c].result)
    /\ torn' = FALSE
    /\ Ends(c)
    /\ UNCHANGED <<db, authority, up, outcomes>>

\* Killed after the file is truncated and before all of it is written.
SaveTorn(c) ==
    /\ cmd[c].pc = "saving"
    /\ torn' = TRUE
    /\ Ends(c)
    /\ UNCHANGED <<file, db, authority, up, outcomes>>
-----------------------------------------------------------------------------
(* bootstrap.py state-migrate.                                             *)

\* The file is read, validated and backed up before the session is opened.
ReadForMigration(c) ==
    /\ cmd[c].pc = "idle"
    /\ ~torn /\ file # NoState
    /\ cmd' = [cmd EXCEPT ![c] = [@ EXCEPT !.pc = "migrating", !.read = file]]
    /\ UNCHANGED <<stores, up, outcomes>>

\* Mutant: an existing run is taken over as it is.
AlwaysInSync(s, d) == TRUE

\* _compare: the outcome IN_SYNC.
InSync(s, d) ==
    /\ s.completed = d.completed /\ s.last = d.last
    /\ s.blocked = BlockedInRun(d)
    /\ d.current = NoTask /\ ~d.head

\* Mutant: the last completed task is migrated even if there is none.
WrittenWithLast(s, blocked) ==
    [NoRun EXCEPT !.exists = TRUE, !.completed = s.completed \cup {s.last},
                  !.last = s.last, !.current = blocked,
                  !.blocked = blocked # NoTask]

\* _write_local_to_database: only one of the blocked tasks fits in.  Points
\* are counted from here.
Written(s, blocked) ==
    [NoRun EXCEPT !.exists = TRUE, !.completed = s.completed, !.last = s.last,
                  !.current = blocked, !.blocked = blocked # NoTask]

\* A run that agrees with the file is left as it is, the checkpoints of other
\* programs included.
Migrated(s, d) ==
    IF d.exists THEN {d}
    ELSE {Written(s, b) : b \in IF s.blocked = {} THEN {NoTask} ELSE s.blocked}

\* Whatever has been written is committed, in sync or not.
Migrate(c, cutover) ==
    /\ cmd[c].pc = "migrating" /\ up
    /\ db.exists => InSync(cmd[c].read, db)
    /\ \E d \in Migrated(cmd[c].read, db) :
        /\ db' = d
        /\ authority' = (authority \/ (cutover /\ InSync(cmd[c].read, d)))
    /\ Ends(c)
    /\ UNCHANGED <<file, torn, up, outcomes>>

MigrationRefused(c) ==
    /\ cmd[c].pc = "migrating"
    /\ ~up \/ (db.exists /\ ~InSync(cmd[c].read, db))
    /\ Ends(c)
    /\ UNCHANGED <<stores, up, outcomes>>
-----------------------------------------------------------------------------
(* The environment.                                                        *)

\* A command is killed, ends in an exception because the file is torn, or is a
\* proof that fails.
Kill(c) ==
    /\ cmd[c].pc # "idle"
    /\ Ends(c)
    /\ UNCHANGED <<stores, up, outcomes>>

Outage ==
    /\ up' = ~up
    /\ UNCHANGED <<stores, cmd, outcomes>>

\* GuardedRunner._record_summary appends a snapshot to the same run.
GuardedSummary ==
    /\ AskDatabase /\ db.points < MaxPoints
    /\ db' = [db EXCEPT !.points = @ + 1]
    /\ UNCHANGED <<file, torn, authority, up, cmd, outcomes>>

-----------------------------------------------------------------------------
Decide(c) == \E t \in Task : RunTask(c, t) \/ RunWaits(c, t)
RecordStep(c) ==
    \/ InsertPoint(c) \/ CommitPoint(c) \/ FallBack(c)
    \/ LoadLocal(c) \/ SaveState(c) \/ SaveTorn(c)
MigrationStep(c) ==
    \/ ReadForMigration(c) \/ MigrationRefused(c)
    \/ \E cutover \in BOOLEAN : Migrate(c, cutover)

CommandStep(c) ==
    \/ Decide(c) \/ Verified(c) \/ Rejected(c)
    \/ CodexProof(c) \/ Proved(c)
    \/ RecordStep(c) \/ MigrationStep(c) \/ Kill(c)

Next == (\E c \in Command : CommandStep(c)) \/ Outage \/ GuardedSummary

Spec == Init /\ [][Next]_vars
=============================================================================
