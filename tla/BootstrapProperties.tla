------------------------ MODULE BootstrapProperties ------------------------
(***************************************************************************)
(* What the two stores of the bootstrap program guarantee, and what they   *)
(* are documented to and do not.                                           *)
(***************************************************************************)
EXTENDS BootstrapState

Label == {"idle", "executing", "recording", "inserting", "local", "saving",
          "migrating", "proving"}
Process == [pc : Label, task : Task \cup {NoTask},
            result : {"none", "completed", "blocked"}, read : State, place : Nat]

\* Every variable has its type.
TypeOK ==
    /\ file \in State /\ torn \in BOOLEAN
    /\ db \in Run /\ authority \in BOOLEAN /\ up \in BOOLEAN
    /\ cmd \in [Command -> Process]
    /\ verified \in SUBSET Task /\ proved \in SUBSET {ProofTask}

Accepted == verified \cup proved

\* Neither store ever calls a task completed that has not passed verification,
\* in run or in codex-proof: not after an outage, a torn file, a copy from one
\* store to the other or a race of two commands.
RecordedIsVerified == (file.completed \cup db.completed) \subseteq Accepted

\* run verifies no task before everything it depends on has been accepted,
\* whichever store the command asked.
DependenciesVerified == \A t \in verified : Deps[t] \subseteq Accepted

\* While commands are run one at a time, the database becomes the authority
\* only with everything the file calls completed: a run left behind by an
\* earlier migration does not take over.
CutOverComplete ==
    [][~authority /\ authority' => file.completed \subseteq db'.completed]_vars

-----------------------------------------------------------------------------
\* "mark PostgreSQL as the authoritative runtime source while preserving local
\* JSON as legacy/pre-DB fallback": once the database is the authority, no
\* completion is recorded in the file only.
FallbackIsPreDatabase ==
    [][authority => file'.completed \subseteq file.completed \cup db.completed]_vars
=============================================================================
