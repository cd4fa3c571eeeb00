-------------------------- MODULE WorkspaceProperties --------------------------
(***************************************************************************)
(* What provisioning and operating generated applications promises.        *)
(***************************************************************************)
EXTENDS ExternalWorkspace

Contents == Tree \X (Signatures \cup {NoMarker, Torn})

CallerRow ==
    [step : Step, project : Record \cup {Unset}, commands : Seq({"up"} \cup OperationKinds),
     listed : Contents \cup {Unset}, place : 0..Blocks]

\* Every variable has the values of its file, process or service.
TypeOK ==
    /\ entries \subseteq Root
    /\ marker \in [Root -> Signatures \cup {NoMarker, Torn}]
    /\ remote \in [Root -> Remotes \cup {"none", "local"}]
    /\ app \in [ProjectId -> {"stopped", "running"}]
    /\ tree \in [Root -> Tree]
    /\ archive \in [Archives -> {NoFile} \cup [1..Blocks -> Contents \cup {Hole}]]
    /\ caller \in [Caller -> CallerRow]
    /\ claimed \in [Root -> SUBSET Signatures]
    /\ seen \in [Archives -> SUBSET Contents]
    /\ cut \subseteq Archives
    /\ frozen = Unset \/ frozen \in FrozenPlan

\* Whoever uses a workspace found it free: a marker names, and a remote,
\* an application or an archive belongs to, only a project that met neither a
\* marker nor anything else there, and a repository has a marker beside it,
\* whatever callers run at once and wherever they end
\* (_require_owned_or_empty_workspace, _require_workspace_marker).
UsedByClaimant ==
    /\ \A r \in Root :
        /\ marker[r] \in claimed[r] \cup {NoMarker, Torn}
        /\ remote[r] # "none" => marker[r] # NoMarker
        /\ remote[r] \notin {"none", "local"} =>
            \E p \in Record : Signature(p) \in claimed[r] /\ p.repository.url = remote[r]
    /\ \A x \in ProjectId : app[x] = "running" =>
            \E r \in Root : \E s \in claimed[r] : s.project = x
    /\ \A r \in Root, x \in ProjectId : archive[<<r, x>>] # NoFile =>
            \E s \in claimed[r] : s.project = x
    /\ \A r \in Found : claimed[r] = {}

Packed(content) == [i \in 1..Blocks |-> IF i <= Size(content) THEN content ELSE Hole]

\* An archive shows nothing but what its last writers found in the workspace,
\* whatever longer or unfinished archive was there before; and once the last of
\* them is done and none was cut off, it is the archive of the files, provided all
\* of them found the same: callers who overlap, each emptying the file under the
\* other and writing on from its own place, do each other no harm unless somebody
\* works on the application meanwhile (_write_generated_app_archive).
ArchivesSound ==
    \A a \in Archives : archive[a] # NoFile =>
        /\ \A i \in 1..Blocks : archive[a][i] \in seen[a] \cup {Hole}
        /\ \A content \in seen[a] :
            seen[a] = {content} /\ Writers(a) = {} /\ a \notin cut =>
                archive[a] = Packed(content)

\* The steps at which a call has found the workspace its own.
Claiming == {"populate", "open", "write", "init", "remote", "add", "run", "pack", "fill"}

Shut(r) ==
    /\ r \in entries /\ marker[r] \notin Signatures
    /\ \A c \in Caller : caller[c].step \in Claiming => RootOf(c) # r

\* Where there is something but no readable marker, as a call leaves it that dies
\* between the directories and the marker or two whose markers ran into each
\* other, every later call is refused and writes nothing, its own project's
\* included (_require_owned_or_empty_workspace, _require_workspace_marker).
UnreadableStaysShut ==
    [][\A r \in Root : Shut(r) =>
            /\ Shut(r)'
            /\ marker'[r] = marker[r] /\ remote'[r] = remote[r]
            /\ \A x \in ProjectId : archive'[<<r, x>>] = archive[<<r, x>>]]_vars

\* A repository is never made anew, and the remote it is bound to stays,
\* although callers with different remotes read it before they add theirs
\* (_ensure_remote).
RemoteKept ==
    [][\A r \in Root : remote[r] # "none" =>
            remote'[r] # "none" /\ (remote[r] # "local" => remote'[r] = remote[r])]_vars

-----------------------------------------------------------------------------
(* What the import relies on. *)

WaveOf(f, t) ==
    LET placed == PlacedIn(f)
    IN  CHOOSE k \in DOMAIN placed : t \in placed[k] /\ (k = 0 \/ t \notin placed[k - 1])

\* A frozen plan that passes validation is handed to the runtime as a graph:
\* every dependency is a task of the plan and in an earlier wave; every gate is
\* for one of its tasks and approved only where the project's plan requires it;
\* no gate is left pending once the project executes
\* (validate_external_project_frozen_plan, _topological_waves).
AcceptedPlanSound ==
    frozen # Unset =>
        LET handed == Handed(frozen)
            p == frozen.project
        IN  /\ handed.edges \subseteq handed.tasks \X handed.tasks
            /\ \A e \in handed.edges : WaveOf(frozen, e[2]) < WaveOf(frozen, e[1])
            /\ \A g \in DOMAIN handed.gates :
                /\ g \in p.plan.gates
                /\ handed.gates[g].task \in handed.tasks
                /\ p.lifecycle \in ExecutionStates => handed.gates[g].status = "approved"
            /\ handed.width > 0
=============================================================================
