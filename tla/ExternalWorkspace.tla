--------------------------- MODULE ExternalWorkspace ---------------------------
(***************************************************************************)
(* The workspaces of generated applications: GeneratedAppWorkspaceManager  *)
(* and GeneratedAppOperationController of src/ai_ent/external_project.py.  *)
(*                                                                         *)
(* Nothing is locked: callers work on the same directories and on the same *)
(* application, each step of a call sees what the others left, and a call  *)
(* may end at any step.  Each call brings its own record of the project.   *)
(* Meanwhile whoever develops an application changes its files; that they  *)
(* change .git or .ai-enterprise is left out.                              *)
(***************************************************************************)
EXTENDS ExternalProject, Sequences

CONSTANTS
    Caller,         \* processes that provision or operate
    Record,         \* the project records they bring
    ProjectId,
    Root,           \* workspace roots
    GeneratedRoot,  \* those under the generated-app root, outside the control plane
    NoMarker, Torn, \* no marker file, and one that cannot be read
    Found,          \* those that already hold files nobody claimed
    Tree, Fresh,    \* what the files of an application may be, and are at first
    Length, Blocks, \* in how many blocks an archive of them is written, at most
    NoFile, Hole,   \* no archive, and a block of one that nobody wrote
    FrozenPlan,     \* frozen plans that are validated
    Budget          \* how many calls, ends, edits and validations are explored together

ASSUME WorkspaceAssumption ==
    /\ GeneratedRoot \subseteq Root /\ Found \subseteq Root
    /\ \A p \in Record : p.id \in ProjectId /\ p.workspace.root \in Root
    /\ \A p \in Record :
        /\ Signature(p) \notin {NoMarker, Torn}
        /\ p.repository.url \notin {"none", "local"}
    /\ NoMarker # Torn /\ Unset \notin Record
    /\ Fresh \in Tree /\ Blocks \in Nat /\ Length \in [Tree -> 1..Blocks]

\* A frozen plan is a file: it lists its tasks, and for each one what it
\* depends on.
ASSUME FrozenPlanAssumption ==
    \A f \in FrozenPlan :
        /\ IsFiniteSet(f.tasks) /\ f.width \in Nat
        /\ f.depends = [t \in f.tasks |-> f.depends[t]]

VARIABLES
    entries,    \* the roots with something in them
    marker,     \* .ai-enterprise/workspace.json: NoMarker, Torn or what it says
    remote,     \* .git: "none", "local", or the remote it has
    app,        \* whether each project's application runs
    tree,       \* the files of the application
    archive,    \* its archive in each root: NoFile, or what each block shows
    caller,     \* each caller's step, record and commands; while it writes an
                \* archive, what it listed and how far it is
    claimed,    \* the signatures that ever found each root free
    seen,       \* what the last writers of each archive, those that wrote it
                \* at the same time, have listed and read
    cut,        \* the archives of which one of those ended halfway
    frozen,     \* the frozen plan validated last
    budget      \* what is left of Budget

files == <<entries, marker, remote, tree>>
history == <<claimed, seen, cut>>
vars == <<entries, marker, remote, tree, app, archive, caller, claimed, seen, cut,
          frozen, budget>>

Signatures == {Signature(p) : p \in Record}
Remotes == {p.repository.url : p \in Record} \ {Unset}

Step == {"idle", "prepare", "populate", "open", "write",
         "initialize", "init", "remote", "add", "operate", "run", "pack", "fill"}

Idle == [step |-> "idle", project |-> Unset, commands |-> <<>>, listed |-> Unset, place |-> 0]
Archives == Root \X ProjectId

Init ==
    /\ entries = Found
    /\ marker = [r \in Root |-> NoMarker]
    /\ remote = [r \in Root |-> "none"]
    /\ tree = [r \in Root |-> Fresh]
    /\ app = [x \in ProjectId |-> "stopped"]
    /\ archive = [a \in Archives |-> NoFile]
    /\ caller = [c \in Caller |-> Idle]
    /\ claimed = [r \in Root |-> {}]
    /\ seen = [a \in Archives |-> {}]
    /\ cut = {}
    /\ frozen = Unset
    /\ budget \in Budget

Spend(what) == budget[what] > 0 /\ budget' = [budget EXCEPT ![what] = @ - 1]

RootOf(c) == caller[c].project.workspace.root
ArchiveOf(c) == <<RootOf(c), caller[c].project.id>>

\* A call begins with the validation of the project and of its root.
Begin(c, step, p, commands) ==
    /\ caller[c].step = "idle"
    /\ ServiceSafe(p) /\ p.workspace.root \in GeneratedRoot
    /\ Spend("calls")
    /\ caller' = [caller EXCEPT ![c] =
            [Idle EXCEPT !.step = step, !.project = p, !.commands = commands]]
    /\ UNCHANGED <<files, app, archive, history, frozen>>

Goto(c, step) == caller' = [caller EXCEPT ![c].step = step]

Return(c) == caller' = [caller EXCEPT ![c] = Idle]

\* Killed, out of disk space, or refused by git or docker.
End(c) ==
    /\ caller[c].step # "idle"
    /\ Spend("ends")
    /\ Return(c)
    /\ cut' = IF caller[c].step = "fill" THEN cut \cup {ArchiveOf(c)} ELSE cut
    /\ UNCHANGED <<files, app, archive, claimed, seen, frozen>>

Owned(c) == marker[RootOf(c)] = Signature(caller[c].project)

-----------------------------------------------------------------------------
(* prepare_workspace. *)

\* Mutant: a marker is not compared with the project.
AnyMarker(c) == marker[RootOf(c)] # Torn

\* Mutant: a marker that cannot be read is taken for none.
UnreadableAsNone(c) ==
    \/ Owned(c) \/ marker[RootOf(c)] = Torn
    \/ marker[RootOf(c)] = NoMarker /\ RootOf(c) \notin entries

\* The marker is the project's own, or there is neither a marker nor anything else.
OwnedOrEmpty(c) ==
    \/ Owned(c)
    \/ marker[RootOf(c)] = NoMarker /\ RootOf(c) \notin entries

CheckWorkspace(c) ==
    /\ caller[c].step = "prepare"
    /\ IF OwnedOrEmpty(c)
       THEN /\ Goto(c, "populate")
            /\ claimed' = [claimed EXCEPT ![RootOf(c)] =
                    IF marker[RootOf(c)] = NoMarker THEN @ \cup {Signature(caller[c].project)} ELSE @]
       ELSE Return(c) /\ UNCHANGED claimed
    /\ UNCHANGED <<files, app, archive, seen, cut, frozen, budget>>

\* The root, the allowed roots and the directory of the marker.
MakeDirectories(c) ==
    /\ caller[c].step = "populate"
    /\ entries' = entries \cup {RootOf(c)}
    /\ Goto(c, "open")
    /\ UNCHANGED <<marker, remote, tree, app, archive, history, frozen, budget>>

\* write_bytes empties the file before it writes.
OpenMarker(c) ==
    /\ caller[c].step = "open"
    /\ marker' = [marker EXCEPT ![RootOf(c)] = Torn]
    /\ Goto(c, "write")
    /\ UNCHANGED <<entries, remote, tree, app, archive, history, frozen, budget>>

\* Two that write different markers at once: the longer may show behind the other.
Contested(c) == marker[RootOf(c)] \notin {Torn, Signature(caller[c].project)}

WriteMarker(c) ==
    /\ caller[c].step = "write"
    /\ \E m \in {Signature(caller[c].project)} \cup (IF Contested(c) THEN {Torn} ELSE {}) :
            marker' = [marker EXCEPT ![RootOf(c)] = m]
    /\ Return(c)
    /\ UNCHANGED <<entries, remote, tree, app, archive, history, frozen, budget>>

-----------------------------------------------------------------------------
(* initialize_repository. *)

RequireMarker(c) ==
    /\ caller[c].step = "initialize"
    /\ IF Owned(c) THEN Goto(c, "init") ELSE Return(c)
    /\ UNCHANGED <<files, app, archive, history, frozen, budget>>

\* A repository that is there is kept.
GitInit(c) ==
    /\ caller[c].step = "init"
    /\ remote' = [remote EXCEPT ![RootOf(c)] = IF @ = "none" THEN "local" ELSE @]
    /\ IF caller[c].project.repository.url = Unset THEN Return(c) ELSE Goto(c, "remote")
    /\ UNCHANGED <<entries, marker, tree, app, archive, history, frozen, budget>>

\* A remote that is there is kept; the call fails if it is another one.
ReadRemote(c) ==
    /\ caller[c].step = "remote"
    /\ IF remote[RootOf(c)] = "local" THEN Goto(c, "add") ELSE Return(c)
    /\ UNCHANGED <<files, app, archive, history, frozen, budget>>

\* Mutant: the remote is set.
SetRemote(c) ==
    /\ caller[c].step = "add"
    /\ remote' = [remote EXCEPT ![RootOf(c)] = caller[c].project.repository.url]
    /\ Return(c)
    /\ UNCHANGED <<entries, marker, tree, app, archive, history, frozen, budget>>

\* git adds no remote of a name there is.
AddRemote(c) ==
    /\ caller[c].step = "add"
    /\ remote' = [remote EXCEPT ![RootOf(c)] =
            IF @ = "local" THEN caller[c].project.repository.url ELSE @]
    /\ Return(c)
    /\ UNCHANGED <<entries, marker, tree, app, archive, history, frozen, budget>>

-----------------------------------------------------------------------------
(* GeneratedAppOperationController.run. *)

\* A blocked operation has no commands.
PlanOperation(c) ==
    /\ caller[c].step = "operate"
    /\ IF Owned(c) /\ caller[c].commands # <<>>
       THEN Goto(c, IF caller[c].commands = <<"archive">> THEN "pack" ELSE "run")
       ELSE Return(c)
    /\ UNCHANGED <<files, app, archive, history, frozen, budget>>

\* Mutant: the command is taken for the state.
CommandAsState(command, state) == command

After(command, state) ==
    CASE command = "up" -> "running" [] command = "stop" -> "stopped" [] OTHER -> state

RunCommand(c) ==
    /\ caller[c].step = "run"
    /\ app' = [app EXCEPT ![caller[c].project.id] = After(Head(caller[c].commands), @)]
    /\ IF Len(caller[c].commands) = 1 THEN Return(c)
       ELSE caller' = [caller EXCEPT ![c].commands = Tail(@)]
    /\ UNCHANGED <<files, archive, history, frozen, budget>>

\* What an archive takes in: the application's files, and the marker among them.
Content(r) == <<tree[r], marker[r]>>

Writers(a) == {d \in Caller : caller[d].step = "fill" /\ ArchiveOf(d) = a}

Size(content) == Length[content[1]]

\* One who opens an archive nobody is writing sees it anew.
Sees(a, content) ==
    seen' = [seen EXCEPT ![a] = IF Writers(a) = {} THEN {content} ELSE @ \cup {content}]

\* Mutant: the file is written over, but not emptied first.
OverwriteArchive(c) ==
    LET a == ArchiveOf(c)
    IN  /\ caller[c].step = "pack"
        /\ archive' = [archive EXCEPT ![a] = IF @ = NoFile THEN [i \in 1..Blocks |-> Hole] ELSE @]
        /\ caller' = [caller EXCEPT ![c].step = "fill", ![c].listed = Content(RootOf(c)),
                                    ![c].place = 0]
        /\ Sees(a, Content(RootOf(c)))
        /\ cut' = IF Writers(a) = {} THEN cut \ {a} ELSE cut
        /\ UNCHANGED <<files, app, claimed, frozen, budget>>

\* The file is emptied, whoever else is writing it, and the files are listed.
OpenArchive(c) ==
    LET a == ArchiveOf(c)
    IN  /\ caller[c].step = "pack"
        /\ archive' = [archive EXCEPT ![a] = [i \in 1..Blocks |-> Hole]]
        /\ caller' = [caller EXCEPT ![c].step = "fill", ![c].listed = Content(RootOf(c)),
                                    ![c].place = 0]
        /\ Sees(a, Content(RootOf(c)))
        /\ cut' = IF Writers(a) = {} THEN cut \ {a} ELSE cut
        /\ UNCHANGED <<files, app, claimed, frozen, budget>>

\* The files are packed one by one: some as they were listed, some as they are now.
Packable(c) == {caller[c].listed, Content(RootOf(c))}

\* Each caller writes on from where it is in the file itself.
WriteBlock(c) ==
    LET a == ArchiveOf(c)
        i == caller[c].place + 1
    IN  /\ caller[c].step = "fill"
        /\ \E content \in Packable(c) :
                /\ i <= Size(content)
                /\ archive' = [archive EXCEPT ![a] = [@ EXCEPT ![i] = content]]
        /\ Sees(a, Content(RootOf(c)))
        /\ caller' = [caller EXCEPT ![c].place = i]
        /\ UNCHANGED <<files, app, claimed, cut, frozen, budget>>

CloseArchive(c) ==
    /\ caller[c].step = "fill"
    /\ \E content \in Packable(c) : Size(content) <= caller[c].place
    /\ Sees(ArchiveOf(c), Content(RootOf(c)))
    /\ Return(c)
    /\ UNCHANGED <<files, app, archive, claimed, cut, frozen, budget>>

-----------------------------------------------------------------------------

\* Whoever develops the application in a workspace changes its files.
Edit(r) ==
    /\ r \in entries
    /\ Spend("edits")
    /\ \E t \in Tree \ {tree[r]} : tree' = [tree EXCEPT ![r] = t]
    /\ UNCHANGED <<entries, marker, remote, app, archive, caller, history, frozen>>

\* validate_external_project_frozen_plan, on its way to the import.
ValidatePlan ==
    /\ Spend("plans")
    /\ \E f \in FrozenPlan : Importable(f) /\ frozen' = f
    /\ UNCHANGED <<files, app, archive, caller, history>>

Provision(c) ==
    \/ \E p \in Record : Begin(c, "prepare", p, <<>>) \/ Begin(c, "initialize", p, <<>>)
    \/ CheckWorkspace(c) \/ MakeDirectories(c) \/ OpenMarker(c) \/ WriteMarker(c)
    \/ RequireMarker(c) \/ GitInit(c) \/ ReadRemote(c) \/ AddRemote(c)

Operate(c) ==
    \/ \E p \in Record, o \in OperationKinds, g \in UNION {p.plan.gates : p \in Record},
          confirmed \in BOOLEAN :
            Begin(c, "operate", p, IF Permitted(p, o, g, confirmed) THEN Commands(o) ELSE <<>>)
    \/ PlanOperation(c) \/ RunCommand(c)
    \/ OpenArchive(c) \/ WriteBlock(c) \/ CloseArchive(c)

Next ==
    \/ \E c \in Caller : Provision(c) \/ Operate(c) \/ End(c)
    \/ \E r \in Root : Edit(r)
    \/ ValidatePlan

Spec == Init /\ [][Next]_vars
=============================================================================
