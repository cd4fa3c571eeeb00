---------------------------- MODULE WorkspaceProofs ----------------------------
(***************************************************************************)
(* Workspaces are used only by projects that found them free, those whose  *)
(* marker cannot be read are left alone, and archives show what those who  *)
(* write them found, for any callers, projects and roots.                  *)
(***************************************************************************)
EXTENDS WorkspaceProperties, SequenceTheorems, DependencyOrder

\* What the file of an archive may hold.
Filled == [1..Blocks -> Contents \cup {Hole}]

\* What a call knows of its workspace while it goes on.
Knows(k, cl, mk, ar) ==
    /\ k.step # "idle" => k.project \in Record
    /\ k.step \in Claiming => Signature(k.project) \in cl[k.project.workspace.root]
    /\ k.step \in {"init", "remote", "add"} => mk[k.project.workspace.root] # NoMarker
    /\ k.step \in {"remote", "add"} => k.project.repository.url # Unset
    /\ k.step = "run" => k.commands # <<>>
    /\ k.step = "fill" => /\ k.listed \in Contents
                          /\ ar[<<k.project.workspace.root, k.project.id>>] \in Filled

WorkspaceInv ==
    /\ TypeOK
    /\ \A c \in Caller : Knows(caller[c], claimed, marker, archive)
    /\ UsedByClaimant
    /\ Found \subseteq entries

LEMMA SignatureType ==
  ASSUME NEW p \in Record
  PROVE  /\ Signature(p) \in Signatures \ {NoMarker, Torn}
         /\ Signature(p).project = p.id
         /\ p.id \in ProjectId /\ p.workspace.root \in Root
  BY WorkspaceAssumption DEF Signature, Signatures

LEMMA FirstPlace == 0 \in 0..Blocks
  BY WorkspaceAssumption

LEMMA SizeType == ASSUME NEW content \in Contents PROVE Size(content) \in 1..Blocks
  BY WorkspaceAssumption DEF Contents, Size

LEMMA IdleRow == Idle \in CallerRow
<1>1. <<>> \in Seq({"up"} \cup OperationKinds)
  OBVIOUS
<1>2. QED
  BY <1>1, FirstPlace DEF Idle, CallerRow, Step

LEMMA InitWorkspaceInv == Init => WorkspaceInv
<1> SUFFICES ASSUME Init PROVE WorkspaceInv
  OBVIOUS
<1>1. TypeOK
  <2>1. archive \in [Archives -> {NoFile} \cup Filled]
    BY DEF Init
  <2>2. tree \in [Root -> Tree] /\ seen \in [Archives -> SUBSET Contents] /\ cut \subseteq Archives
    BY WorkspaceAssumption DEF Init
  <2>3. caller \in [Caller -> CallerRow]
    BY IdleRow DEF Init
  <2>4. /\ entries \subseteq Root /\ marker \in [Root -> Signatures \cup {NoMarker, Torn}]
        /\ remote \in [Root -> Remotes \cup {"none", "local"}]
        /\ app \in [ProjectId -> {"stopped", "running"}]
        /\ claimed \in [Root -> SUBSET Signatures] /\ frozen = Unset
    BY WorkspaceAssumption DEF Init
  <2>5. QED
    BY <2>1, <2>2, <2>3, <2>4 DEF TypeOK, Filled
<1>2. ASSUME NEW c \in Caller PROVE Knows(caller[c], claimed, marker, archive)
  BY DEF Init, Knows, Idle, Claiming
<1>3. UsedByClaimant
  BY WorkspaceAssumption DEF Init, UsedByClaimant, Archives
<1>4. QED
  BY <1>1, <1>2, <1>3 DEF WorkspaceInv, Init

-----------------------------------------------------------------------------
(* The steps of one caller; the others keep what they know.                *)

LEMMA CallerKeeps ==
  ASSUME WorkspaceInv, NEW c \in Caller, NEW k \in CallerRow,
         caller' = [caller EXCEPT ![c] = k], Knows(k, claimed', marker', archive'),
         entries' \in SUBSET Root, entries \subseteq entries',
         marker' \in [Root -> Signatures \cup {NoMarker, Torn}],
         \A r \in Root : marker[r] # NoMarker => marker'[r] # NoMarker,
         claimed' \in [Root -> SUBSET Signatures],
         \A r \in Root : claimed[r] \subseteq claimed'[r],
         remote' \in [Root -> Remotes \cup {"none", "local"}],
         app' \in [ProjectId -> {"stopped", "running"}],
         tree' \in [Root -> Tree],
         archive' \in [Archives -> {NoFile} \cup Filled],
         \A a \in Archives : archive[a] \in Filled => archive'[a] \in Filled,
         seen' \in [Archives -> SUBSET Contents], cut' \in SUBSET Archives, frozen' = frozen,
         UsedByClaimant'
  PROVE  WorkspaceInv'
<1>1. TypeOK'
  BY DEF WorkspaceInv, TypeOK, Filled
<1>2. ASSUME NEW d \in Caller PROVE Knows(caller'[d], claimed', marker', archive')
  <2>1. CASE d = c
    BY <2>1 DEF WorkspaceInv, TypeOK
  <2>2. CASE d # c
    <3>1. caller'[d] = caller[d] /\ Knows(caller[d], claimed, marker, archive)
      BY <2>2 DEF WorkspaceInv, TypeOK
    <3>2. caller[d].step # "idle" =>
              /\ caller[d].project.workspace.root \in Root
              /\ <<caller[d].project.workspace.root, caller[d].project.id>> \in Archives
      BY <3>1, SignatureType DEF Knows, Archives
    <3>3. QED
      BY <3>1, <3>2 DEF Knows, Claiming
  <2>3. QED
    BY <2>1, <2>2
<1>3. Found \subseteq entries'
  BY DEF WorkspaceInv
<1>4. QED
  BY <1>1, <1>2, <1>3 DEF WorkspaceInv

\* A step that leaves the files, the applications and the archives alone.
LEMMA QuietCall ==
  ASSUME WorkspaceInv, NEW c \in Caller, NEW k \in CallerRow,
         caller' = [caller EXCEPT ![c] = k], Knows(k, claimed, marker, archive),
         UNCHANGED <<files, app, archive, claimed, seen, frozen>>,
         cut' \in SUBSET Archives
  PROVE  WorkspaceInv'
<1>1. UsedByClaimant'
  BY DEF WorkspaceInv, UsedByClaimant, files
<1>2. QED
  BY <1>1, CallerKeeps DEF WorkspaceInv, TypeOK, files, Filled

LEMMA IdleKnows == ASSUME NEW cl, NEW mk, NEW ar PROVE Knows(Idle, cl, mk, ar)
  BY DEF Knows, Idle, Claiming

\* What is known of the caller that takes a step.
LEMMA Acting ==
  ASSUME WorkspaceInv, NEW c \in Caller, caller[c].step # "idle"
  PROVE  /\ caller[c] \in CallerRow /\ caller[c].project \in Record
         /\ Knows(caller[c], claimed, marker, archive)
         /\ RootOf(c) \in Root /\ caller[c].project.id \in ProjectId
         /\ Signature(caller[c].project) \in Signatures \ {NoMarker, Torn}
         /\ Signature(caller[c].project).project = caller[c].project.id
<1>1. caller[c] \in CallerRow /\ Knows(caller[c], claimed, marker, archive)
  BY DEF WorkspaceInv, TypeOK
<1>2. caller[c].project \in Record
  BY <1>1 DEF Knows
<1>3. QED
  BY <1>1, <1>2, SignatureType DEF RootOf

LEMMA BeginKeeps ==
  ASSUME WorkspaceInv, NEW c \in Caller, NEW s \in {"prepare", "initialize", "operate"},
         NEW p \in Record, NEW l \in Seq({"up"} \cup OperationKinds), Begin(c, s, p, l)
  PROVE  WorkspaceInv'
<1> DEFINE k == [Idle EXCEPT !.step = s, !.project = p, !.commands = l]
<1>1. k \in CallerRow /\ k.step = s /\ k.project = p
  BY IdleRow DEF CallerRow, Step
<1>2. Knows(k, claimed, marker, archive)
  BY <1>1 DEF Knows, Claiming
<1>3. cut' \in SUBSET Archives
  BY DEF WorkspaceInv, TypeOK, Begin, history
<1>4. QED
  BY <1>1, <1>2, <1>3, QuietCall DEF Begin, history

LEMMA EndKeeps ==
  ASSUME WorkspaceInv, NEW c \in Caller, End(c)
  PROVE  WorkspaceInv'
<1>1. cut' \in SUBSET Archives
  BY Acting DEF WorkspaceInv, TypeOK, End, ArchiveOf, Archives
<1>2. QED
  BY <1>1, IdleRow, IdleKnows, QuietCall DEF End, Return

LEMMA GotoRow ==
  ASSUME WorkspaceInv, NEW c \in Caller, caller[c].step # "idle", NEW s \in Step, Goto(c, s)
  PROVE  /\ [caller[c] EXCEPT !.step = s] \in CallerRow
         /\ caller' = [caller EXCEPT ![c] = [caller[c] EXCEPT !.step = s]]
         /\ [caller[c] EXCEPT !.step = s].step = s
         /\ [caller[c] EXCEPT !.step = s].project = caller[c].project
         /\ [caller[c] EXCEPT !.step = s].commands = caller[c].commands
  BY Acting DEF Goto, CallerRow, WorkspaceInv, TypeOK

LEMMA CheckWorkspaceKeeps ==
  ASSUME WorkspaceInv, NEW c \in Caller, CheckWorkspace(c)
  PROVE  WorkspaceInv'
<1> USE Acting
<1>0. caller[c].step # "idle" /\ caller[c].step = "prepare"
  BY DEF CheckWorkspace
<1>1. CASE ~OwnedOrEmpty(c)
  <2>1. cut' \in SUBSET Archives
    BY <1>1 DEF WorkspaceInv, TypeOK, CheckWorkspace
  <2>2. QED
    BY <1>1, <2>1, IdleRow, IdleKnows, QuietCall DEF CheckWorkspace, Return
<1>2. CASE OwnedOrEmpty(c)
  <2> DEFINE k == [caller[c] EXCEPT !.step = "populate"]
             sig == Signature(caller[c].project)
  <2>1. /\ k \in CallerRow /\ caller' = [caller EXCEPT ![c] = k]
        /\ k.step = "populate" /\ k.project = caller[c].project
    BY <1>0, <1>2, GotoRow DEF CheckWorkspace, Step
  <2>2. claimed' = [claimed EXCEPT ![RootOf(c)] =
                        IF marker[RootOf(c)] = NoMarker THEN @ \cup {sig} ELSE @]
    BY <1>2 DEF CheckWorkspace
  <2>3. /\ claimed' \in [Root -> SUBSET Signatures]
        /\ \A r \in Root : claimed[r] \subseteq claimed'[r]
        /\ \A r \in Found : claimed'[r] = claimed[r]
    <3>1. RootOf(c) \in Found => marker[RootOf(c)] # NoMarker
      BY <1>0, <1>2, SignatureType DEF OwnedOrEmpty, Owned, WorkspaceInv
    <3>2. Found \subseteq Root
      BY WorkspaceAssumption
    <3>3. QED
      BY <1>0, <2>2, <3>1, <3>2 DEF WorkspaceInv, TypeOK
  <2>4. sig \in claimed'[RootOf(c)]
    BY <1>0, <1>2, <2>2, <2>3 DEF OwnedOrEmpty, Owned, WorkspaceInv, TypeOK, UsedByClaimant
  <2>5. Knows(k, claimed', marker', archive')
    BY <1>0, <2>1, <2>4 DEF Knows, Claiming, RootOf
  <2>6. UNCHANGED <<entries, marker, remote, tree, app, archive, seen, cut, frozen>>
    BY <1>2 DEF CheckWorkspace, files
  <2>7. UsedByClaimant'
    BY <2>3, <2>6 DEF WorkspaceInv, TypeOK, UsedByClaimant
  <2>8. QED
    BY <2>1, <2>3, <2>5, <2>6, <2>7, CallerKeeps DEF WorkspaceInv, TypeOK, Filled
<1>3. QED
  BY <1>1, <1>2

LEMMA MakeDirectoriesKeeps ==
  ASSUME WorkspaceInv, NEW c \in Caller, MakeDirectories(c)
  PROVE  WorkspaceInv'
<1> DEFINE k == [caller[c] EXCEPT !.step = "open"]
<1>0. caller[c].step # "idle" /\ caller[c].step = "populate"
  BY DEF MakeDirectories
<1>1. /\ k \in CallerRow /\ caller' = [caller EXCEPT ![c] = k]
      /\ k.step = "open" /\ k.project = caller[c].project
  BY <1>0, GotoRow DEF MakeDirectories, Step
<1>2. UNCHANGED <<marker, remote, tree, app, archive, claimed, seen, cut, frozen>>
  BY DEF MakeDirectories, history
<1>3. Knows(k, claimed', marker', archive')
  BY <1>0, <1>1, <1>2, Acting DEF Knows, Claiming
<1>4. entries' \in SUBSET Root /\ entries \subseteq entries'
  BY <1>0, Acting DEF MakeDirectories, WorkspaceInv, TypeOK
<1>5. UsedByClaimant'
  BY <1>2 DEF WorkspaceInv, UsedByClaimant
<1>6. QED
  BY <1>1, <1>2, <1>3, <1>4, <1>5, CallerKeeps DEF WorkspaceInv, TypeOK, Filled

LEMMA OpenMarkerKeeps ==
  ASSUME WorkspaceInv, NEW c \in Caller, OpenMarker(c)
  PROVE  WorkspaceInv'
<1> DEFINE k == [caller[c] EXCEPT !.step = "write"]
<1>0. caller[c].step # "idle" /\ caller[c].step = "open"
  BY DEF OpenMarker
<1>1. /\ k \in CallerRow /\ caller' = [caller EXCEPT ![c] = k]
      /\ k.step = "write" /\ k.project = caller[c].project
  BY <1>0, GotoRow DEF OpenMarker, Step
<1>2. UNCHANGED <<entries, remote, tree, app, archive, claimed, seen, cut, frozen>>
  BY DEF OpenMarker, history
<1>3. Knows(k, claimed', marker', archive')
  BY <1>0, <1>1, <1>2, Acting DEF Knows, Claiming
<1>4. /\ marker' \in [Root -> Signatures \cup {NoMarker, Torn}]
      /\ \A r \in Root : marker'[r] \in {marker[r], Torn}
      /\ NoMarker # Torn
  BY <1>0, Acting, WorkspaceAssumption DEF OpenMarker, WorkspaceInv, TypeOK
<1>5. UsedByClaimant'
  BY <1>2, <1>4 DEF WorkspaceInv, UsedByClaimant
<1>6. QED
  BY <1>1, <1>2, <1>3, <1>4, <1>5, CallerKeeps DEF WorkspaceInv, TypeOK, Filled

LEMMA WriteMarkerKeeps ==
  ASSUME WorkspaceInv, NEW c \in Caller, WriteMarker(c)
  PROVE  WorkspaceInv'
<1> DEFINE sig == Signature(caller[c].project)
<1>0. caller[c].step # "idle" /\ caller[c].step = "write"
  BY DEF WriteMarker
<1>1. caller' = [caller EXCEPT ![c] = Idle]
  BY DEF WriteMarker, Return
<1>2. UNCHANGED <<entries, remote, tree, app, archive, claimed, seen, cut, frozen>>
  BY DEF WriteMarker, history
<1>3. /\ marker' \in [Root -> Signatures \cup {NoMarker, Torn}]
      /\ \A r \in Root : \/ marker'[r] \in {marker[r], Torn}
                         \/ r = RootOf(c) /\ marker'[r] = sig
      /\ NoMarker # Torn /\ sig # NoMarker /\ sig \in claimed[RootOf(c)]
  <2>1. PICK m \in {sig, Torn} : marker' = [marker EXCEPT ![RootOf(c)] = m]
    BY DEF WriteMarker
  <2>2. sig \in claimed[RootOf(c)]
    BY <1>0, Acting DEF Knows, Claiming, RootOf
  <2>3. QED
    BY <1>0, <2>1, <2>2, Acting, WorkspaceAssumption DEF WorkspaceInv, TypeOK
<1>4. UsedByClaimant'
  BY <1>2, <1>3 DEF WorkspaceInv, UsedByClaimant
<1>5. QED
  BY <1>1, <1>2, <1>3, <1>4, IdleRow, IdleKnows, CallerKeeps DEF WorkspaceInv, TypeOK, Filled

\* A call that ends, or goes on, with nothing changed but its own step.
LEMMA ReturnKeeps ==
  ASSUME WorkspaceInv, NEW c \in Caller, Return(c),
         UNCHANGED <<files, app, archive, history, frozen>>
  PROVE  WorkspaceInv'
<1>1. cut' \in SUBSET Archives
  BY DEF WorkspaceInv, TypeOK, history
<1>2. QED
  BY <1>1, IdleRow, IdleKnows, QuietCall DEF Return, history

LEMMA GotoKeeps ==
  ASSUME WorkspaceInv, NEW c \in Caller, caller[c].step # "idle",
         NEW s \in Step \ {"fill"}, Goto(c, s),
         s \in Claiming => Signature(caller[c].project) \in claimed[RootOf(c)],
         s \in {"init", "remote", "add"} => marker[RootOf(c)] # NoMarker,
         s \in {"remote", "add"} => caller[c].project.repository.url # Unset,
         s = "run" => caller[c].commands # <<>>,
         UNCHANGED <<files, app, archive, history, frozen>>
  PROVE  WorkspaceInv'
<1> DEFINE k == [caller[c] EXCEPT !.step = s]
<1>1. /\ k \in CallerRow /\ caller' = [caller EXCEPT ![c] = k]
      /\ k.step = s /\ k.project = caller[c].project /\ k.commands = caller[c].commands
  BY GotoRow
<1>2. Knows(k, claimed, marker, archive)
  BY <1>1, Acting DEF Knows, RootOf
<1>3. cut' \in SUBSET Archives
  BY DEF WorkspaceInv, TypeOK, history
<1>4. QED
  BY <1>1, <1>2, <1>3, QuietCall DEF history

\* The project whose marker lies in a root had found the root free.
LEMMA OwnedClaimed ==
  ASSUME WorkspaceInv, NEW c \in Caller, caller[c].step # "idle", Owned(c)
  PROVE  /\ Signature(caller[c].project) \in claimed[RootOf(c)]
         /\ marker[RootOf(c)] # NoMarker
  BY Acting DEF Owned, WorkspaceInv, UsedByClaimant

LEMMA RequireMarkerKeeps ==
  ASSUME WorkspaceInv, NEW c \in Caller, RequireMarker(c)
  PROVE  WorkspaceInv'
<1>0. caller[c].step # "idle" /\ UNCHANGED <<files, app, archive, history, frozen>>
  BY DEF RequireMarker
<1>1. CASE Owned(c)
  <2>1. Goto(c, "init")
    BY <1>1 DEF RequireMarker
  <2>2. QED
    BY <1>0, <1>1, <2>1, OwnedClaimed, GotoKeeps DEF Step
<1>2. CASE ~Owned(c)
  BY <1>0, <1>2, ReturnKeeps DEF RequireMarker
<1>3. QED
  BY <1>1, <1>2

LEMMA GitInitKeeps ==
  ASSUME WorkspaceInv, NEW c \in Caller, GitInit(c)
  PROVE  WorkspaceInv'
<1> DEFINE k == IF caller[c].project.repository.url = Unset THEN Idle
                ELSE [caller[c] EXCEPT !.step = "remote"]
<1>0. caller[c].step # "idle" /\ caller[c].step = "init"
  BY DEF GitInit
<1>1. UNCHANGED <<entries, marker, tree, app, archive, claimed, seen, cut, frozen>>
  BY DEF GitInit, history
<1>2. /\ k \in CallerRow /\ caller' = [caller EXCEPT ![c] = k]
      /\ Knows(k, claimed, marker, archive)
  <2>1. CASE caller[c].project.repository.url = Unset
    BY <2>1, IdleRow, IdleKnows DEF GitInit, Return
  <2>2. CASE caller[c].project.repository.url # Unset
    <3>1. Goto(c, "remote")
      BY <2>2 DEF GitInit
    <3>2. /\ k \in CallerRow /\ caller' = [caller EXCEPT ![c] = k]
          /\ k.step = "remote" /\ k.project = caller[c].project
      BY <1>0, <2>2, <3>1, GotoRow DEF Step
    <3>3. QED
      BY <1>0, <2>2, <3>2, Acting DEF Knows, Claiming
  <2>3. QED
    BY <2>1, <2>2
<1>3. /\ remote' \in [Root -> Remotes \cup {"none", "local"}]
      /\ \A r \in Root : \/ remote'[r] = remote[r]
                         \/ r = RootOf(c) /\ remote'[r] = "local"
      /\ marker[RootOf(c)] # NoMarker
  BY <1>0, Acting DEF GitInit, WorkspaceInv, TypeOK, Knows, RootOf
<1>4. UsedByClaimant'
  BY <1>1, <1>3 DEF WorkspaceInv, UsedByClaimant
<1>5. QED
  BY <1>1, <1>2, <1>3, <1>4, CallerKeeps DEF WorkspaceInv, TypeOK, Filled

LEMMA ReadRemoteKeeps ==
  ASSUME WorkspaceInv, NEW c \in Caller, ReadRemote(c)
  PROVE  WorkspaceInv'
<1>0. /\ caller[c].step = "remote" /\ caller[c].step # "idle"
      /\ UNCHANGED <<files, app, archive, history, frozen>>
  BY DEF ReadRemote
<1>1. CASE remote[RootOf(c)] = "local"
  <2>1. Goto(c, "add")
    BY <1>1 DEF ReadRemote
  <2>2. QED
    BY <1>0, <2>1, Acting, GotoKeeps DEF Step, Knows, Claiming, RootOf
<1>2. CASE remote[RootOf(c)] # "local"
  BY <1>0, <1>2, ReturnKeeps DEF ReadRemote
<1>3. QED
  BY <1>1, <1>2

LEMMA AddRemoteKeeps ==
  ASSUME WorkspaceInv, NEW c \in Caller, AddRemote(c)
  PROVE  WorkspaceInv'
<1> DEFINE url == caller[c].project.repository.url
<1>0. caller[c].step # "idle" /\ caller[c].step = "add"
  BY DEF AddRemote
<1>1. UNCHANGED <<entries, marker, tree, app, archive, claimed, seen, cut, frozen>>
  BY DEF AddRemote, history
<1>2. caller' = [caller EXCEPT ![c] = Idle]
  BY DEF AddRemote, Return
<1>3. /\ Signature(caller[c].project) \in claimed[RootOf(c)]
      /\ url \in Remotes /\ caller[c].project \in Record
      /\ marker[RootOf(c)] # NoMarker
  BY <1>0, Acting DEF Knows, Claiming, RootOf, Remotes
<1>4. /\ remote' \in [Root -> Remotes \cup {"none", "local"}]
      /\ \A r \in Root : \/ remote'[r] = remote[r]
                         \/ r = RootOf(c) /\ remote'[r] = url
  BY <1>0, <1>3, Acting DEF AddRemote, WorkspaceInv, TypeOK
<1>5. UsedByClaimant'
  BY <1>1, <1>3, <1>4 DEF WorkspaceInv, UsedByClaimant
<1>6. QED
  BY <1>1, <1>2, <1>4, <1>5, IdleRow, IdleKnows, CallerKeeps DEF WorkspaceInv, TypeOK, Filled

LEMMA PlanOperationKeeps ==
  ASSUME WorkspaceInv, NEW c \in Caller, PlanOperation(c)
  PROVE  WorkspaceInv'
<1> DEFINE s == IF caller[c].commands = <<"archive">> THEN "pack" ELSE "run"
<1>0. caller[c].step # "idle" /\ UNCHANGED <<files, app, archive, history, frozen>>
  BY DEF PlanOperation
<1>1. CASE Owned(c) /\ caller[c].commands # <<>>
  <2>1. Goto(c, s)
    BY <1>1 DEF PlanOperation
  <2>2. s \in Step \ {"fill"} /\ s \in {"run", "pack"}
    BY DEF Step
  <2> HIDE DEF s
  <2>3. QED
    BY <1>0, <1>1, <2>1, <2>2, OwnedClaimed, GotoKeeps
<1>2. CASE ~(Owned(c) /\ caller[c].commands # <<>>)
  BY <1>0, <1>2, ReturnKeeps DEF PlanOperation
<1>3. QED
  BY <1>1, <1>2

LEMMA RunCommandKeeps ==
  ASSUME WorkspaceInv, NEW c \in Caller, RunCommand(c)
  PROVE  WorkspaceInv'
<1> DEFINE l == caller[c].commands
           k == IF Len(l) = 1 THEN Idle ELSE [caller[c] EXCEPT !.commands = Tail(l)]
           x == caller[c].project.id
<1>0. caller[c].step # "idle" /\ caller[c].step = "run"
  BY DEF RunCommand
<1>1. UNCHANGED <<entries, marker, remote, tree, archive, claimed, seen, cut, frozen>>
  BY DEF RunCommand, history, files
<1>2. l \in Seq({"up"} \cup OperationKinds) /\ l # <<>>
  BY <1>0, Acting DEF CallerRow, Knows
<1>3. /\ k \in CallerRow /\ caller' = [caller EXCEPT ![c] = k]
      /\ Knows(k, claimed, marker, archive)
  <2>1. CASE Len(l) = 1
    BY <2>1, IdleRow, IdleKnows DEF RunCommand, Return
  <2>2. CASE Len(l) # 1
    <3>1. Tail(l) \in Seq({"up"} \cup OperationKinds) /\ Tail(l) # <<>>
      <4>1. Len(l) \in Nat /\ Len(l) # 0
        BY <1>2, EmptySeq, LenProperties
      <4>2. Tail(l) \in Seq({"up"} \cup OperationKinds) /\ Len(Tail(l)) = Len(l) - 1
        BY <1>2, HeadTailProperties
      <4>3. Len(Tail(l)) # 0
        BY <2>2, <4>1, <4>2
      <4>4. QED
        BY <4>2, <4>3, EmptySeq
    <3>2. /\ k \in CallerRow /\ k.step = "run" /\ k.project = caller[c].project
          /\ k.commands = Tail(l)
      BY <1>0, <2>2, <3>1, Acting DEF CallerRow
    <3>3. caller' = [caller EXCEPT ![c] = k]
      BY <2>2 DEF RunCommand
    <3>4. QED
      BY <1>0, <3>1, <3>2, <3>3, Acting DEF Knows, Claiming
  <2>3. QED
    BY <2>1, <2>2
<1>4. /\ app' \in [ProjectId -> {"stopped", "running"}]
      /\ \A y \in ProjectId : y # x => app'[y] = app[y]
  <2>1. \A command : After(command, app[x]) \in {"stopped", "running"}
    BY <1>0, Acting DEF After, WorkspaceInv, TypeOK
  <2>2. app' = [app EXCEPT ![x] = After(Head(l), app[x])]
    BY DEF RunCommand
  <2>3. QED
    BY <1>0, <2>1, <2>2, Acting DEF WorkspaceInv, TypeOK
<1>5. /\ RootOf(c) \in Root /\ Signature(caller[c].project) \in claimed[RootOf(c)]
      /\ Signature(caller[c].project).project = x
  BY <1>0, Acting DEF Knows, Claiming, RootOf
<1>6. UsedByClaimant'
  <2>1. ASSUME NEW y \in ProjectId, app'[y] = "running"
        PROVE  \E r \in Root : \E s \in claimed'[r] : s.project = y
    BY <1>1, <1>4, <1>5, <2>1 DEF WorkspaceInv, UsedByClaimant
  <2>2. QED
    BY <1>1, <2>1 DEF WorkspaceInv, UsedByClaimant
<1>7. QED
  BY <1>1, <1>3, <1>4, <1>6, CallerKeeps DEF WorkspaceInv, TypeOK, Filled

LEMMA ContentType ==
  ASSUME WorkspaceInv, NEW r \in Root
  PROVE  Content(r) \in Contents
  BY DEF WorkspaceInv, TypeOK, Content, Contents

LEMMA SeesType ==
  ASSUME WorkspaceInv, NEW a \in Archives, NEW v \in Contents, Sees(a, v)
  PROVE  seen' \in [Archives -> SUBSET Contents]
<1> DEFINE one == IF Writers(a) = {} THEN {v} ELSE seen[a] \cup {v}
<1>1. seen \in [Archives -> SUBSET Contents] /\ seen' = [seen EXCEPT ![a] = one]
  BY DEF WorkspaceInv, TypeOK, Sees
<1>2. one \in SUBSET Contents
  BY <1>1
<1> HIDE DEF one
<1>3. QED
  BY <1>1, <1>2

\* The archive of a caller that found the workspace its own may be written.
LEMMA ArchiveKeeps ==
  ASSUME WorkspaceInv, NEW c \in Caller, caller[c].step \in {"pack", "fill"},
         NEW v \in Filled, archive' = [archive EXCEPT ![ArchiveOf(c)] = v],
         UNCHANGED <<entries, marker, remote, app, claimed>>
  PROVE  /\ UsedByClaimant'
         /\ archive' \in [Archives -> {NoFile} \cup Filled]
         /\ ArchiveOf(c) \in Archives /\ archive'[ArchiveOf(c)] \in Filled
         /\ \A a \in Archives : archive[a] \in Filled => archive'[a] \in Filled
<1> DEFINE x == caller[c].project.id
<1>1. /\ RootOf(c) \in Root /\ x \in ProjectId /\ ArchiveOf(c) = <<RootOf(c), x>>
      /\ Signature(caller[c].project) \in claimed[RootOf(c)]
      /\ Signature(caller[c].project).project = x
      /\ ArchiveOf(c) \in Archives
  BY Acting DEF Knows, Claiming, RootOf, ArchiveOf, Archives
<1>2. archive \in [Archives -> {NoFile} \cup Filled]
  BY DEF WorkspaceInv, TypeOK, Filled
<1>3. ASSUME NEW r \in Root, NEW y \in ProjectId, archive'[<<r, y>>] # NoFile
      PROVE  \E s \in claimed'[r] : s.project = y
  <2>1. CASE <<r, y>> = ArchiveOf(c)
    BY <1>1, <2>1
  <2>2. CASE <<r, y>> # ArchiveOf(c)
    <3>1. archive'[<<r, y>>] = archive[<<r, y>>]
      BY <1>2, <2>2 DEF Archives
    <3>2. QED
      BY <1>3, <3>1 DEF WorkspaceInv, UsedByClaimant
  <2>3. QED
    BY <2>1, <2>2
<1>4. UsedByClaimant'
  BY <1>3 DEF WorkspaceInv, UsedByClaimant
<1>5. QED
  BY <1>1, <1>2, <1>4

LEMMA OpenArchiveKeeps ==
  ASSUME WorkspaceInv, NEW c \in Caller, OpenArchive(c)
  PROVE  WorkspaceInv'
<1> DEFINE k == [caller[c] EXCEPT !.step = "fill", !.listed = Content(RootOf(c)), !.place = 0]
           v == [i \in 1..Blocks |-> Hole]
<1>0. caller[c].step # "idle" /\ caller[c].step = "pack"
  BY DEF OpenArchive
<1>1. /\ UNCHANGED <<entries, marker, remote, tree, app, claimed, frozen>>
      /\ archive' = [archive EXCEPT ![ArchiveOf(c)] = v]
      /\ caller' = [caller EXCEPT ![c] = k]
      /\ Sees(ArchiveOf(c), Content(RootOf(c)))
      /\ cut' \subseteq cut
  BY DEF OpenArchive, files
<1>2. Content(RootOf(c)) \in Contents
  BY <1>0, Acting, ContentType
<1>3. k \in CallerRow /\ k.step = "fill" /\ k.project = caller[c].project
      /\ k.listed \in Contents
  BY <1>0, <1>2, Acting, FirstPlace DEF CallerRow, Step
<1>4. v \in Filled
  BY DEF Filled
<1> HIDE DEF v, k
<1>5. /\ UsedByClaimant' /\ archive' \in [Archives -> {NoFile} \cup Filled]
      /\ ArchiveOf(c) \in Archives /\ archive'[ArchiveOf(c)] \in Filled
      /\ \A a \in Archives : archive[a] \in Filled => archive'[a] \in Filled
  BY <1>0, <1>1, <1>4, ArchiveKeeps
<1>6. seen' \in [Archives -> SUBSET Contents]
  BY <1>1, <1>2, <1>5, SeesType
<1>7. Knows(k, claimed', marker', archive')
  BY <1>0, <1>1, <1>3, <1>5, Acting DEF Knows, Claiming, ArchiveOf, RootOf
<1>8. QED
  BY <1>1, <1>3, <1>5, <1>6, <1>7, CallerKeeps DEF WorkspaceInv, TypeOK, Filled

\* What a caller may pack, it has listed or it lies in the workspace.
LEMMA PackableType ==
  ASSUME WorkspaceInv, NEW c \in Caller, caller[c].step = "fill"
  PROVE  /\ Packable(c) \subseteq Contents /\ Content(RootOf(c)) \in Contents
         /\ caller[c].listed \in Contents /\ archive[ArchiveOf(c)] \in Filled
         /\ ArchiveOf(c) \in Archives
  BY Acting, ContentType DEF Knows, ArchiveOf, RootOf, Archives, Packable

LEMMA WriteBlockKeeps ==
  ASSUME WorkspaceInv, NEW c \in Caller, WriteBlock(c)
  PROVE  WorkspaceInv'
<1> DEFINE i == caller[c].place + 1
           k == [caller[c] EXCEPT !.place = i]
<1>0. caller[c].step # "idle" /\ caller[c].step = "fill"
  BY DEF WriteBlock
<1>1. /\ UNCHANGED <<entries, marker, remote, tree, app, claimed, cut, frozen>>
      /\ caller' = [caller EXCEPT ![c] = k]
      /\ Sees(ArchiveOf(c), Content(RootOf(c)))
  BY DEF WriteBlock, files
<1>2. /\ Content(RootOf(c)) \in Contents /\ caller[c].listed \in Contents
      /\ archive[ArchiveOf(c)] \in Filled /\ ArchiveOf(c) \in Archives
  BY <1>0, PackableType
<1>3. PICK content \in Contents :
          /\ i <= Size(content)
          /\ archive' = [archive EXCEPT ![ArchiveOf(c)] = [archive[ArchiveOf(c)] EXCEPT ![i] = content]]
  BY <1>0, PackableType DEF WriteBlock
<1>4. i \in 1..Blocks
  <2>1. caller[c].place \in 0..Blocks /\ Size(content) \in 1..Blocks
    BY <1>0, Acting, SizeType DEF CallerRow
  <2>2. QED
    BY <1>3, <2>1, WorkspaceAssumption
<1>5. [archive[ArchiveOf(c)] EXCEPT ![i] = content] \in Filled
  BY <1>2, <1>4 DEF Filled
<1>6. /\ k \in CallerRow /\ k.step = "fill"
      /\ k.project = caller[c].project /\ k.listed = caller[c].listed
  <2>1. i \in 0..Blocks
    BY <1>4, WorkspaceAssumption
  <2>2. QED
    BY <1>0, <2>1, Acting DEF CallerRow
<1> HIDE DEF k, i
<1>7. /\ UsedByClaimant' /\ archive' \in [Archives -> {NoFile} \cup Filled]
      /\ archive'[ArchiveOf(c)] \in Filled
      /\ \A a \in Archives : archive[a] \in Filled => archive'[a] \in Filled
  BY <1>0, <1>1, <1>3, <1>5, ArchiveKeeps
<1>8. seen' \in [Archives -> SUBSET Contents]
  BY <1>1, <1>2, SeesType
<1>9. Knows(k, claimed', marker', archive')
  BY <1>0, <1>1, <1>2, <1>6, <1>7, Acting DEF Knows, Claiming, ArchiveOf, RootOf
<1>10. QED
  BY <1>1, <1>6, <1>7, <1>8, <1>9, CallerKeeps DEF WorkspaceInv, TypeOK, Filled

LEMMA CloseArchiveKeeps ==
  ASSUME WorkspaceInv, NEW c \in Caller, CloseArchive(c)
  PROVE  WorkspaceInv'
<1>1. /\ caller' = [caller EXCEPT ![c] = Idle] /\ Sees(ArchiveOf(c), Content(RootOf(c)))
      /\ UNCHANGED <<entries, marker, remote, tree, app, archive, claimed, cut, frozen>>
  BY DEF CloseArchive, Return, files
<1>2. seen' \in [Archives -> SUBSET Contents]
  BY <1>1, PackableType, SeesType DEF CloseArchive
<1>3. UsedByClaimant'
  BY <1>1 DEF WorkspaceInv, UsedByClaimant
<1>4. QED
  BY <1>1, <1>2, <1>3, IdleRow, IdleKnows, CallerKeeps DEF WorkspaceInv, TypeOK, Filled

LEMMA EditKeeps ==
  ASSUME WorkspaceInv, NEW r \in Root, Edit(r)
  PROVE  WorkspaceInv'
<1>1. TypeOK'
  BY DEF WorkspaceInv, TypeOK, Edit, history
<1>2. UsedByClaimant'
  BY DEF WorkspaceInv, UsedByClaimant, Edit, history
<1>3. QED
  BY <1>1, <1>2 DEF WorkspaceInv, Edit, history

LEMMA ValidatePlanKeeps ==
  ASSUME WorkspaceInv, ValidatePlan
  PROVE  WorkspaceInv'
<1>1. TypeOK'
  BY DEF WorkspaceInv, TypeOK, ValidatePlan, files, history
<1>2. UsedByClaimant'
  BY DEF WorkspaceInv, UsedByClaimant, ValidatePlan, files, history
<1>3. QED
  BY <1>1, <1>2 DEF WorkspaceInv, ValidatePlan, files, history

LEMMA CommandsType ==
  ASSUME NEW o \in OperationKinds
  PROVE  Commands(o) \in Seq({"up"} \cup OperationKinds)
<1>1. CASE o = "start"
  <2>1. Commands(o) = <<"up">>
    BY <1>1 DEF Commands
  <2>2. QED
    BY <2>1
<1>2. CASE o = "restart"
  <2>1. Commands(o) = <<"stop", "up">>
    BY <1>2 DEF Commands
  <2>2. "stop" \in OperationKinds
    BY DEF OperationKinds, MutatingOperations
  <2>3. QED
    BY <2>1, <2>2
<1>3. CASE o \notin {"start", "restart"}
  <2>1. Commands(o) = <<o>>
    BY <1>3 DEF Commands
  <2>2. QED
    BY <2>1
<1>4. QED
  BY <1>1, <1>2, <1>3

LEMMA StepWorkspaceInv == WorkspaceInv /\ [Next]_vars => WorkspaceInv'
<1> SUFFICES ASSUME WorkspaceInv, [Next]_vars PROVE WorkspaceInv'
  OBVIOUS
<1>1. ASSUME NEW c \in Caller, Provision(c) PROVE WorkspaceInv'
  <2>1. ASSUME NEW p \in Record, NEW s \in {"prepare", "initialize"}, Begin(c, s, p, <<>>)
        PROVE  WorkspaceInv'
    <3>1. <<>> \in Seq({"up"} \cup OperationKinds)
      OBVIOUS
    <3>2. QED
      BY <2>1, <3>1, BeginKeeps
  <2>2. QED
    BY <1>1, <2>1, CheckWorkspaceKeeps, MakeDirectoriesKeeps, OpenMarkerKeeps,
       WriteMarkerKeeps, RequireMarkerKeeps, GitInitKeeps, ReadRemoteKeeps, AddRemoteKeeps
       DEF Provision
<1>2. ASSUME NEW c \in Caller, Operate(c) PROVE WorkspaceInv'
  <2>1. ASSUME NEW p \in Record, NEW o \in OperationKinds, NEW permitted \in BOOLEAN,
               Begin(c, "operate", p, IF permitted THEN Commands(o) ELSE <<>>)
        PROVE  WorkspaceInv'
    <3>1. (IF permitted THEN Commands(o) ELSE <<>>) \in Seq({"up"} \cup OperationKinds)
      BY CommandsType
    <3>2. QED
      BY <2>1, <3>1, BeginKeeps
  <2>2. ASSUME NEW p \in Record, NEW o \in OperationKinds, NEW g, NEW confirmed \in BOOLEAN,
               Begin(c, "operate", p, IF Permitted(p, o, g, confirmed) THEN Commands(o) ELSE <<>>)
        PROVE  WorkspaceInv'
    <3>1. CASE Permitted(p, o, g, confirmed)
      BY <2>1, <2>2, <3>1
    <3>2. CASE ~Permitted(p, o, g, confirmed)
      BY <2>1, <2>2, <3>2
    <3>3. QED
      BY <3>1, <3>2
  <2>3. QED
    BY <1>2, <2>2, PlanOperationKeeps, RunCommandKeeps, OpenArchiveKeeps,
       WriteBlockKeeps, CloseArchiveKeeps DEF Operate
<1>3. ASSUME UNCHANGED vars PROVE WorkspaceInv'
  BY <1>3 DEF vars, WorkspaceInv, TypeOK, UsedByClaimant
<1>4. QED
  BY <1>1, <1>2, <1>3, EndKeeps, EditKeeps, ValidatePlanKeeps DEF Next

\* Every variable has a value of its kind in every reachable state, however
\* many callers, projects, roots and calls there are (provisioning and operating).
THEOREM WorkspaceTypeCorrect == Spec => []TypeOK
<1>1. WorkspaceInv => TypeOK
  BY DEF WorkspaceInv
<1>2. QED
  BY <1>1, InitWorkspaceInv, StepWorkspaceInv, PTL DEF Spec

\* A marker, a remote, an application and an archive belong to a project that
\* found its root free, although the check and the write of the marker are
\* steps apart and nothing is locked (_require_owned_or_empty_workspace).
THEOREM ClaimantsOnly == Spec => []UsedByClaimant
<1>1. WorkspaceInv => UsedByClaimant
  BY DEF WorkspaceInv
<1>2. QED
  BY <1>1, InitWorkspaceInv, StepWorkspaceInv, PTL DEF Spec

-----------------------------------------------------------------------------
(* The remote of a repository.                                             *)

\* The remote a workspace's repository has never changes, whatever callers of
\* other projects read and add theirs (_ensure_remote).
THEOREM RemoteStays == Spec => RemoteKept
<1> DEFINE Kept == \A r \in Root : remote[r] # "none" =>
                    remote'[r] # "none" /\ (remote[r] # "local" => remote'[r] = remote[r])
<1>1. ASSUME WorkspaceInv, Next PROVE Kept
  <2>1. ASSUME NEW c \in Caller, GitInit(c) PROVE Kept
    BY <1>1, <2>1, Acting DEF GitInit, WorkspaceInv, TypeOK
  <2>2. ASSUME NEW c \in Caller, AddRemote(c) PROVE Kept
    <3>1. caller[c].project.repository.url \notin {"none", "local"} /\ RootOf(c) \in Root
      BY <1>1, <2>2, Acting, WorkspaceAssumption DEF AddRemote
    <3>2. QED
      BY <1>1, <2>2, <3>1 DEF AddRemote, WorkspaceInv, TypeOK
  <2>3. ASSUME NEW c \in Caller, Provision(c) PROVE Kept \/ remote' = remote
    BY <2>1, <2>2, <2>3 DEF Provision, Begin, CheckWorkspace, MakeDirectories, OpenMarker,
       WriteMarker, RequireMarker, ReadRemote, files
  <2>4. ASSUME NEW c \in Caller, Operate(c) PROVE remote' = remote
    BY <2>4 DEF Operate, Begin, PlanOperation, RunCommand, OpenArchive,
       WriteBlock, CloseArchive, files
  <2>5. QED
    BY <1>1, <2>3, <2>4 DEF Next, End, Edit, ValidatePlan, files
<1>2. WorkspaceInv /\ [Next]_vars => [Kept]_vars
  BY <1>1
<1>3. QED
  BY <1>2, InitWorkspaceInv, StepWorkspaceInv, PTL DEF Spec, RemoteKept

-----------------------------------------------------------------------------
(* The archives.                                                           *)

\* A block shows what was seen, or one who is before it in the file has yet to
\* write it; behind the last one there is nothing.
Covered(a, content, i) ==
    IF i <= Size(content)
    THEN archive[a][i] = content \/ \E d \in Writers(a) : caller[d].place < i
    ELSE archive[a][i] = Hole

Good(a) ==
    /\ archive[a] # NoFile => seen[a] # {}
    /\ seen[a] # {} => \A i \in 1..Blocks : archive[a][i] \in seen[a] \cup {Hole}
    /\ a \notin cut =>
        \A content \in seen[a] :
            seen[a] = {content} => \A i \in 1..Blocks : Covered(a, content, i)

ListedSeen(c) == caller[c].step = "fill" => caller[c].listed \in seen[ArchiveOf(c)]

ArchiveInv ==
    /\ \A a \in Archives : Good(a)
    /\ \A c \in Caller : ListedSeen(c)

LEMMA ArchiveInvSound == WorkspaceInv /\ ArchiveInv => ArchivesSound
<1> SUFFICES ASSUME WorkspaceInv, ArchiveInv, NEW a \in Archives, archive[a] # NoFile
             PROVE  /\ \A i \in 1..Blocks : archive[a][i] \in seen[a] \cup {Hole}
                    /\ \A content \in seen[a] :
                        seen[a] = {content} /\ Writers(a) = {} /\ a \notin cut =>
                            archive[a] = Packed(content)
  BY DEF ArchivesSound
<1>1. archive[a] \in Filled
  BY DEF WorkspaceInv, TypeOK, Filled
<1>2. \A i \in 1..Blocks : archive[a][i] \in seen[a] \cup {Hole}
  BY DEF ArchiveInv, Good
<1>3. ASSUME NEW content \in seen[a], seen[a] = {content}, Writers(a) = {}, a \notin cut
      PROVE  archive[a] = Packed(content)
  <2>1. \A i \in 1..Blocks : archive[a][i] = IF i <= Size(content) THEN content ELSE Hole
    BY <1>3 DEF ArchiveInv, Good, Covered
  <2>2. QED
    BY <1>1, <2>1 DEF Filled, Packed
<1>4. QED
  BY <1>2, <1>3

\* A caller's step does not show in archives it does not write.
LEMMA ElsewhereGood ==
  ASSUME WorkspaceInv, NEW c \in Caller, NEW k, caller' = [caller EXCEPT ![c] = k],
         NEW a \in Archives, Good(a),
         caller[c].step = "fill" => ArchiveOf(c) # a,
         k.step = "fill" => <<k.project.workspace.root, k.project.id>> # a,
         archive'[a] = archive[a], seen'[a] = seen[a], a \in cut => a \in cut'
  PROVE  Good(a)'
<1>1. caller'[c] = k /\ \A d \in Caller \ {c} : caller'[d] = caller[d]
  BY DEF WorkspaceInv, TypeOK
<1>2. \A d \in Writers(a) : d # c /\ d \in Writers(a)' /\ caller'[d].place = caller[d].place
  BY <1>1 DEF Writers, ArchiveOf, RootOf
<1>3. \A i \in 1..Blocks : \A content : Covered(a, content, i) => Covered(a, content, i)'
  BY <1>2 DEF Covered, Size
<1>4. QED
  BY <1>3 DEF Good

\* The others have listed what was seen, as long as what was seen stays.
LEMMA OthersListed ==
  ASSUME WorkspaceInv, ArchiveInv, NEW c \in Caller, NEW k, caller' = [caller EXCEPT ![c] = k],
         \A d \in Caller \ {c} : caller[d].step = "fill" =>
             seen[ArchiveOf(d)] \subseteq seen'[ArchiveOf(d)],
         k.step = "fill" => k.listed \in seen'[<<k.project.workspace.root, k.project.id>>]
  PROVE  \A d \in Caller : ListedSeen(d)'
<1>1. caller'[c] = k /\ \A d \in Caller \ {c} : caller'[d] = caller[d]
  BY DEF WorkspaceInv, TypeOK
<1>2. ListedSeen(c)'
  BY <1>1 DEF ListedSeen, ArchiveOf, RootOf
<1>3. ASSUME NEW d \in Caller \ {c} PROVE ListedSeen(d)'
  BY <1>1, <1>3 DEF ArchiveInv, ListedSeen, ArchiveOf, RootOf
<1>4. QED
  BY <1>2, <1>3

LEMMA QuietArchives ==
  ASSUME WorkspaceInv, ArchiveInv, NEW c \in Caller, NEW k, caller' = [caller EXCEPT ![c] = k],
         caller[c].step # "fill", k.step # "fill", UNCHANGED <<archive, seen, cut>>
  PROVE  ArchiveInv'
<1>1. ASSUME NEW a \in Archives PROVE Good(a)'
  BY <1>1, ElsewhereGood DEF ArchiveInv
<1>2. \A d \in Caller : ListedSeen(d)'
  BY OthersListed
<1>3. QED
  BY <1>1, <1>2 DEF ArchiveInv

\* What was seen of an archive stays while somebody writes it.
LEMMA SeesMore ==
  ASSUME WorkspaceInv, NEW a \in Archives, NEW v, Sees(a, v)
  PROVE  /\ v \in seen'[a]
         /\ \A b \in Archives : b # a => seen'[b] = seen[b]
         /\ \A d \in Caller : caller[d].step = "fill" /\ ArchiveOf(d) \in Archives =>
                seen[ArchiveOf(d)] \subseteq seen'[ArchiveOf(d)]
<1>1. seen' = [seen EXCEPT ![a] = IF Writers(a) = {} THEN {v} ELSE seen[a] \cup {v}]
      /\ seen \in [Archives -> SUBSET Contents]
  BY DEF Sees, WorkspaceInv, TypeOK
<1>2. v \in seen'[a] /\ \A b \in Archives : b # a => seen'[b] = seen[b]
  BY <1>1
<1>3. ASSUME NEW d \in Caller, caller[d].step = "fill", ArchiveOf(d) \in Archives
      PROVE  seen[ArchiveOf(d)] \subseteq seen'[ArchiveOf(d)]
  <2>1. CASE ArchiveOf(d) = a
    <3>1. Writers(a) # {}
      BY <1>3, <2>1 DEF Writers
    <3>2. QED
      BY <1>1, <2>1, <3>1
  <2>2. CASE ArchiveOf(d) # a
    BY <1>2, <1>3, <2>2
  <2>3. QED
    BY <2>1, <2>2
<1>4. QED
  BY <1>2, <1>3

LEMMA WriterArchive ==
  ASSUME WorkspaceInv, NEW c \in Caller, caller[c].step \in {"pack", "fill"}
  PROVE  /\ ArchiveOf(c) \in Archives
         /\ ArchiveOf(c) = <<caller[c].project.workspace.root, caller[c].project.id>>
         /\ caller[c].place \in 0..Blocks
<1>1. caller[c].step # "idle"
  OBVIOUS
<1>2. QED
  BY <1>1, Acting DEF ArchiveOf, RootOf, Archives, CallerRow

LEMMA EndArchives ==
  ASSUME WorkspaceInv, ArchiveInv, NEW c \in Caller, End(c)
  PROVE  ArchiveInv'
<1>1. caller' = [caller EXCEPT ![c] = Idle] /\ Idle.step # "fill" /\ UNCHANGED <<archive, seen>>
  BY DEF End, Return, Idle
<1>2. CASE caller[c].step # "fill"
  BY <1>1, <1>2, QuietArchives DEF End
<1>3. CASE caller[c].step = "fill"
  <2>1. cut' = cut \cup {ArchiveOf(c)}
    BY <1>3 DEF End
  <2>2. ASSUME NEW a \in Archives PROVE Good(a)'
    <3>1. CASE a = ArchiveOf(c)
      BY <1>1, <2>1, <3>1 DEF Good, ArchiveInv
    <3>2. CASE a # ArchiveOf(c)
      BY <1>1, <2>1, <3>2, ElsewhereGood DEF ArchiveInv
    <3>3. QED
      BY <3>1, <3>2
  <2>3. \A d \in Caller : ListedSeen(d)'
    BY <1>1, OthersListed
  <2>4. QED
    BY <2>2, <2>3 DEF ArchiveInv
<1>4. QED
  BY <1>2, <1>3

LEMMA OpenArchives ==
  ASSUME WorkspaceInv, ArchiveInv, NEW c \in Caller, OpenArchive(c)
  PROVE  ArchiveInv'
<1> DEFINE v == Content(RootOf(c))
           k == [caller[c] EXCEPT !.step = "fill", !.listed = v, !.place = 0]
           holes == [i \in 1..Blocks |-> Hole]
<1>0. caller[c].step = "pack" /\ caller[c].step # "idle" /\ caller[c].step # "fill"
  BY DEF OpenArchive
<1>a. PICK a \in Archives : a = ArchiveOf(c)
  BY <1>0, WriterArchive
<1>1. /\ caller' = [caller EXCEPT ![c] = k] /\ Sees(a, v)
      /\ archive' = [archive EXCEPT ![a] = holes]
      /\ cut' = IF Writers(a) = {} THEN cut \ {a} ELSE cut
  BY <1>a DEF OpenArchive
<1>2. /\ a = <<caller[c].project.workspace.root, caller[c].project.id>>
      /\ caller[c] \in CallerRow
  BY <1>0, <1>a, WriterArchive, Acting
<1>3. /\ k.step = "fill" /\ k.project = caller[c].project /\ k.listed = v /\ k.place = 0
  BY <1>2 DEF CallerRow
<1>4. c \in Writers(a)' /\ caller'[c].place = 0 /\ \A i \in 1..Blocks : 0 < i
  BY <1>1, <1>2, <1>3 DEF Writers, ArchiveOf, RootOf, WorkspaceInv, TypeOK
<1> HIDE DEF k
<1>5. ASSUME NEW b \in Archives PROVE Good(b)'
  <2>1. CASE b = a
    <3>1. \A i \in 1..Blocks : archive'[a][i] = Hole
      BY <1>1 DEF WorkspaceInv, TypeOK
    <3>2. seen'[a] # {} /\ \A i \in 1..Blocks : archive'[a][i] \in seen'[a] \cup {Hole}
      BY <1>1, <1>2, <3>1, SeesMore
    <3>3. ASSUME NEW x, NEW i \in 1..Blocks PROVE Covered(a, x, i)'
      <4>1. \E d \in Writers(a)' : caller'[d].place < i
        BY <1>4
      <4>2. archive'[a][i] = Hole
        BY <3>1
      <4>3. QED
        BY <4>1, <4>2 DEF Covered, Size
    <3>4. QED
      BY <2>1, <3>2, <3>3 DEF Good
  <2>2. CASE b # a
    <3>1. archive'[b] = archive[b] /\ seen'[b] = seen[b] /\ (b \in cut => b \in cut')
      BY <1>1, <1>2, <2>2, SeesMore DEF WorkspaceInv, TypeOK
    <3>2. <<k.project.workspace.root, k.project.id>> # b
      BY <1>2, <1>3, <2>2
    <3>3. Good(b)
      BY DEF ArchiveInv
    <3>4. QED
      BY <1>0, <1>1, <3>1, <3>2, <3>3, ElsewhereGood
  <2>3. QED
    BY <2>1, <2>2
<1>6. \A d \in Caller : ListedSeen(d)'
  <2>1. \A d \in Caller : caller[d].step = "fill" => seen[ArchiveOf(d)] \subseteq seen'[ArchiveOf(d)]
    BY <1>1, <1>2, SeesMore, WriterArchive
  <2>2. v \in seen'[a]
    BY <1>1, <1>2, SeesMore
  <2>3. QED
    BY <1>1, <1>2, <1>3, <2>1, <2>2, OthersListed
<1>7. QED
  BY <1>5, <1>6 DEF ArchiveInv

\* Of what was seen by all of them, the writers wrote every block they left behind.
LEMMA WriteArchives ==
  ASSUME WorkspaceInv, ArchiveInv, NEW c \in Caller, WriteBlock(c)
  PROVE  ArchiveInv'
<1> DEFINE v == Content(RootOf(c))
           k == [caller[c] EXCEPT !.place = caller[c].place + 1]
<1>0. caller[c].step = "fill" /\ caller[c].step # "idle"
  BY DEF WriteBlock
<1>a. PICK a \in Archives : a = ArchiveOf(c)
  BY <1>0, WriterArchive
<1>1. caller' = [caller EXCEPT ![c] = k] /\ Sees(a, v) /\ cut' = cut
  BY <1>a DEF WriteBlock
<1>2. /\ a = <<caller[c].project.workspace.root, caller[c].project.id>>
      /\ caller[c] \in CallerRow /\ c \in Writers(a)
      /\ archive[a] \in Filled /\ caller[c].place \in 0..Blocks
  BY <1>0, <1>a, WriterArchive, Acting DEF Writers, Knows
<1>3. PICK content \in Packable(c) :
          /\ caller[c].place + 1 <= Size(content)
          /\ archive' = [archive EXCEPT ![a] = [archive[a] EXCEPT ![caller[c].place + 1] = content]]
  BY <1>a DEF WriteBlock
<1>b. PICK n \in 1..Blocks : n = caller[c].place + 1
  <2>1. Size(content) \in 1..Blocks
    BY <1>0, PackableType, SizeType
  <2>2. QED
    BY <1>2, <1>3, <2>1, WorkspaceAssumption
<1>4. /\ \A d \in Caller : caller[d].step = "fill" => seen[ArchiveOf(d)] \subseteq seen'[ArchiveOf(d)]
      /\ v \in seen'[a] /\ \A b \in Archives : b # a => seen'[b] = seen[b]
  BY <1>1, <1>2, SeesMore, WriterArchive
<1>5. /\ seen[a] \subseteq seen'[a] /\ caller[c].listed \in seen[a]
      /\ content \in seen'[a]
  BY <1>0, <1>a, <1>3, <1>4 DEF ArchiveInv, ListedSeen, Packable
<1>6. /\ k.step = "fill" /\ k.project = caller[c].project
      /\ k.listed = caller[c].listed /\ k.place = n
  BY <1>0, <1>2, <1>b DEF CallerRow
<1>7. caller'[c] = k /\ \A d \in Caller \ {c} : caller'[d] = caller[d]
  BY <1>1 DEF WorkspaceInv, TypeOK
<1>8. /\ archive'[a][n] = content /\ \A j \in (1..Blocks) \ {n} : archive'[a][j] = archive[a][j]
      /\ \A b \in Archives : b # a => archive'[b] = archive[b]
  BY <1>2, <1>3, <1>b DEF WorkspaceInv, TypeOK, Filled
<1> HIDE DEF k
<1>9. Good(a)'
  <2>1. seen[a] # {} /\ seen'[a] # {}
    BY <1>5
  <2>2. \A j \in 1..Blocks : archive'[a][j] \in seen'[a] \cup {Hole}
    BY <1>5, <1>8, <2>1 DEF ArchiveInv, Good
  <2>3. ASSUME a \notin cut, NEW x \in seen'[a], seen'[a] = {x}, NEW j \in 1..Blocks
        PROVE  Covered(a, x, j)'
    <3>1. seen[a] = {x} /\ content = x
      BY <1>5, <2>3
    <3>2. Covered(a, x, j)
      BY <2>1, <2>3, <3>1 DEF ArchiveInv, Good
    <3>3. n <= Size(x)
      BY <1>3, <1>b, <3>1
    <3>4. CASE j = n
      BY <1>8, <3>1, <3>3, <3>4 DEF Covered, Size
    <3>5. CASE j # n /\ (~(j <= Size(x)) \/ archive[a][j] = x)
      BY <1>8, <3>2, <3>5 DEF Covered, Size
    <3>6. CASE j # n /\ j <= Size(x) /\ \E d \in Writers(a) : caller[d].place < j
      <4>1. PICK d \in Writers(a) : caller[d].place < j
        BY <3>6
      <4>2. d \in Writers(a)'
        BY <1>0, <1>2, <1>6, <1>7, <4>1 DEF Writers, ArchiveOf, RootOf
      <4>3. caller'[d].place < j
        <5>1. CASE d = c
          BY <1>2, <1>6, <1>7, <1>b, <3>6, <4>1, <5>1, WorkspaceAssumption
        <5>2. CASE d # c
          BY <1>7, <4>1, <5>2 DEF Writers
        <5>3. QED
          BY <5>1, <5>2
      <4>4. QED
        BY <3>6, <4>2, <4>3 DEF Covered, Size
    <3>7. QED
      BY <3>2, <3>4, <3>5, <3>6 DEF Covered
  <2>4. QED
    BY <1>1, <2>1, <2>2, <2>3 DEF Good
<1>10. ASSUME NEW b \in Archives, b # a PROVE Good(b)'
  <2>1. <<k.project.workspace.root, k.project.id>> # b
    BY <1>2, <1>6, <1>10
  <2>2. QED
    BY <1>0, <1>a, <1>1, <1>4, <1>8, <1>10, <2>1, ElsewhereGood DEF ArchiveInv
<1>11. \A d \in Caller : ListedSeen(d)'
  <2>1. k.listed \in seen'[<<k.project.workspace.root, k.project.id>>]
    BY <1>2, <1>5, <1>6
  <2>2. QED
    BY <1>1, <1>4, <2>1, OthersListed
<1>12. QED
  BY <1>9, <1>10, <1>11 DEF ArchiveInv

\* Whoever closes the archive of what all have seen has written all of it.
LEMMA CloseArchives ==
  ASSUME WorkspaceInv, ArchiveInv, NEW c \in Caller, CloseArchive(c)
  PROVE  ArchiveInv'
<1> DEFINE v == Content(RootOf(c))
<1>0. caller[c].step = "fill"
  BY DEF CloseArchive
<1>a. PICK a \in Archives : a = ArchiveOf(c)
  BY <1>0, WriterArchive
<1>1. /\ caller' = [caller EXCEPT ![c] = Idle] /\ Idle.step # "fill"
      /\ Sees(a, v) /\ cut' = cut /\ archive' = archive
  BY <1>a DEF CloseArchive, Return, Idle
<1>2. PICK content \in Packable(c) : Size(content) <= caller[c].place
  BY DEF CloseArchive
<1>3. Size(content) \in 1..Blocks /\ caller[c].place \in 0..Blocks
  BY <1>0, PackableType, SizeType, WriterArchive
<1>4. /\ \A d \in Caller : caller[d].step = "fill" => seen[ArchiveOf(d)] \subseteq seen'[ArchiveOf(d)]
      /\ v \in seen'[a] /\ \A b \in Archives : b # a => seen'[b] = seen[b]
  BY <1>1, SeesMore, WriterArchive
<1>5. seen[a] \subseteq seen'[a] /\ caller[c].listed \in seen[a] /\ content \in seen'[a]
  BY <1>0, <1>a, <1>2, <1>4 DEF ArchiveInv, ListedSeen, Packable
<1>6. \A d \in Caller \ {c} : caller'[d] = caller[d]
  BY <1>1 DEF WorkspaceInv, TypeOK
<1>7. Good(a)'
  <2>1. seen[a] # {} /\ seen'[a] # {}
    BY <1>5
  <2>2. \A j \in 1..Blocks : archive'[a][j] \in seen'[a] \cup {Hole}
    BY <1>1, <1>5, <2>1 DEF ArchiveInv, Good
  <2>3. ASSUME a \notin cut, NEW x \in seen'[a], seen'[a] = {x}, NEW j \in 1..Blocks
        PROVE  Covered(a, x, j)'
    <3>1. seen[a] = {x} /\ content = x
      BY <1>5, <2>3
    <3>2. Covered(a, x, j)
      BY <2>1, <2>3, <3>1 DEF ArchiveInv, Good
    <3>3. CASE ~(j <= Size(x)) \/ archive[a][j] = x
      BY <1>1, <3>2, <3>3 DEF Covered, Size
    <3>4. CASE j <= Size(x) /\ \E d \in Writers(a) : caller[d].place < j
      <4>1. PICK d \in Writers(a) : caller[d].place < j
        BY <3>4
      <4>2. d # c
        BY <1>2, <1>3, <3>1, <3>4, <4>1, WorkspaceAssumption
      <4>3. d \in Writers(a)' /\ caller'[d].place < j
        BY <1>6, <4>1, <4>2 DEF Writers, ArchiveOf, RootOf
      <4>4. QED
        BY <3>4, <4>3 DEF Covered, Size
    <3>5. QED
      BY <3>2, <3>3, <3>4 DEF Covered
  <2>4. QED
    BY <1>1, <2>1, <2>2, <2>3 DEF Good
<1>8. ASSUME NEW b \in Archives, b # a PROVE Good(b)'
  BY <1>0, <1>a, <1>1, <1>4, <1>8, ElsewhereGood DEF ArchiveInv
<1>9. \A d \in Caller : ListedSeen(d)'
  BY <1>1, <1>4, OthersListed
<1>10. QED
  BY <1>7, <1>8, <1>9 DEF ArchiveInv

LEMMA StepArchiveInv == WorkspaceInv /\ ArchiveInv /\ [Next]_vars => ArchiveInv'
<1> SUFFICES ASSUME WorkspaceInv, ArchiveInv, [Next]_vars PROVE ArchiveInv'
  OBVIOUS
<1> DEFINE Quiet(c) ==
        /\ caller[c].step # "fill" /\ UNCHANGED <<archive, seen, cut>>
        /\ \E k : k.step # "fill" /\ caller' = [caller EXCEPT ![c] = k]
<1>1. ASSUME NEW c \in Caller, Quiet(c) PROVE ArchiveInv'
  BY <1>1, QuietArchives
<1>2. ASSUME NEW c \in Caller, NEW s \in Step \ {"fill"}, Goto(c, s), caller[c].step # "fill",
             caller[c].step # "idle", UNCHANGED <<archive, seen, cut>>
      PROVE  Quiet(c)
  <2> DEFINE k == [caller[c] EXCEPT !.step = s]
  <2>1. caller' = [caller EXCEPT ![c] = k] /\ k.step = s
    BY <1>2, GotoRow
  <2> HIDE DEF k
  <2>2. QED
    BY <1>2, <2>1
<1>3. ASSUME NEW c \in Caller, Return(c), caller[c].step # "fill", UNCHANGED <<archive, seen, cut>>
      PROVE  Quiet(c)
  <2>1. Idle.step # "fill"
    BY DEF Idle
  <2>2. QED
    BY <1>3, <2>1 DEF Return
<1>4. ASSUME NEW c \in Caller, NEW s \in {"prepare", "initialize", "operate"}, NEW p, NEW l,
             Begin(c, s, p, l)
      PROVE  Quiet(c)
  <2>1. [Idle EXCEPT !.step = s, !.project = p, !.commands = l].step # "fill"
    BY DEF Idle
  <2>2. QED
    BY <1>4, <2>1 DEF Begin, history
<1>5. ASSUME NEW c \in Caller, Provision(c) PROVE Quiet(c)
  <2>1. ASSUME NEW p \in Record, Begin(c, "prepare", p, <<>>) \/ Begin(c, "initialize", p, <<>>)
        PROVE  Quiet(c)
    BY <1>4, <2>1
  <2>2. CASE CheckWorkspace(c)
    BY <1>2, <1>3, <2>2 DEF CheckWorkspace, Step
  <2>3. CASE MakeDirectories(c) \/ OpenMarker(c)
    BY <1>2, <2>3 DEF MakeDirectories, OpenMarker, history, Step
  <2>4. CASE WriteMarker(c) \/ AddRemote(c)
    BY <1>3, <2>4 DEF WriteMarker, AddRemote, history
  <2>5. CASE RequireMarker(c) \/ ReadRemote(c) \/ GitInit(c)
    BY <1>2, <1>3, <2>5 DEF RequireMarker, ReadRemote, GitInit, history, Step
  <2> HIDE DEF Quiet
  <2>6. QED
    BY <1>5, <2>1, <2>2, <2>3, <2>4, <2>5 DEF Provision
<1>6. ASSUME NEW c \in Caller, Operate(c) PROVE ArchiveInv'
  <2>1. ASSUME NEW p, NEW l, Begin(c, "operate", p, l) PROVE ArchiveInv'
    BY <1>1, <1>4, <2>1
  <2>2. CASE PlanOperation(c)
    BY <1>1, <1>2, <1>3, <2>2 DEF PlanOperation, history, Step
  <2>3. CASE RunCommand(c)
    <3>1. CASE Len(caller[c].commands) = 1
      BY <1>1, <1>3, <2>3, <3>1 DEF RunCommand, history
    <3>2. CASE Len(caller[c].commands) # 1
      <4> DEFINE k == [caller[c] EXCEPT !.commands = Tail(caller[c].commands)]
      <4>1. caller[c].step = "run" /\ caller[c].step # "idle" /\ caller' = [caller EXCEPT ![c] = k]
        BY <2>3, <3>2 DEF RunCommand
      <4>2. k.step # "fill"
        BY <4>1, Acting DEF CallerRow
      <4>3. QED
        BY <1>1, <2>3, <4>1, <4>2 DEF RunCommand, history
    <3>3. QED
      BY <3>1, <3>2
  <2> HIDE DEF Quiet
  <2>4. QED
    BY <1>6, <2>1, <2>2, <2>3, OpenArchives, WriteArchives, CloseArchives DEF Operate
<1>7. ASSUME UNCHANGED <<archive, seen, cut, caller>> PROVE ArchiveInv'
  BY <1>7 DEF ArchiveInv, Good, Covered, ListedSeen, Writers, ArchiveOf, RootOf
<1> HIDE DEF Quiet
<1>8. ASSUME UNCHANGED vars PROVE ArchiveInv'
  BY <1>7, <1>8 DEF vars
<1>9. ASSUME ValidatePlan \/ \E r \in Root : Edit(r) PROVE ArchiveInv'
  BY <1>7, <1>9 DEF ValidatePlan, Edit, history
<1>10. QED
  BY <1>1, <1>5, <1>6, <1>8, <1>9, EndArchives DEF Next

\* An archive never shows what none of its last writers found in the workspace, and
\* writers who all found the same files, however many overlap, leave the archive of
\* those, whole and alone (_write_generated_app_archive).
THEOREM ArchivesAreSound == Spec => []ArchivesSound
<1>1. Init => ArchiveInv
  BY DEF Init, ArchiveInv, Good, ListedSeen, Idle
<1>2. QED
  BY <1>1, InitWorkspaceInv, StepWorkspaceInv, StepArchiveInv, ArchiveInvSound, PTL DEF Spec

-----------------------------------------------------------------------------
(* Workspaces without a readable marker.                                   *)

\* A caller that found another workspace its own, or none yet.
LEMMA StaysShut ==
  ASSUME WorkspaceInv, NEW r \in Root, Shut(r), NEW c \in Caller, NEW k,
         caller' = [caller EXCEPT ![c] = k],
         k.step \in Claiming => k.project.workspace.root # r,
         entries \subseteq entries', marker'[r] = marker[r]
  PROVE  Shut(r)'
<1>1. caller'[c] = k /\ \A d \in Caller \ {c} : caller'[d] = caller[d]
  BY DEF WorkspaceInv, TypeOK
<1>2. QED
  BY <1>1 DEF Shut, RootOf

\* What a step may do to a workspace that is shut.
Kept(r) ==
    /\ Shut(r)'
    /\ marker'[r] = marker[r] /\ remote'[r] = remote[r]
    /\ \A x \in ProjectId : archive'[<<r, x>>] = archive[<<r, x>>]

LEMMA IdleShut ==
  ASSUME WorkspaceInv, NEW r \in Root, Shut(r), NEW c \in Caller, Return(c),
         entries \subseteq entries', marker'[r] = marker[r]
  PROVE  Shut(r)'
<1>1. Idle.step \notin Claiming
  BY DEF Idle, Claiming
<1>2. QED
  BY <1>1, StaysShut DEF Return

LEMMA GotoShut ==
  ASSUME WorkspaceInv, NEW r \in Root, Shut(r), NEW c \in Caller, caller[c].step # "idle",
         NEW s \in Step, Goto(c, s), RootOf(c) # r,
         entries \subseteq entries', marker'[r] = marker[r]
  PROVE  Shut(r)'
<1> DEFINE k == [caller[c] EXCEPT !.step = s]
<1>1. caller' = [caller EXCEPT ![c] = k] /\ k.project.workspace.root # r
  BY GotoRow DEF RootOf
<1> HIDE DEF k
<1>2. QED
  BY <1>1, StaysShut

\* A call is refused where there is something without a readable marker.
LEMMA Refused ==
  ASSUME WorkspaceInv, NEW r \in Root, Shut(r), NEW c \in Caller, caller[c].step # "idle",
         RootOf(c) = r
  PROVE  ~Owned(c) /\ ~OwnedOrEmpty(c) /\ caller[c].step \notin Claiming
  BY Acting DEF Shut, Owned, OwnedOrEmpty

LEMMA CheckShut ==
  ASSUME WorkspaceInv, NEW r \in Root, Shut(r), NEW c \in Caller,
         CheckWorkspace(c) \/ RequireMarker(c) \/ PlanOperation(c)
  PROVE  Kept(r)
<1>1. UNCHANGED <<entries, marker, remote, archive>> /\ caller[c].step # "idle"
  BY DEF CheckWorkspace, RequireMarker, PlanOperation, files
<1>2. CASE RootOf(c) = r
  BY <1>1, <1>2, Refused, IdleShut DEF CheckWorkspace, RequireMarker, PlanOperation, Kept
<1>3. CASE RootOf(c) # r
  <2>1. Return(c) \/ \E s \in Step : Goto(c, s)
    BY DEF CheckWorkspace, RequireMarker, PlanOperation, Step
  <2>2. QED
    BY <1>1, <1>3, <2>1, GotoShut, IdleShut DEF Kept
<1>4. QED
  BY <1>2, <1>3

\* A step of a caller that found its workspace its own is a step elsewhere.
LEMMA ClaimingShut ==
  ASSUME WorkspaceInv, NEW r \in Root, Shut(r), NEW c \in Caller, caller[c].step \in Claiming,
         NEW k, caller' = [caller EXCEPT ![c] = k],
         k.step \in Claiming => k.project = caller[c].project,
         entries \subseteq entries',
         \A q \in Root : q # RootOf(c) => marker'[q] = marker[q] /\ remote'[q] = remote[q],
         \A a \in Archives : a # ArchiveOf(c) => archive'[a] = archive[a]
  PROVE  Kept(r)
<1>1. RootOf(c) # r /\ caller[c].project.workspace.root # r
  BY DEF Shut, RootOf
<1>2. \A x \in ProjectId : <<r, x>> \in Archives /\ <<r, x>> # ArchiveOf(c)
  BY <1>1 DEF Archives, ArchiveOf
<1>3. Shut(r)'
  BY <1>1, StaysShut
<1>4. QED
  BY <1>1, <1>2, <1>3 DEF Kept

LEMMA StepShut ==
  ASSUME WorkspaceInv, NEW r \in Root, Shut(r), Next
  PROVE  Kept(r)
<1> DEFINE Elsewhere(c) ==
        /\ entries \subseteq entries'
        /\ \A q \in Root : q # RootOf(c) => marker'[q] = marker[q] /\ remote'[q] = remote[q]
        /\ \A a \in Archives : a # ArchiveOf(c) => archive'[a] = archive[a]
<1>1. ASSUME NEW c \in Caller, caller[c].step \in Claiming, Elsewhere(c),
             Return(c) \/ \E s \in Step : Goto(c, s)
      PROVE  Kept(r)
  <2>1. caller[c].step # "idle"
    BY <1>1 DEF Claiming
  <2>2. Idle.step \notin Claiming
    BY DEF Idle, Claiming
  <2>3. CASE Return(c)
    BY <1>1, <2>2, <2>3, ClaimingShut DEF Return
  <2>4. ASSUME NEW s \in Step, Goto(c, s) PROVE Kept(r)
    <3> DEFINE k == [caller[c] EXCEPT !.step = s]
    <3>1. caller' = [caller EXCEPT ![c] = k] /\ k.project = caller[c].project
      BY <2>1, <2>4, GotoRow
    <3> HIDE DEF k
    <3>2. QED
      BY <1>1, <3>1, ClaimingShut
  <2>5. QED
    BY <1>1, <2>3, <2>4
<1>2. ASSUME NEW c \in Caller, NEW s \in {"prepare", "initialize", "operate"}, NEW p, NEW l,
             Begin(c, s, p, l)
      PROVE  Kept(r)
  <2>1. [Idle EXCEPT !.step = s, !.project = p, !.commands = l].step \notin Claiming
    BY DEF Idle, Claiming
  <2>2. QED
    BY <1>2, <2>1, StaysShut DEF Begin, files, Kept
<1>3. ASSUME NEW c \in Caller, Provision(c) PROVE Kept(r)
  <2>1. CASE MakeDirectories(c) \/ OpenMarker(c) \/ WriteMarker(c)
    <3>1. caller[c].step \in Claiming /\ (Return(c) \/ \E s \in Step : Goto(c, s))
      BY <2>1 DEF MakeDirectories, OpenMarker, WriteMarker, Claiming, Step
    <3>2. Elsewhere(c)
      BY <2>1 DEF MakeDirectories, OpenMarker, WriteMarker, WorkspaceInv, TypeOK
    <3>3. QED
      BY <1>1, <3>1, <3>2
  <2>2. CASE GitInit(c) \/ ReadRemote(c) \/ AddRemote(c)
    <3>1. caller[c].step \in Claiming /\ (Return(c) \/ \E s \in Step : Goto(c, s))
      BY <2>2 DEF GitInit, ReadRemote, AddRemote, Claiming, Step
    <3>2. Elsewhere(c)
      BY <2>2 DEF GitInit, ReadRemote, AddRemote, WorkspaceInv, TypeOK, files
    <3>3. QED
      BY <1>1, <3>1, <3>2
  <2>3. CASE CheckWorkspace(c) \/ RequireMarker(c)
    BY <2>3, CheckShut
  <2>4. QED
    BY <1>2, <1>3, <2>1, <2>2, <2>3 DEF Provision
<1>4. ASSUME NEW c \in Caller, Operate(c) PROVE Kept(r)
  <2>1. ASSUME NEW p, NEW l, Begin(c, "operate", p, l) PROVE Kept(r)
    BY <1>2, <2>1
  <2>2. ASSUME NEW k, RunCommand(c) \/ OpenArchive(c) \/ WriteBlock(c) \/ CloseArchive(c),
               caller' = [caller EXCEPT ![c] = k],
               k.step \in Claiming => k.project = caller[c].project
        PROVE  Kept(r)
    <3>1. caller[c].step \in Claiming
      BY <2>2 DEF RunCommand, OpenArchive, WriteBlock, CloseArchive, Claiming
    <3>2. \A a \in Archives : a # ArchiveOf(c) => archive'[a] = archive[a]
      BY <2>2 DEF RunCommand, OpenArchive, WriteBlock, CloseArchive, WorkspaceInv, TypeOK
    <3>3. UNCHANGED <<entries, marker, remote>>
      BY <2>2 DEF RunCommand, OpenArchive, WriteBlock, CloseArchive, files
    <3>4. QED
      BY <2>2, <3>1, <3>2, <3>3, ClaimingShut
  <2>3. Idle.step \notin Claiming
    BY DEF Idle, Claiming
  <2>4. CASE RunCommand(c)
    <3>1. caller[c] \in CallerRow
      BY <2>4, Acting DEF RunCommand
    <3>2. QED
      BY <2>2, <2>3, <2>4, <3>1 DEF RunCommand, Return, CallerRow
  <2>5. CASE OpenArchive(c)
    <3>1. caller[c] \in CallerRow
      BY <2>5, Acting DEF OpenArchive
    <3>2. QED
      BY <2>2, <2>5, <3>1 DEF OpenArchive, CallerRow
  <2>6. CASE WriteBlock(c)
    <3>1. caller[c] \in CallerRow
      BY <2>6, Acting DEF WriteBlock
    <3>2. QED
      BY <2>2, <2>6, <3>1 DEF WriteBlock, CallerRow
  <2>9. CASE CloseArchive(c)
    BY <2>2, <2>3, <2>9 DEF CloseArchive, Return
  <2>7. CASE PlanOperation(c)
    BY <2>7, CheckShut
  <2>8. QED
    BY <1>4, <2>1, <2>4, <2>5, <2>6, <2>7, <2>9 DEF Operate
<1>5. ASSUME NEW c \in Caller, End(c) PROVE Kept(r)
  BY <1>5, IdleShut DEF End, files, Kept
<1>6. ASSUME ValidatePlan \/ \E q \in Root : Edit(q) PROVE Kept(r)
  BY <1>6 DEF ValidatePlan, Edit, files, Kept, Shut, RootOf
<1>7. QED
  BY <1>3, <1>4, <1>5, <1>6 DEF Next

\* A workspace with something in it and no readable marker is left as it is by
\* every call, of whatever project, as long as the marker cannot be read
\* (_require_owned_or_empty_workspace, _require_workspace_marker).
THEOREM ShutWorkspacesStay == Spec => UnreadableStaysShut
<1>1. WorkspaceInv /\ [Next]_vars => [\A r \in Root : Shut(r) => Kept(r)]_vars
  BY StepShut
<1>2. QED
  BY <1>1, InitWorkspaceInv, StepWorkspaceInv, PTL DEF Spec, UnreadableStaysShut, Kept

-----------------------------------------------------------------------------
(* The graph of a frozen plan.                                             *)

TaskCount(f) == Cardinality(f.tasks)

\* What the search for a cycle reaches in k steps.
Ahead(f) ==
    CHOOSE ahead : ahead =
        [k \in 1..TaskCount(f) |->
            IF k = 1 THEN f.depends
            ELSE [t \in f.tasks |->
                    f.depends[t] \cup UNION {ahead[k - 1][d] : d \in f.depends[t] \cap f.tasks}]]

LEMMA CycleMeans ==
  ASSUME NEW f
  PROVE  HasDependencyCycle(f) <=> f.tasks # {} /\ \E t \in f.tasks : t \in Ahead(f)[TaskCount(f)][t]
  BY DEF HasDependencyCycle, Ahead, TaskCount

PlacedNext(f, before) ==
    LET ready == {t \in f.tasks \ before : f.depends[t] \subseteq before}
    IN  IF ready = {} THEN f.tasks ELSE before \cup ready

LEMMA PlacedMeans ==
  ASSUME NEW f
  PROVE  PlacedIn(f) = CHOOSE placed : placed =
            [k \in 0..TaskCount(f) |-> IF k = 0 THEN {} ELSE PlacedNext(f, placed[k - 1])]
  BY DEF PlacedIn, PlacedNext, TaskCount

LEMMA AheadReaches ==
  ASSUME NEW f \in FrozenPlan, f.tasks # {}, \A t \in f.tasks : f.depends[t] \subseteq f.tasks
  PROVE  \E M \in Nat : \E reach :
            /\ M + 1 = TaskCount(f)
            /\ Reaches(reach, M, f.tasks, f.depends)
            /\ reach[M] = Ahead(f)[TaskCount(f)]
<1> DEFINE T == f.tasks
           X == [T -> SUBSET T]
           step == [g \in X |-> [t \in T |-> f.depends[t] \cup UNION {g[d] : d \in f.depends[t] \cap T}]]
<1>1. PICK M \in Nat : M + 1 = TaskCount(f)
  <2>1. IsFiniteSet(T)
    BY FrozenPlanAssumption
  <2>2. TaskCount(f) \in Nat /\ TaskCount(f) # 0
    BY <2>1, FS_CardinalityType, FS_EmptySet DEF TaskCount
  <2>3. TaskCount(f) - 1 \in Nat /\ (TaskCount(f) - 1) + 1 = TaskCount(f)
    BY <2>2
  <2>4. QED
    BY <2>3
<1>2. f.depends \in X
  BY FrozenPlanAssumption
<1>3. step \in [X -> X]
  <2>1. ASSUME NEW g \in X
        PROVE  [t \in T |-> f.depends[t] \cup UNION {g[d] : d \in f.depends[t] \cap T}] \in X
    OBVIOUS
  <2>2. QED
    BY <2>1
<1>4. PICK h : Iterates(h, M, X, f.depends, step)
  <2> HIDE DEF X, step
  <2>1. QED
    BY <1>2, <1>3, Iteration
<1>5. /\ h \in [0..M -> X] /\ h[0] = f.depends
      /\ \A k \in 1..M : h[k] = step[h[k - 1]]
  BY <1>4 DEF Iterates
<1>6. ASSUME NEW k \in 1..M
      PROVE  h[k] = [t \in T |-> f.depends[t] \cup UNION {h[k - 1][d] : d \in f.depends[t] \cap T}]
  <2>1. h[k - 1] \in X
    BY <1>5
  <2>2. QED
    BY <1>5, <2>1
<1> DEFINE Is(a) == a = [k \in 1..TaskCount(f) |->
                IF k = 1 THEN f.depends
                ELSE [t \in T |-> f.depends[t] \cup UNION {a[k - 1][d] : d \in f.depends[t] \cap T}]]
           shifted == [k \in 1..TaskCount(f) |-> h[k - 1]]
<1>7. Is(shifted)
  <2>1. ASSUME NEW k \in 1..TaskCount(f), k # 1
        PROVE  shifted[k] = [t \in T |-> f.depends[t]
                                \cup UNION {shifted[k - 1][d] : d \in f.depends[t] \cap T}]
    <3>1. k - 1 \in 1..M /\ k - 1 \in 1..TaskCount(f)
      BY <1>1, <2>1
    <3>2. shifted[k] = h[k - 1] /\ shifted[k - 1] = h[(k - 1) - 1]
      BY <3>1
    <3> HIDE DEF shifted
    <3>3. QED
      BY <1>6, <3>1, <3>2
  <2>2. 1 \in 1..TaskCount(f) => shifted[1] = f.depends
    BY <1>5
  <2>3. QED
    BY <2>1, <2>2
<1>8. Is(Ahead(f))
  <2>1. Ahead(f) = CHOOSE a : Is(a)
    BY DEF Ahead
  <2> HIDE DEF Is
  <2>2. QED
    BY <1>7, <2>1
<1> DEFINE reach == [m \in 0..M |-> Ahead(f)[m + 1]]
<1>9. reach[0] = f.depends
  BY <1>1, <1>8
<1>10. ASSUME NEW m \in 1..M, NEW t \in T
       PROVE  reach[m][t] = f.depends[t] \cup UNION {reach[m - 1][d] : d \in f.depends[t] \cap T}
  <2>1. m + 1 \in 1..TaskCount(f) /\ m + 1 # 1 /\ (m + 1) - 1 = m /\ m - 1 \in 0..M /\ (m - 1) + 1 = m
    BY <1>1
  <2>2. reach[m] = Ahead(f)[m + 1] /\ reach[m - 1] = Ahead(f)[m]
    BY <2>1
  <2> HIDE DEF reach
  <2>3. Ahead(f)[m + 1] = [u \in T |-> f.depends[u]
                            \cup UNION {Ahead(f)[(m + 1) - 1][d] : d \in f.depends[u] \cap T}]
    <3> DEFINE a == Ahead(f)
               k == m + 1
    <3>1. k \in 1..TaskCount(f) /\ k # 1
      BY <2>1
    <3>2. Is(a)
      BY <1>8
    <3> HIDE DEF a, k
    <3>3. a[k] = [u \in T |-> f.depends[u] \cup UNION {a[k - 1][d] : d \in f.depends[u] \cap T}]
      BY <3>1, <3>2
    <3>4. QED
      BY <3>3 DEF a, k
  <2>4. QED
    BY <2>1, <2>2, <2>3
<1>11. Reaches(reach, M, T, f.depends)
  BY <1>9, <1>10 DEF Reaches
<1>12. QED
  BY <1>1, <1>11

\* A plan that passes has no cycle (_has_dependency_cycle).
LEMMA BoundIsAcyclic ==
  ASSUME NEW f \in FrozenPlan, TasksBound(f)
  PROVE  Acyclic(f.tasks, f.depends)
<1>1. CASE f.tasks = {}
  BY <1>1 DEF Acyclic
<1>2. CASE f.tasks # {}
  <2>1. \A t \in f.tasks : f.depends[t] \subseteq f.tasks
    BY DEF TasksBound
  <2>2. PICK M \in Nat : \E reach :
            /\ M + 1 = TaskCount(f)
            /\ Reaches(reach, M, f.tasks, f.depends)
            /\ reach[M] = Ahead(f)[TaskCount(f)]
    BY <1>2, <2>1, AheadReaches
  <2>3. PICK reach :
            /\ M + 1 = TaskCount(f)
            /\ Reaches(reach, M, f.tasks, f.depends)
            /\ reach[M] = Ahead(f)[TaskCount(f)]
    BY <2>2
  <2>4. \A t \in f.tasks : t \notin reach[M][t]
    BY <1>2, <2>3, CycleMeans DEF TasksBound
  <2>5. IsFiniteSet(f.tasks)
    BY FrozenPlanAssumption
  <2>6. Cardinality(f.tasks) <= M + 1
    BY <2>3 DEF TaskCount
  <2>7. QED
    BY <2>3, <2>4, <2>5, <2>6, CycleFound
<1>3. QED
  BY <1>1, <1>2

\* The waves of a plan without a cycle place its tasks after what they depend
\* on, and never fall back to placing all that remain (_topological_waves).
LEMMA WavesInOrder ==
  ASSUME NEW f \in FrozenPlan, TasksBound(f)
  PROVE  /\ TaskCount(f) \in Nat /\ DOMAIN PlacedIn(f) = 0..TaskCount(f)
         /\ Places(PlacedIn(f), TaskCount(f), f.tasks, f.depends)
         /\ PlacedIn(f)[TaskCount(f)] = f.tasks
<1> DEFINE T == f.tasks
           X == SUBSET T
           step == [before \in X |-> PlacedNext(f, before)]
<1>1. PICK N \in Nat : N = TaskCount(f)
  BY FrozenPlanAssumption, FS_CardinalityType DEF TaskCount
<1>2. step \in [X -> X] /\ {} \in X
  BY DEF PlacedNext
<1>3. PICK h : Iterates(h, N, X, {}, step)
  <2> HIDE DEF X, step
  <2>1. QED
    BY <1>2, Iteration
<1>4. /\ h \in [0..N -> X] /\ h[0] = {}
      /\ \A k \in 1..N : h[k] = step[h[k - 1]]
  BY <1>3 DEF Iterates
<1>5. ASSUME NEW k \in 1..N PROVE h[k] = PlacedNext(f, h[k - 1])
  <2>1. h[k - 1] \in X
    BY <1>4
  <2>2. QED
    BY <1>4, <2>1
<1> DEFINE Is(p) == p = [k \in 0..TaskCount(f) |-> IF k = 0 THEN {} ELSE PlacedNext(f, p[k - 1])]
           placed == PlacedIn(f)
<1>6. Is(h)
  BY <1>1, <1>4, <1>5
<1>7. Is(placed)
  <2>1. placed = CHOOSE p : Is(p)
    BY PlacedMeans
  <2> HIDE DEF Is, placed
  <2>2. QED
    BY <1>6, <2>1
<1>8. placed[0] = {} /\ DOMAIN placed = 0..N
  <2>1. 0 \in 0..TaskCount(f)
    BY <1>1
  <2> HIDE DEF placed
  <2>2. QED
    BY <1>1, <1>7, <2>1
<1>9. ASSUME NEW k \in 1..N PROVE placed[k] = PlacedNext(f, placed[k - 1])
  <2>1. k \in 0..TaskCount(f) /\ k # 0
    BY <1>1
  <2> HIDE DEF placed
  <2>2. QED
    BY <1>7, <2>1
<1>10. ASSUME NEW S \in SUBSET T
       PROVE  PlacedNext(f, S) = S \cup {t \in T : f.depends[t] \subseteq S}
  <2> DEFINE ready == {t \in T \ S : f.depends[t] \subseteq S}
  <2>1. CASE ready # {}
    BY <2>1 DEF PlacedNext
  <2>2. CASE ready = {}
    <3>1. ASSUME T \ S # {} PROVE FALSE
      <4>1. PICK t \in T \ S : f.depends[t] \cap (T \ S) = {}
        BY <3>1, BoundIsAcyclic DEF Acyclic
      <4>2. f.depends[t] \subseteq T
        BY DEF TasksBound
      <4>3. t \in ready
        BY <4>1, <4>2
      <4>4. QED
        BY <2>2, <4>3
    <3>2. QED
      BY <2>2, <3>1 DEF PlacedNext
  <2>3. QED
    BY <2>1, <2>2
<1>11. \A k \in 0..N : placed[k] \subseteq T
  <2> DEFINE P == {k \in Nat : k <= N => placed[k] \subseteq T}
  <2>1. 0 \in P
    BY <1>8
  <2>2. ASSUME NEW k \in P PROVE k + 1 \in P
    <3> SUFFICES ASSUME k + 1 <= N PROVE placed[k + 1] \subseteq T
      OBVIOUS
    <3>1. k + 1 \in 1..N /\ (k + 1) - 1 = k /\ placed[k] \subseteq T
      OBVIOUS
    <3> HIDE DEF placed
    <3>2. placed[k + 1] = PlacedNext(f, placed[k])
      BY <1>9, <3>1
    <3>3. QED
      BY <1>10, <3>1, <3>2
  <2>3. P = Nat
    <3> HIDE DEF P
    <3>1. QED
      BY <2>1, <2>2, Induction DEF P
  <2>4. QED
    BY <2>3
<1>12. Places(placed, N, T, f.depends)
  <2>1. ASSUME NEW k \in 1..N
        PROVE  placed[k] = placed[k - 1] \cup {t \in T : f.depends[t] \subseteq placed[k - 1]}
    <3>1. k - 1 \in 0..N
      OBVIOUS
    <3> HIDE DEF placed
    <3>2. QED
      BY <1>9, <1>10, <1>11, <3>1
  <2>2. QED
    BY <1>8, <2>1 DEF Places
<1>13. placed[N] = T
  <2>1. IsFiniteSet(T) /\ N = Cardinality(T) /\ \A t \in T : f.depends[t] \subseteq T
    BY <1>1, FrozenPlanAssumption DEF TaskCount, TasksBound
  <2> HIDE DEF placed
  <2>2. QED
    BY <1>12, <2>1, BoundIsAcyclic, PlacedAll
<1>14. QED
  BY <1>1, <1>8, <1>12, <1>13

LEMMA ImportableSound ==
  ASSUME NEW f \in FrozenPlan, Importable(f), NEW e \in Handed(f).edges
  PROVE  /\ e \in f.tasks \X f.tasks
         /\ WaveOf(f, e[2]) < WaveOf(f, e[1])
<1> DEFINE N == TaskCount(f)
           placed == PlacedIn(f)
           First(t, k) == k \in DOMAIN placed /\ t \in placed[k] /\ (k = 0 \/ t \notin placed[k - 1])
<1>1. TasksBound(f)
  BY DEF Importable
<1>2. PICK t \in f.tasks : e \in {t} \X f.depends[t]
  BY DEF Handed, Edges
<1>3. e = <<t, e[2]>> /\ e[1] = t /\ e[2] \in f.depends[t] /\ e[2] \in f.tasks
  BY <1>1, <1>2 DEF TasksBound
<1>4. /\ N \in Nat /\ DOMAIN placed = 0..N /\ Places(placed, N, f.tasks, f.depends)
      /\ placed[N] = f.tasks
  BY <1>1, WavesInOrder
<1>5. ASSUME NEW u \in f.tasks
      PROVE  /\ WaveOf(f, u) \in 1..N
             /\ \A j \in 0..N : u \in placed[j] <=> WaveOf(f, u) <= j
  <2>1. PICK k \in 1..N : \A j \in 0..N : u \in placed[j] <=> k <= j
    <3> HIDE DEF placed, N
    <3>1. QED
      BY <1>4, OneWave
  <2>2. First(u, k)
    BY <1>4, <2>1
  <2>3. WaveOf(f, u) = CHOOSE j \in DOMAIN placed : u \in placed[j] /\ (j = 0 \/ u \notin placed[j - 1])
    BY DEF WaveOf
  <2>4. First(u, WaveOf(f, u))
    <3> HIDE DEF placed
    <3>1. QED
      BY <2>2, <2>3
  <2>5. placed[0] = {}
    BY <1>4 DEF Places
  <2>6. WaveOf(f, u) = k
    BY <1>4, <2>1, <2>4, <2>5
  <2>7. QED
    BY <2>1, <2>6
<1>6. WaveOf(f, t) - 1 \in 0..N /\ WaveOf(f, t) \in 1..N
  BY <1>4, <1>5
<1>7. f.depends[t] \subseteq placed[WaveOf(f, t) - 1]
  BY <1>4, <1>5, <1>6 DEF Places
<1>8. WaveOf(f, e[2]) <= WaveOf(f, t) - 1
  BY <1>3, <1>5, <1>6, <1>7
<1>9. QED
  BY <1>3, <1>4, <1>5, <1>6, <1>8

\* What passes validation can be handed to the runtime
\* (validate_external_project_frozen_plan).
LEMMA HandedSound ==
  ASSUME NEW f \in FrozenPlan, Importable(f), NEW g \in DOMAIN Handed(f).gates
  PROVE  /\ g \in f.project.plan.gates
         /\ Handed(f).gates[g].task \in Handed(f).tasks
         /\ f.project.lifecycle \in ExecutionStates => Handed(f).gates[g].status = "approved"
  BY DEF Handed, Importable, GatesDefined, Valid, GatesDecided, GateStatusOf

\* A frozen plan of any size that passes validation is handed to the runtime
\* as an ordered graph with its gates (validate_external_project_frozen_plan,
\* _topological_waves).
THEOREM AcceptedPlansOrdered == Spec => []AcceptedPlanSound
<1> DEFINE Accepted == frozen # Unset => frozen \in FrozenPlan /\ Importable(frozen)
<1>1. Init => Accepted
  BY DEF Init
<1>2. Accepted /\ [Next]_vars => Accepted'
  <2>1. ASSUME Accepted, ValidatePlan PROVE Accepted'
    BY <2>1 DEF ValidatePlan
  <2>2. ASSUME Next, ~ValidatePlan PROVE UNCHANGED frozen
    <3>1. ASSUME NEW c \in Caller, Provision(c) PROVE UNCHANGED frozen
      BY <3>1 DEF Provision, Begin, CheckWorkspace, MakeDirectories, OpenMarker,
                  WriteMarker, RequireMarker, GitInit, ReadRemote, AddRemote
    <3>2. ASSUME NEW c \in Caller, Operate(c) PROVE UNCHANGED frozen
      BY <3>2 DEF Operate, Begin, PlanOperation, RunCommand, OpenArchive, WriteBlock, CloseArchive
    <3>3. QED
      BY <2>2, <3>1, <3>2 DEF Next, End, Edit
  <2>3. QED
    BY <2>1, <2>2 DEF vars
<1>3. Accepted => AcceptedPlanSound
  <2> SUFFICES ASSUME frozen \in FrozenPlan, Importable(frozen), frozen # Unset
               PROVE  AcceptedPlanSound
    BY DEF AcceptedPlanSound
  <2>1. Handed(frozen).tasks = frozen.tasks
    BY DEF Handed
  <2>2. \A e \in Handed(frozen).edges :
            /\ e \in frozen.tasks \X frozen.tasks
            /\ WaveOf(frozen, e[2]) < WaveOf(frozen, e[1])
    BY ImportableSound
  <2>3. Handed(frozen).width > 0
    <3>1. frozen.width \in Nat /\ frozen.width >= 1
      BY FrozenPlanAssumption DEF Importable, ReadyToImport
    <3>2. Handed(frozen).width = frozen.width
      BY DEF Handed
    <3>3. QED
      BY <3>1, <3>2
  <2>4. QED
    BY <2>1, <2>2, <2>3, HandedSound DEF AcceptedPlanSound
<1>4. QED
  BY <1>1, <1>2, <1>3, PTL DEF Spec
=============================================================================
