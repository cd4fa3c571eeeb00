--------------------------- MODULE BaselineProofs ---------------------------
(***************************************************************************)
(* The safety properties of HardeningBaseline, and that it implements      *)
(* IntegrationOrder, for every plan, any number of advancers and any       *)
(* clocks.                                                                 *)
(***************************************************************************)
EXTENDS BaselineProperties, TLAPS

Baselines == checkpoints \cup {Initial}

\* The committed baselines: one history without a gap, of which the current
\* baseline is one.
History ==
    /\ OneHistory
    /\ TreeHoldsIntegrated
    /\ \A c \in checkpoints : c.generation > 0
    /\ \A c \in checkpoints : \A k \in 1..c.generation :
         \E d \in checkpoints : d.generation = k
    /\ current \in Baselines
    /\ current = Initial => checkpoints = {}

\* The next baseline is right although it is not committed: it extends the
\* current one by one task, and nothing of its generation is written yet.
Extends(c) ==
    /\ c \in Checkpoint
    /\ c.generation = current.generation + 1
    /\ \A d \in checkpoints : d.generation < c.generation
    /\ \E t \in Task :
         /\ t \notin current.integrated
         /\ Deps[t] \subseteq current.integrated
         /\ c.integrated = current.integrated \cup {t}
         /\ c.tree = current.tree \cup {t}

InFlight ==
    /\ \A p, q \in Advancer : inserting[p] # {} /\ inserting[q] # {} => p = q
    /\ \A p \in Advancer : \A c, d \in inserting[p] : c = d
    /\ \A p \in Advancer : \A c \in inserting[p] : Extends(c)

\* An execution is bound to a baseline that was current when its package was
\* built, and that holds what its task depends on.
BoundTo(t, c) ==
    /\ execution[t].baseline = c.generation
    /\ execution[t].tree = c.tree
    /\ Deps[t] \subseteq c.integrated

OnRecord(t) ==
    execution[t].baseline # Unbound => \E c \in Baselines : BoundTo(t, c)

\* Claimed on the current baseline, or on one that it has grown from.
ClaimSound(t) == stage[t] = "claimed" => Deps[t] \subseteq current.integrated

Bound == \A t \in Task : ClaimSound(t) /\ OnRecord(t)

BaselineInv == TypeOK /\ History /\ InFlight /\ Bound

-----------------------------------------------------------------------------
LEMMA InitialType == Initial \in Checkpoint
  BY DEF Initial, Checkpoint

LEMMA InitTypeOK == Init => TypeOK
  BY InitialType, PlanAssumption
  DEF Init, TypeOK, Stage, Execution, NoExecution, Unbound

LEMMA NextTypeOK == TypeOK /\ [Next]_vars => TypeOK'
<1> SUFFICES ASSUME TypeOK, [Next]_vars PROVE TypeOK'
  OBVIOUS
<1>1. ASSUME NEW t \in Task, TaskStep(t) PROVE TypeOK'
  <2>1. CASE Claim(t) \/ PackageRejected(t) \/ RollBack(t) \/ Block(t)
    BY <2>1 DEF Claim, PackageRejected, RollBack, Block, TypeOK, Stage
  <2>2. CASE BuildPackage(t)
    <3>1. [baseline |-> current.generation, tree |-> current.tree,
           commit |-> FALSE] \in Execution
      BY DEF TypeOK, Checkpoint, Execution
    <3>2. QED
      BY <2>2, <3>1 DEF BuildPackage, TypeOK, Stage
  <2>3. CASE Pass(t)
    <3>1. PICK commit \in BOOLEAN :
            execution' = [execution EXCEPT ![t].commit = commit]
      BY <2>3 DEF Pass
    <3>2. [execution[t] EXCEPT !.commit = commit] \in Execution
      BY DEF TypeOK, Execution
    <3>3. QED
      BY <2>3, <3>1, <3>2 DEF Pass, TypeOK, Stage
  <2>4. CASE Repair(t)
    <3>1. PICK head \in {c.tree : c \in checkpoints \cup {Initial}} :
            execution' = [execution EXCEPT
              ![t] = [baseline |-> Unbound, tree |-> head, commit |-> FALSE]]
      BY <2>4 DEF Repair
    <3>2. head \in SUBSET Task
      BY InitialType DEF TypeOK, Checkpoint
    <3>3. [baseline |-> Unbound, tree |-> head, commit |-> FALSE] \in Execution
      BY <3>2 DEF Execution
    <3>4. QED
      BY <2>4, <3>1, <3>3 DEF Repair, TypeOK
  <2>5. QED
    BY <1>1, <2>1, <2>2, <2>3, <2>4 DEF TaskStep
<1>2. ASSUME NEW p \in Advancer, AdvanceStep(p) PROVE TypeOK'
  <2>1. ASSUME NEW t \in Task, NEW expected \in Generations,
               NEW created \in Clock, Advance(p, t, expected, created)
        PROVE  TypeOK'
    <3>1. NextState(t, created) \in Checkpoint
      BY ClockAssumption DEF NextState, TypeOK, Checkpoint, Execution
    <3>2. QED
      BY <2>1, <3>1 DEF Advance, TypeOK
  <2>2. CASE CommitAdvance(p)
    BY <2>2 DEF CommitAdvance, TypeOK
  <2>3. CASE RollBackAdvance(p)
    BY <2>3 DEF RollBackAdvance, TypeOK
  <2>4. QED
    BY <1>2, <2>1, <2>2, <2>3 DEF AdvanceStep
<1>3. CASE UNCHANGED vars
  BY <1>3 DEF vars, TypeOK
<1>4. QED
  BY <1>1, <1>2, <1>3 DEF Next

\* Executions, checkpoints and the current baseline keep their types: the
\* baseline read by readiness and packages is always a committed record.
THEOREM BaselineTypeCorrect == Spec => []TypeOK
<1>1. QED
  BY InitTypeOK, NextTypeOK, PTL DEF Spec
-----------------------------------------------------------------------------
(* Nothing but a commit changes the baselines.                             *)

LEMMA InitBaselineInv == Init => BaselineInv
<1> SUFFICES ASSUME Init PROVE BaselineInv
  OBVIOUS
<1>1. TypeOK
  BY InitTypeOK
<1>2. History
  BY DEF Init, History, OneHistory, TreeHoldsIntegrated, Baselines
<1>3. InFlight
  BY DEF Init, InFlight
<1>4. Bound
  BY DEF Init, Bound, ClaimSound, OnRecord, NoExecution
<1>5. QED
  BY <1>1, <1>2, <1>3, <1>4 DEF BaselineInv

\* A task step leaves the baselines alone.
LEMMA TaskStepHistory ==
  ASSUME NEW t \in Task, TaskStep(t)
  PROVE  UNCHANGED <<checkpoints, current, inserting>>
BY DEF TaskStep, Claim, BuildPackage, PackageRejected, RollBack, Pass, Repair,
       Block

LEMMA HistoryKept ==
  ASSUME History, InFlight, UNCHANGED <<checkpoints, current, inserting>>
  PROVE  History' /\ InFlight'
BY DEF History, InFlight, Extends, OneHistory, TreeHoldsIntegrated, Baselines

\* What an execution was bound to stays on record.
LEMMA RecordKept ==
  ASSUME NEW t \in Task, OnRecord(t), checkpoints \subseteq checkpoints',
         execution'[t].baseline = execution[t].baseline,
         execution'[t].tree = execution[t].tree
  PROVE  OnRecord(t)'
<1> SUFFICES ASSUME execution'[t].baseline # Unbound
             PROVE  \E c \in Baselines' : BoundTo(t, c)'
  BY DEF OnRecord
<1>1. PICK c \in Baselines : BoundTo(t, c)
  BY DEF OnRecord
<1>2. c \in Baselines' /\ BoundTo(t, c)'
  BY <1>1 DEF Baselines, BoundTo
<1>3. QED
  BY <1>2

\* A step of one task changes nothing of another.
LEMMA TaskStepOther ==
  ASSUME TypeOK, NEW t \in Task, TaskStep(t), NEW u \in Task, u # t
  PROVE  stage'[u] = stage[u] /\ execution'[u] = execution[u]
<1> stage \in [Task -> Stage] /\ execution \in [Task -> Execution]
  BY DEF TypeOK
<1>1. CASE Claim(t) \/ PackageRejected(t) \/ RollBack(t) \/ Block(t)
  BY <1>1 DEF Claim, PackageRejected, RollBack, Block
<1>2. CASE BuildPackage(t)
  BY <1>2 DEF BuildPackage
<1>3. CASE Pass(t)
  BY <1>3 DEF Pass
<1>4. CASE Repair(t)
  BY <1>4 DEF Repair
<1>5. QED
  BY <1>1, <1>2, <1>3, <1>4 DEF TaskStep

\* A claim is made when everything the task depends on is integrated.
LEMMA TaskStepClaim ==
  ASSUME TypeOK, NEW t \in Task, TaskStep(t), ClaimSound(t)
  PROVE  ClaimSound(t)'
<1> stage \in [Task -> Stage] /\ current' = current
  BY TaskStepHistory DEF TypeOK
<1>1. CASE Claim(t)
  <2>1. \A d \in Deps[t] : stage[d] = "passed" /\ d \in current.integrated
    BY <1>1 DEF Claim, Blockers
  <2>2. QED
    BY <2>1 DEF ClaimSound
<1>2. CASE BuildPackage(t)
  <2>1. stage'[t] = "running"
    BY <1>2 DEF BuildPackage
  <2>2. QED
    BY <2>1 DEF ClaimSound
<1>3. CASE PackageRejected(t) \/ RollBack(t) \/ Block(t) \/ Pass(t)
  <2>1. stage'[t] \in {"blocked", "pending", "passed"}
    BY <1>3 DEF PackageRejected, RollBack, Block, Pass
  <2>2. QED
    BY <2>1 DEF ClaimSound
<1>4. CASE Repair(t)
  BY <1>4 DEF Repair, ClaimSound
<1>5. QED
  BY <1>1, <1>2, <1>3, <1>4 DEF TaskStep

\* A package is bound to the current baseline, and a repair to none.
LEMMA TaskStepRecord ==
  ASSUME TypeOK, History, NEW t \in Task, TaskStep(t), ClaimSound(t), OnRecord(t)
  PROVE  OnRecord(t)'
<1> execution \in [Task -> Execution] /\ UNCHANGED <<checkpoints, current>>
  BY TaskStepHistory DEF TypeOK
<1>1. CASE Claim(t) \/ PackageRejected(t) \/ RollBack(t) \/ Block(t)
  <2>1. execution' = execution
    BY <1>1 DEF Claim, PackageRejected, RollBack, Block
  <2>2. QED
    BY <2>1, RecordKept
<1>2. CASE BuildPackage(t)
  <2>1. execution'[t] = [baseline |-> current.generation, tree |-> current.tree,
                         commit |-> FALSE]
    BY <1>2 DEF BuildPackage
  <2>2. Deps[t] \subseteq current.integrated
    BY <1>2 DEF BuildPackage, ClaimSound
  <2>3. current \in Baselines' /\ BoundTo(t, current)'
    BY <2>1, <2>2 DEF BoundTo, History, Baselines
  <2>4. \E c \in Baselines' : BoundTo(t, c)'
    BY <2>3 DEF BoundTo
  <2>5. QED
    BY <2>4 DEF OnRecord
<1>3. CASE Pass(t)
  <2>1. PICK commit \in BOOLEAN :
          execution' = [execution EXCEPT ![t].commit = commit]
    BY <1>3 DEF Pass
  <2>2. /\ execution'[t].baseline = execution[t].baseline
        /\ execution'[t].tree = execution[t].tree
    BY <2>1 DEF Execution
  <2>3. QED
    BY <2>2, RecordKept
<1>4. CASE Repair(t)
  <2>1. execution'[t].baseline = Unbound
    BY <1>4 DEF Repair
  <2>2. QED
    BY <2>1 DEF OnRecord
<1>5. QED
  BY <1>1, <1>2, <1>3, <1>4 DEF TaskStep

LEMMA TaskStepInv ==
  ASSUME BaselineInv, NEW t \in Task, TaskStep(t), TypeOK'
  PROVE  BaselineInv'
<1>1. TypeOK /\ History /\ InFlight /\ Bound
  BY DEF BaselineInv
<1>2. UNCHANGED <<checkpoints, current, inserting>>
  BY TaskStepHistory
<1>3. ASSUME NEW u \in Task
      PROVE  ClaimSound(u)' /\ OnRecord(u)'
  <2>1. ClaimSound(u) /\ OnRecord(u)
    BY <1>1 DEF Bound
  <2>2. CASE u = t
    BY <1>1, <2>1, <2>2, TaskStepClaim, TaskStepRecord
  <2>3. CASE u # t
    <3>1. stage'[u] = stage[u] /\ execution'[u] = execution[u]
      BY <1>1, <2>3, TaskStepOther
    <3>2. ClaimSound(u)'
      BY <1>2, <2>1, <3>1 DEF ClaimSound
    <3>3. OnRecord(u)'
      BY <1>2, <2>1, <3>1, RecordKept
    <3>4. QED
      BY <3>2, <3>3
  <2>4. QED
    BY <2>2, <2>3
<1>4. Bound'
  BY <1>3 DEF Bound
<1>5. History' /\ InFlight'
  BY <1>1, <1>2, HistoryKept
<1>6. QED
  BY <1>4, <1>5 DEF BaselineInv
-----------------------------------------------------------------------------
(* An advance.                                                             *)

\* The generations are those of the baselines, each of one of them.
LEMMA OneOfEachGeneration ==
  ASSUME History, NEW c \in Baselines, NEW d \in Baselines,
         c.generation = d.generation
  PROVE  c = d
<1>1. CASE c \in checkpoints /\ d \in checkpoints
  BY <1>1 DEF History, OneHistory
<1>2. CASE c = Initial \/ d = Initial
  BY <1>2 DEF History, Baselines, Initial
<1>3. QED
  BY <1>1, <1>2 DEF Baselines

\* Whatever passes the checks of advance is the right next baseline.
LEMMA NextStateExtends ==
  ASSUME TypeOK, History, Bound, NEW t \in Task, NEW expected \in Generations,
         NEW created \in Clock, Provenance(t, expected), Expected(expected),
         t \notin current.integrated, Unused(current.generation + 1)
  PROVE  Extends(NextState(t, created))
<1> current \in Checkpoint /\ current.generation \in Nat
  BY DEF TypeOK, Checkpoint
<1>1. PICK c \in Baselines : BoundTo(t, c)
  <2>1. execution[t].baseline = current.generation
    BY DEF Provenance, Expected
  <2>2. execution[t].baseline # Unbound
    BY <2>1 DEF Unbound
  <2>3. QED
    BY <2>2 DEF Bound, OnRecord
<1>2. c = current
  BY <1>1, OneOfEachGeneration DEF BoundTo, Provenance, Expected, History
<1>3. execution[t].tree = current.tree /\ Deps[t] \subseteq current.integrated
  BY <1>1, <1>2 DEF BoundTo
<1>4. ASSUME NEW d \in checkpoints
      PROVE  d.generation < current.generation + 1
  <2>1. d.generation \in Nat
    BY DEF TypeOK, Checkpoint
  <2>2. SUFFICES ASSUME current.generation + 1 \in 1..d.generation PROVE FALSE
    BY <2>1
  <2>3. QED
    BY <2>2 DEF History, Unused
<1>5. NextState(t, created) \in Checkpoint
  BY ClockAssumption DEF NextState, TypeOK, Checkpoint, Execution
<1>6. QED
  BY <1>3, <1>4, <1>5 DEF Extends, NextState

\* The lock of the owner's row admits one advance at a time.
LEMMA AdvanceInv ==
  ASSUME BaselineInv, TypeOK', NEW p \in Advancer, NEW t \in Task,
         NEW expected \in Generations, NEW created \in Clock,
         Advance(p, t, expected, created)
  PROVE  BaselineInv'
<1>1. TypeOK /\ History /\ InFlight /\ Bound
  BY DEF BaselineInv
<1>2. /\ UNCHANGED <<stage, execution, checkpoints, current>>
      /\ inserting' = [inserting EXCEPT ![p] = {NextState(t, created)}]
      /\ inserting \in [Advancer -> SUBSET Checkpoint]
  BY <1>1 DEF Advance, TypeOK
<1>3. \A q \in Advancer : inserting[q] = {}
  BY DEF Advance, OwnerFree, Advancing
<1>4. inserting'[p] = {NextState(t, created)}
  BY <1>2
<1>5. \A q \in Advancer : q # p => inserting'[q] = {}
  BY <1>2, <1>3
<1>6. Extends(NextState(t, created))
  BY <1>1, NextStateExtends DEF Advance
<1>7. \A c : Extends(c) => Extends(c)'
  BY <1>2 DEF Extends
<1>8. InFlight'
  BY <1>4, <1>5, <1>6, <1>7 DEF InFlight
<1>9. History'
  BY <1>1, <1>2 DEF History, OneHistory, TreeHoldsIntegrated, Baselines
<1>10. Bound'
  BY <1>1, <1>2, RecordKept DEF Bound, ClaimSound
<1>11. QED
  BY <1>8, <1>9, <1>10 DEF BaselineInv

\* Everything committed is contained in the current baseline, once the next
\* one is to be written.
LEMMA CurrentIsLatest ==
  ASSUME TypeOK, History, NEW c, Extends(c), NEW d \in checkpoints
  PROVE  /\ d.integrated \subseteq current.integrated
         /\ d.tree \subseteq current.tree
<1>1. current \in checkpoints
  BY DEF History, Baselines
<1>2. /\ d.generation \in Nat /\ current.generation \in Nat
      /\ d.generation < current.generation + 1
  BY <1>1 DEF Extends, TypeOK, Checkpoint
<1>3. CASE d.generation = current.generation
  BY <1>1, <1>3 DEF History, OneHistory
<1>4. CASE d.generation < current.generation
  BY <1>1, <1>4 DEF History, OneHistory
<1>5. QED
  BY <1>2, <1>3, <1>4

LEMMA CommitHistory ==
  ASSUME TypeOK, History, NEW c, Extends(c), checkpoints' = checkpoints \cup {c},
         current' = IF Newer(c, current) THEN c ELSE current
  PROVE  History'
<1>1. PICK t \in Task : /\ c.integrated = current.integrated \cup {t}
                        /\ c.tree = current.tree \cup {t}
  BY DEF Extends
<1>2. /\ current.generation \in Nat /\ c.generation = current.generation + 1
      /\ c.generation \in Nat /\ c.generation > 0
  BY DEF Extends, TypeOK, Checkpoint
<1>3. OneHistory'
  <2> SUFFICES ASSUME NEW d \in checkpoints', NEW e \in checkpoints'
               PROVE  /\ d.generation = e.generation => d = e
                      /\ d.generation < e.generation =>
                           d.integrated \subseteq e.integrated /\ d.tree \subseteq e.tree
    BY DEF OneHistory
  <2>1. CASE d \in checkpoints /\ e \in checkpoints
    BY <2>1 DEF History, OneHistory
  <2>2. CASE d \in checkpoints /\ e = c
    <3>1. d.generation < c.generation /\ d.generation \in Nat
      BY <2>2 DEF Extends, TypeOK, Checkpoint
    <3>2. d.integrated \subseteq c.integrated /\ d.tree \subseteq c.tree
      BY <1>1, <2>2, CurrentIsLatest
    <3>3. QED
      BY <1>2, <2>2, <3>1, <3>2
  <2>3. CASE d = c /\ e \in checkpoints
    <3>1. e.generation < c.generation /\ e.generation \in Nat
      BY <2>3 DEF Extends, TypeOK, Checkpoint
    <3>2. QED
      BY <1>2, <2>3, <3>1
  <2>4. CASE d = c /\ e = c
    BY <1>2, <2>4
  <2>5. QED
    BY <2>1, <2>2, <2>3, <2>4
<1>4. TreeHoldsIntegrated'
  <2>1. current.integrated \subseteq current.tree
    BY DEF History, TreeHoldsIntegrated, Baselines, Initial
  <2>2. c.integrated \subseteq c.tree
    BY <1>1, <2>1
  <2>3. QED
    BY <2>2 DEF History, TreeHoldsIntegrated
<1>5. \A d \in checkpoints' : d.generation > 0
  BY <1>2 DEF History
<1>6. ASSUME NEW d \in checkpoints', NEW k \in 1..d.generation
      PROVE  \E e \in checkpoints' : e.generation = k
  <2>1. CASE d \in checkpoints
    BY <2>1 DEF History
  <2>2. CASE d = c /\ k = c.generation
    BY <2>2
  <2>3. CASE d = c /\ k # c.generation
    <3>1. k \in 1..current.generation
      BY <1>2, <2>3
    <3>2. current # Initial
      BY <3>1 DEF Initial
    <3>3. QED
      BY <3>1, <3>2 DEF History, Baselines
  <2>4. QED
    BY <2>1, <2>2, <2>3
<1>7. current' \in Baselines'
  BY DEF History, Baselines
<1>8. current' # Initial
  <2>1. CASE Newer(c, current)
    BY <1>2, <2>1 DEF Initial
  <2>2. CASE ~Newer(c, current)
    BY <2>2 DEF Newer
  <2>3. QED
    BY <2>1, <2>2
<1>9. QED
  BY <1>3, <1>4, <1>5, <1>6, <1>7, <1>8 DEF History

LEMMA CommitInv ==
  ASSUME BaselineInv, TypeOK', NEW p \in Advancer, CommitAdvance(p)
  PROVE  BaselineInv'
<1>1. TypeOK /\ History /\ InFlight /\ Bound
  BY DEF BaselineInv
<1>2. PICK c \in inserting[p] :
        /\ checkpoints' = checkpoints \cup {c}
        /\ current' = IF Newer(c, current) THEN c ELSE current
        /\ inserting' = [inserting EXCEPT ![p] = {}]
        /\ UNCHANGED <<stage, execution>>
  BY DEF CommitAdvance
<1>3. Extends(c)
  BY <1>1 DEF InFlight
<1>4. History'
  BY <1>1, <1>2, <1>3, CommitHistory
<1>5. \A q \in Advancer : inserting'[q] = {}
  BY <1>1, <1>2 DEF InFlight, TypeOK
<1>6. InFlight'
  BY <1>5 DEF InFlight
<1>7. current.integrated \subseteq current'.integrated
  BY <1>2, <1>3 DEF Extends
<1>8. ASSUME NEW t \in Task PROVE ClaimSound(t)' /\ OnRecord(t)'
  <2>1. ClaimSound(t) /\ OnRecord(t)
    BY <1>1 DEF Bound
  <2>2. ClaimSound(t)'
    BY <1>2, <1>7, <2>1 DEF ClaimSound
  <2>3. OnRecord(t)'
    BY <1>2, <2>1, RecordKept
  <2>4. QED
    BY <2>2, <2>3
<1>9. QED
  BY <1>4, <1>6, <1>8 DEF BaselineInv, Bound

LEMMA RollBackInv ==
  ASSUME BaselineInv, TypeOK', NEW p \in Advancer, RollBackAdvance(p)
  PROVE  BaselineInv'
<1>1. TypeOK /\ History /\ InFlight /\ Bound
  BY DEF BaselineInv
<1>2. /\ UNCHANGED <<stage, execution, checkpoints, current>>
      /\ \A q \in Advancer : inserting'[q] \subseteq inserting[q]
  BY <1>1 DEF RollBackAdvance, TypeOK
<1>3. History'
  BY <1>1, <1>2 DEF History, OneHistory, TreeHoldsIntegrated, Baselines
<1>4. \A c : Extends(c) => Extends(c)'
  BY <1>2 DEF Extends
<1>5. InFlight'
  BY <1>1, <1>2, <1>4 DEF InFlight
<1>6. Bound'
  BY <1>1, <1>2, RecordKept DEF Bound, ClaimSound
<1>7. QED
  BY <1>3, <1>5, <1>6 DEF BaselineInv

LEMMA NextBaselineInv == BaselineInv /\ [Next]_vars => BaselineInv'
<1> SUFFICES ASSUME BaselineInv, [Next]_vars PROVE BaselineInv'
  OBVIOUS
<1> TypeOK /\ TypeOK'
  BY NextTypeOK DEF BaselineInv
<1>1. ASSUME NEW t \in Task, TaskStep(t) PROVE BaselineInv'
  BY <1>1, TaskStepInv
<1>2. ASSUME NEW p \in Advancer, AdvanceStep(p) PROVE BaselineInv'
  <2>1. ASSUME NEW t \in Task, NEW expected \in Generations,
               NEW created \in Clock, Advance(p, t, expected, created)
        PROVE  BaselineInv'
    BY <2>1, AdvanceInv
  <2>2. CASE CommitAdvance(p)
    BY <2>2, CommitInv
  <2>3. CASE RollBackAdvance(p)
    BY <2>3, RollBackInv
  <2>4. QED
    BY <1>2, <2>1, <2>2, <2>3 DEF AdvanceStep
<1>3. CASE UNCHANGED vars
  <2>1. UNCHANGED <<stage, execution, checkpoints, current, inserting>>
    BY <1>3 DEF vars
  <2>2. History' /\ InFlight'
    BY <2>1, HistoryKept DEF BaselineInv
  <2>3. Bound'
    BY <2>1, RecordKept DEF BaselineInv, Bound, ClaimSound
  <2>4. QED
    BY <2>2, <2>3 DEF BaselineInv
<1>4. QED
  BY <1>1, <1>2, <1>3 DEF Next
-----------------------------------------------------------------------------
(* The theorems.                                                           *)

\* The inductive invariant of the cumulative baseline.
THEOREM BaselineInvariant == Spec => []BaselineInv
<1>1. QED
  BY InitBaselineInv, NextBaselineInv, PTL DEF Spec

\* No baseline calls a task integrated whose result its commit does not hold,
\* whatever the order in which executions end and integrations are tried.
THEOREM IntegratedResultsAreKept == Spec => []TreeHoldsIntegrated
<1>1. BaselineInv => TreeHoldsIntegrated
  BY DEF BaselineInv, History
<1>2. QED
  BY <1>1, BaselineInvariant, PTL

\* The committed baselines form one history, for any clocks of the advancers:
\* one per generation, each containing all earlier ones.
THEOREM BaselinesFormOneHistory == Spec => []OneHistory
<1>1. BaselineInv => OneHistory
  BY DEF BaselineInv, History
<1>2. QED
  BY <1>1, BaselineInvariant, PTL

\* Every first attempt is executed on a tree with the results of everything
\* its task depends on.
THEOREM ExecutedOnDependencies == Spec => []DependenciesInTree
<1>1. ASSUME BaselineInv, NEW t \in Task, execution[t].baseline # Unbound
      PROVE  Deps[t] \subseteq execution[t].tree
  <2>1. PICK c \in Baselines : BoundTo(t, c)
    BY <1>1 DEF BaselineInv, Bound, OnRecord
  <2>2. c.integrated \subseteq c.tree
    BY <1>1 DEF BaselineInv, History, TreeHoldsIntegrated, Baselines, Initial
  <2>3. QED
    BY <2>1, <2>2 DEF BoundTo
<1>2. BaselineInv => DependenciesInTree
  BY <1>1 DEF DependenciesInTree
<1>3. QED
  BY <1>2, BaselineInvariant, PTL

\* The current baseline implements IntegrationOrder: one task at a time, each
\* after what it depends on, and never back.
THEOREM BaselineImplementsOrder == Spec => IntegrationOrdered
<1>1. Init => Order!Init
  BY DEF Init, Initial, Order!Init
<1>2. BaselineInv /\ [Next]_vars => [Order!Next]_(current.integrated)
  <2> SUFFICES ASSUME BaselineInv, [Next]_vars,
                      current'.integrated # current.integrated
               PROVE  Order!Next
    OBVIOUS
  <2>1. PICK p \in Advancer : CommitAdvance(p)
    BY TaskStepHistory DEF vars, Next, AdvanceStep, Advance, RollBackAdvance
  <2>2. PICK c \in inserting[p] :
          current' = IF Newer(c, current) THEN c ELSE current
    BY <2>1 DEF CommitAdvance
  <2>3. PICK t \in Task : /\ t \notin current.integrated
                          /\ Deps[t] \subseteq current.integrated
                          /\ c.integrated = current.integrated \cup {t}
    BY DEF BaselineInv, InFlight, Extends
  <2>4. Order!Integrate(t)
    BY <2>2, <2>3 DEF Order!Integrate
  <2>5. QED
    BY <2>4 DEF Order!Next
<1>3. QED
  BY <1>1, <1>2, BaselineInvariant, PTL DEF Spec, IntegrationOrdered, Order!Spec
=============================================================================
