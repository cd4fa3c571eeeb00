----------------------------- MODULE HandoffProofs -----------------------------
(***************************************************************************)
(* The imports are whole, of the accepted artifacts, in order, and undo    *)
(* nothing, for any plans, importers and environments.                     *)
(***************************************************************************)
EXTENDS HandoffProperties, FiniteSetTheorems, TLAPS

Status == {"pending", "running", "passed", "failed"}

\* The plan is imported and its work is done.
Passed(p) ==
    /\ receipt[p] # None
    /\ \A t \in PlanOf[p].tasks : task[t] # None /\ task[t].status = "passed"

\* What an importer that is on its way knows.
Knows(row) ==
    /\ row.step \in {"preflight", "lookup", "insert"} =>
            row.plan \in PlanName /\ (row.plan \in Native => row.dryrun \in Artifact)
    /\ row.step \in {"feasibility", "dryrun", "reload", "rerun"} => row.plan \in Native
    /\ row.step \in {"lookup", "insert"} =>
            /\ row.plan \in Native =>
                    /\ row.plan = row.dryrun[1] /\ row.dryrun[2] \in FreezesIn[row.plan]
                    /\ accepted \in {None, row.dryrun}
            /\ row.plan = Residual => Passed(PriorPlan)
            /\ row.plan = Product => Passed(Residual)

HandoffInv ==
    /\ TypeOK
    /\ ImportComplete
    /\ ImportedAsAccepted
    /\ ImportsInOrder
    /\ \A i \in Importer : Knows(importer[i])

LEMMA PairIsNotThree ==
  ASSUME NEW a, NEW b
  PROVE  {Residual, Product, External} # {a, b}
<1>1. IsFiniteSet({a}) /\ Cardinality({a}) = 1
  BY FS_Singleton
<1>2. Cardinality({a} \cup {b}) \in {1, 2}
  BY <1>1, FS_AddElement
<1>3. {a, b} = {a} \cup {b}
  OBVIOUS
<1>4. Cardinality({a, b}) \in {1, 2}
  BY <1>2, <1>3
<1>5. ASSUME {Residual, Product, External} = {a, b} PROVE FALSE
  <2>1. Cardinality({Residual, Product, External}) = Cardinality({a, b})
    BY <1>5
  <2>2. Cardinality({Residual, Product, External}) = 3
    BY PlanAssumption
  <2>3. QED
    BY <1>4, <2>1, <2>2
<1>6. QED
  BY <1>5

LEMMA DistinctPlans == Residual # Product /\ Residual # External /\ Product # External
<1>1. Residual = Product => {Residual, Product, External} = {Residual, External}
  OBVIOUS
<1>2. Residual = External => {Residual, Product, External} = {Residual, Product}
  OBVIOUS
<1>3. Product = External => {Residual, Product, External} = {Residual, Product}
  OBVIOUS
<1>4. QED
  BY <1>1, <1>2, <1>3, PairIsNotThree

LEMMA Names ==
  /\ Residual \in PlanName /\ Product \in PlanName /\ External \in PlanName
  /\ PriorPlan \in PlanName /\ None \notin PlanName
  /\ {Residual, Product, External} \cap Native = {}
  /\ \A p \in PlanName : ProjectOf(p) \in Project
  BY PlanAssumption DEF PlanName, Native, ProjectOf, Project

LEMMA IdleRow ==
  ASSUME NEW o \in Outcome
  PROVE  Idle(o) \in ImporterRow /\ Knows(Idle(o))
  BY DEF Idle, ImporterRow, Step, Knows

LEMMA InitHandoffInv == Init => HandoffInv
<1> SUFFICES ASSUME Init PROVE HandoffInv
  OBVIOUS
<1>0. Idle("none") \in ImporterRow /\ Knows(Idle("none"))
  BY IdleRow DEF Outcome
<1>1. TypeOK
  BY <1>0 DEF Init, TypeOK
<1>2. ImportComplete
  BY Names DEF Init, ImportComplete, Imported, Project
<1>3. ImportedAsAccepted /\ ImportsInOrder
  BY Names DEF Init, ImportedAsAccepted, ImportsInOrder, PlanName
<1>4. \A i \in Importer : Knows(importer[i])
  BY <1>0 DEF Init
<1>5. QED
  BY <1>1, <1>2, <1>3, <1>4 DEF HandoffInv

-----------------------------------------------------------------------------
(* Steps of an importer before it inserts.                                 *)

LEMMA AdvanceKeeps ==
  ASSUME HandoffInv, NEW i \in Importer, NEW row \in ImporterRow, Knows(row),
         importer' = [importer EXCEPT ![i] = row], UNCHANGED <<source, tables>>
  PROVE  HandoffInv'
<1>1. TypeOK'
  BY DEF HandoffInv, TypeOK, source, tables
<1>2. ImportComplete' /\ ImportedAsAccepted' /\ ImportsInOrder'
  BY DEF HandoffInv, ImportComplete, ImportedAsAccepted, ImportsInOrder, Imported, source, tables
<1>3. ASSUME NEW j \in Importer PROVE Knows(importer[j])'
  <2>1. Knows(importer'[j])
    BY DEF HandoffInv, TypeOK
  <2>2. QED
    BY <2>1 DEF Knows, Passed, source, tables
<1>4. QED
  BY <1>1, <1>2, <1>3 DEF HandoffInv

LEMMA StopKeeps ==
  ASSUME HandoffInv, NEW i \in Importer, NEW o \in Outcome, Stop(i, o)
  PROVE  HandoffInv'
  BY IdleRow, AdvanceKeeps DEF Stop, Advance

LEMMA RowType ==
  ASSUME HandoffInv, NEW i \in Importer
  PROVE  importer[i] \in ImporterRow /\ Knows(importer[i])
  BY DEF HandoffInv, TypeOK

LEMMA RequestImportKeeps ==
  ASSUME HandoffInv, NEW i \in Importer, NEW p \in {None, Residual, Product, External},
         RequestImport(i, p)
  PROVE  HandoffInv'
<1> DEFINE row == [Idle("none") EXCEPT !.step = IF p = None THEN "plan" ELSE "preflight", !.plan = p]
<1>1. row \in ImporterRow
  BY Names DEF Idle, ImporterRow, Step, Outcome
<1>2. row.step \in {"plan", "preflight"} /\ row.plan = p /\ (p = None => row.step = "plan")
  BY DEF Idle
<1>3. Knows(row)
  BY <1>2, Names DEF Knows
<1>4. QED
  BY <1>1, <1>3, AdvanceKeeps DEF RequestImport

LEMMA LoadKeeps ==
  ASSUME HandoffInv, NEW i \in Importer,
         \/ LoadPlan(i) \/ LoadFeasibility(i) \/ LoadDryRun(i)
         \/ ReloadFeasibility(i) \/ ReloadDryRun(i)
  PROVE  HandoffInv'
<1> DEFINE old == importer[i]
<1>0. old \in ImporterRow /\ Knows(old)
  BY RowType
<1>1. CASE manifest \notin Plannable
  BY <1>1, StopKeeps DEF LoadPlan, LoadFeasibility, LoadDryRun, ReloadFeasibility,
     ReloadDryRun, Outcome
<1>2. CASE manifest \in Plannable
  <2>0. /\ <<manifest, environment>> \in Artifact /\ <<manifest, PlanningEnv>> \in Artifact
        /\ manifest \in Native /\ Native \subseteq PlanName
    BY <1>2, EnvAssumption DEF HandoffInv, TypeOK, Artifact, Native, PlanName
  <2>1. CASE LoadPlan(i)
    <3> DEFINE row == [old EXCEPT !.step = "feasibility", !.plan = manifest]
    <3>1. row \in ImporterRow /\ Knows(row)
      BY <1>0, <2>0 DEF ImporterRow, Step, Knows
    <3>2. QED
      BY <1>2, <2>1, <3>1, AdvanceKeeps DEF LoadPlan, Advance
  <2>2. CASE LoadFeasibility(i)
    <3> DEFINE row == [old EXCEPT !.step = "dryrun", !.feasibility = <<manifest, environment>>]
    <3>1. row \in ImporterRow /\ Knows(row)
      BY <1>0, <2>0, <2>2 DEF ImporterRow, Step, Knows, LoadFeasibility
    <3>2. QED
      BY <1>2, <2>2, <3>1, AdvanceKeeps DEF LoadFeasibility, Advance
  <2>3. CASE LoadDryRun(i)
    <3> DEFINE s == IF accepted \notin {None, <<manifest, environment>>}
                    THEN "reload" ELSE "preflight"
               row == [old EXCEPT !.step = s, !.dryrun = <<manifest, environment>>]
    <3>1. s \in {"reload", "preflight"}
      OBVIOUS
    <3> HIDE DEF s
    <3>2. row \in ImporterRow /\ Knows(row)
      BY <1>0, <2>0, <2>3, <3>1 DEF ImporterRow, Step, Knows, LoadDryRun
    <3>3. QED
      BY <1>2, <2>3, <3>2, AdvanceKeeps DEF LoadDryRun, Advance, s
  <2>4. CASE ReloadFeasibility(i)
    <3> DEFINE row == [old EXCEPT !.step = "rerun", !.feasibility = <<manifest, PlanningEnv>>]
    <3>1. row \in ImporterRow /\ Knows(row)
      BY <1>0, <2>0, <2>4 DEF ImporterRow, Step, Knows, ReloadFeasibility
    <3>2. QED
      BY <1>2, <2>4, <3>1, AdvanceKeeps DEF ReloadFeasibility, Advance
  <2>5. CASE ReloadDryRun(i)
    <3> DEFINE row == [old EXCEPT !.step = "preflight", !.dryrun = <<manifest, PlanningEnv>>]
    <3>1. row \in ImporterRow /\ Knows(row)
      BY <1>0, <2>0, <2>5 DEF ImporterRow, Step, Knows, ReloadDryRun
    <3>2. QED
      BY <1>2, <2>5, <3>1, AdvanceKeeps DEF ReloadDryRun, Advance
  <2>6. QED
    BY <2>1, <2>2, <2>3, <2>4, <2>5
<1>3. QED
  BY <1>1, <1>2

\* What the residual and the product importer ask for stands for finished work.
LEMMA ResidualReadyPassed ==
  ASSUME HandoffInv, ResidualReady
  PROVE  Passed(PriorPlan)
<1>1. receipt[PriorPlan] # None /\ Complete(Native, PriorPlan)
  BY DEF ResidualReady
<1>2. Imported({PriorPlan}) = PlanOf[PriorPlan].tasks
  BY <1>1, Names DEF HandoffInv, ImportComplete
<1>3. Imported({PriorPlan}) \subseteq Imported(Native)
  BY PlanAssumption DEF Imported, Native
<1>4. QED
  BY <1>1, <1>2, <1>3 DEF Complete, Passed, Imported

LEMMA ProductReadyPassed ==
  ASSUME HandoffInv, ProductReady
  PROVE  Passed(Residual)
<1> DEFINE rows == Imported({Residual})
<1>1. Complete({Residual}, Residual)
  BY DEF ProductReady
<1>2. receipt[Residual] # None
  <2>1. SUFFICES ASSUME receipt[Residual] = None PROVE FALSE
    OBVIOUS
  <2>2. rows = {}
    BY <2>1, Names DEF HandoffInv, ImportComplete
  <2>3. Cardinality(PlanOf[Residual].tasks) = 0
    BY <1>1, <2>2, FS_EmptySet DEF Complete
  <2>4. QED
    BY <2>3, FS_EmptySet, ResidualAssumption
<1>3. rows = PlanOf[Residual].tasks
  BY <1>2, Names DEF HandoffInv, ImportComplete
<1>4. QED
  BY <1>1, <1>2, <1>3 DEF Complete, Passed, Imported

LEMMA PreflightKeeps ==
  ASSUME HandoffInv, NEW i \in Importer, Preflight(i)
  PROVE  HandoffInv'
<1> DEFINE row == [importer[i] EXCEPT !.step = "lookup"]
<1>0. importer[i] \in ImporterRow /\ Knows(importer[i]) /\ importer[i].step = "preflight"
  BY RowType DEF Preflight
<1>1. CASE PreflightPasses(i)
  <2>1. row \in ImporterRow /\ row.step = "lookup" /\ row.plan = importer[i].plan
        /\ row.dryrun = importer[i].dryrun
    BY <1>0 DEF ImporterRow, Step
  <2>2. row.plan \in PlanName /\ (row.plan \in Native => row.dryrun \in Artifact)
    BY <1>0, <2>1 DEF Knows
  <2>3. ASSUME row.plan \in Native
        PROVE  /\ row.plan = row.dryrun[1] /\ row.dryrun[2] \in FreezesIn[row.plan]
               /\ accepted \in {None, row.dryrun}
    <3>1. NativeArtifactsAgree(importer[i])
      BY <1>1, <2>1, <2>3, Names DEF PreflightPasses
    <3>2. QED
      BY <2>1, <3>1 DEF NativeArtifactsAgree
  <2>4. ASSUME row.plan = Residual PROVE Passed(PriorPlan)
    <3>1. ResidualReady
      BY <1>1, <2>1, <2>4, Names, PlanAssumption, DistinctPlans DEF PreflightPasses
    <3>2. QED
      BY <3>1, ResidualReadyPassed
  <2>5. ASSUME row.plan = Product PROVE Passed(Residual)
    <3>1. ProductReady
      BY <1>1, <2>1, <2>5, Names, DistinctPlans DEF PreflightPasses
    <3>2. QED
      BY <3>1, ProductReadyPassed
  <2>6. Knows(row)
    BY <2>1, <2>2, <2>3, <2>4, <2>5 DEF Knows
  <2>7. QED
    BY <1>1, <2>1, <2>6, AdvanceKeeps DEF Preflight, Advance
<1>2. CASE ~PreflightPasses(i)
  BY <1>2, StopKeeps DEF Preflight, Outcome
<1>3. QED
  BY <1>1, <1>2

LEMMA LookupKeeps ==
  ASSUME HandoffInv, NEW i \in Importer, Lookup(i)
  PROVE  HandoffInv'
<1> DEFINE row == [importer[i] EXCEPT !.step = "insert"]
<1>0. importer[i] \in ImporterRow /\ Knows(importer[i]) /\ importer[i].step = "lookup"
  BY RowType DEF Lookup
<1>1. CASE Advance(i, row)
  <2>1. row \in ImporterRow /\ row.step = "insert" /\ row.plan = importer[i].plan
        /\ row.dryrun = importer[i].dryrun
    BY <1>0 DEF ImporterRow, Step
  <2>2. Knows(row)
    BY <1>0, <2>1 DEF Knows
  <2>3. QED
    BY <1>1, <2>1, <2>2, AdvanceKeeps DEF Advance
<1>2. ASSUME NEW o \in Outcome, Stop(i, o) PROVE HandoffInv'
  BY <1>2, StopKeeps
<1>3. "ALREADY_IMPORTED" \in Outcome /\ "CONFLICT" \in Outcome
  BY DEF Outcome
<1>4. QED
  BY <1>1, <1>2, <1>3 DEF Lookup

-----------------------------------------------------------------------------
(* Steps that change the tables.                                           *)

LEMMA Rows ==
  /\ None \notin Env /\ None \notin TaskRow /\ None \notin GateRow
  BY RowAssumption DEF TaskRow, GateRow

\* What importers know lasts as long as finished plans stay finished.
LEMMA OthersKnow ==
  ASSUME HandoffInv, importer' \in [Importer -> ImporterRow], accepted' = accepted,
         \A i \in Importer : importer'[i] = importer[i] \/ Knows(importer'[i]),
         \A q \in {PriorPlan, Residual} : Passed(q) => Passed(q)'
  PROVE  \A i \in Importer : Knows(importer[i])'
<1> SUFFICES ASSUME NEW i \in Importer PROVE Knows(importer[i])'
  OBVIOUS
<1>1. Knows(importer'[i])
  BY RowType
<1>2. QED
  BY <1>1 DEF Knows

LEMMA InsertKeeps ==
  ASSUME HandoffInv, NEW i \in Importer, Insert(i)
  PROVE  HandoffInv'
<1> DEFINE p == importer[i].plan
           e == EnvOf(importer[i])
           N == PlanOf[p].tasks
           G == DOMAIN PlanOf[p].gates
<1>0. importer[i] \in ImporterRow /\ Knows(importer[i]) /\ importer[i].step = "insert"
  BY RowType DEF Insert
<1>1. CASE Violates(p)
  BY <1>1, StopKeeps DEF Insert, Outcome
<1>2. CASE ~Violates(p)
  <2>1. /\ p \in PlanName /\ (p \in Native => importer[i].dryrun \in Artifact) /\ e \in Env
    BY <1>0, EnvAssumption DEF Knows, EnvOf, Artifact
  <2>2. /\ receipt[p] = None
        /\ \A t \in N : task[t] = None
        /\ \A g \in G : gate[g] = None
    BY <1>2 DEF Violates
  <2>3. /\ N \subseteq TaskId /\ G \subseteq GateId /\ PlanOf[p].edges \subseteq TaskId \X TaskId
        /\ \A g \in G : /\ PlanOf[p].gates[g].task \in TaskId
                       /\ GateStatus(p, g) \in {"pending", "approved"}
    BY <2>1, PlanAssumption DEF GateStatus
  <2>4. /\ receipt' = [receipt EXCEPT ![p] = e]
        /\ task' = [t \in TaskId |-> IF t \in N THEN [import |-> p, status |-> "pending"] ELSE task[t]]
        /\ edge' = edge \cup PlanOf[p].edges
        /\ gate' = [g \in GateId |-> IF g \in G
                                     THEN [import |-> p, task |-> PlanOf[p].gates[g].task,
                                           status |-> GateStatus(p, g)]
                                     ELSE gate[g]]
        /\ authority' = [authority EXCEPT ![ProjectOf(p)] = p]
        /\ importer' = [importer EXCEPT ![i] = Idle("IMPORTED")]
        /\ UNCHANGED source
    BY <1>2 DEF Insert, InsertRows
  <2>5. TypeOK'
    <3>1. Idle("IMPORTED") \in ImporterRow
      BY IdleRow DEF Outcome
    <3>2. task' \in [TaskId -> TaskRow \cup {None}]
      BY <2>1, <2>4 DEF HandoffInv, TypeOK, TaskRow
    <3>3. gate' \in [GateId -> GateRow \cup {None}]
      BY <2>1, <2>3, <2>4 DEF HandoffInv, TypeOK, GateRow
    <3>4. authority' \in [Project -> PlanName \cup {None}]
      BY <2>1, <2>4, Names DEF HandoffInv, TypeOK
    <3>5. QED
      BY <2>1, <2>3, <2>4, <3>1, <3>2, <3>3, <3>4 DEF HandoffInv, TypeOK, source
  <2>6. /\ receipt'[p] = e /\ e # None
        /\ \A q \in PlanName : q # p => receipt'[q] = receipt[q]
    BY <2>1, <2>4, Rows DEF HandoffInv, TypeOK
  <2>7. \A t \in TaskId : task[t] # None => task'[t] = task[t]
    BY <2>2, <2>4
  <2>8. ImportComplete'
    <3>1. ASSUME NEW q \in PlanName
          PROVE  Imported({q})' = IF receipt'[q] = None THEN {} ELSE PlanOf[q].tasks
      <4>1. Imported({q}) = IF receipt[q] = None THEN {} ELSE PlanOf[q].tasks
        BY DEF HandoffInv, ImportComplete
      <4>2. \A t \in N : task'[t] # None /\ task'[t].import = p
        BY <2>1, <2>3, <2>4, Rows DEF TaskRow
      <4>3. CASE q = p
        <5>1. \A t \in TaskId \ N : ~(task'[t] # None /\ task'[t].import = p)
          BY <2>2, <2>4, <4>1, <4>3 DEF Imported
        <5>2. QED
          BY <2>3, <2>6, <4>2, <4>3, <5>1 DEF Imported
      <4>4. CASE q # p
        <5>1. Imported({q})' = Imported({q})
          BY <2>2, <2>4, <4>2, <4>4 DEF Imported
        <5>2. QED
          BY <2>6, <4>1, <4>4, <5>1
      <4>5. QED
        BY <4>3, <4>4
    <3>2. ASSUME NEW q \in PlanName
          PROVE  {g \in GateId : gate'[g] # None /\ gate'[g].import = q}
                    = IF receipt'[q] = None THEN {} ELSE DOMAIN PlanOf[q].gates
      <4>1. {g \in GateId : gate[g] # None /\ gate[g].import = q}
                = IF receipt[q] = None THEN {} ELSE DOMAIN PlanOf[q].gates
        BY DEF HandoffInv, ImportComplete
      <4>2. \A g \in G : gate'[g] # None /\ gate'[g].import = p
        BY <2>1, <2>3, <2>4, Rows DEF GateRow
      <4>3. \A g \in GateId \ G : gate'[g] = gate[g]
        BY <2>4
      <4>4. CASE q = p
        BY <2>2, <2>3, <2>6, <4>1, <4>2, <4>3, <4>4
      <4>5. CASE q # p
        BY <2>2, <2>6, <4>1, <4>2, <4>3, <4>5
      <4>6. QED
        BY <4>4, <4>5
    <3>3. \A q \in PlanName : receipt'[q] # None => authority'[ProjectOf(q)] # None
      BY <2>1, <2>4, <2>6, Names DEF HandoffInv, TypeOK, ImportComplete
    <3>4. edge' = UNION {PlanOf[q].edges : q \in {q \in PlanName : receipt'[q] # None}}
      <4>1. {q \in PlanName : receipt'[q] # None} = {q \in PlanName : receipt[q] # None} \cup {p}
        BY <2>1, <2>6
      <4>2. edge = UNION {PlanOf[q].edges : q \in {q \in PlanName : receipt[q] # None}}
        BY DEF HandoffInv, ImportComplete
      <4>3. QED
        BY <2>4, <4>1, <4>2
    <3>5. ASSUME NEW x \in Project, authority'[x] # None
          PROVE  receipt'[authority'[x]] # None /\ ProjectOf(authority'[x]) = x
      <4>1. CASE x = ProjectOf(p)
        BY <2>1, <2>4, <2>6, <4>1, Names DEF HandoffInv, TypeOK
      <4>2. CASE x # ProjectOf(p)
        <5>1. authority'[x] = authority[x] /\ authority[x] \in PlanName
          BY <2>4, <3>5, <4>2 DEF HandoffInv, TypeOK
        <5>2. QED
          BY <2>6, <3>5, <5>1 DEF HandoffInv, ImportComplete
      <4>3. QED
        BY <4>1, <4>2
    <3>6. QED
      BY <3>1, <3>2, <3>3, <3>4, <3>5 DEF ImportComplete
  <2>9. ImportedAsAccepted'
    <3>1. ASSUME p \in Native
          PROVE  e \in FreezesIn[p] /\ accepted \in {None, <<p, e>>}
      <4>1. /\ p = importer[i].dryrun[1] /\ e = importer[i].dryrun[2]
            /\ e \in FreezesIn[p] /\ accepted \in {None, importer[i].dryrun}
        BY <1>0, <3>1 DEF Knows, EnvOf
      <4>2. importer[i].dryrun = <<p, e>>
        BY <2>1, <3>1, <4>1 DEF Artifact
      <4>3. QED
        BY <4>1, <4>2
    <3>2. accepted' = accepted
      BY <2>4 DEF source
    <3>3. Native \subseteq PlanName
      BY DEF PlanName
    <3>4. QED
      BY <2>6, <3>1, <3>2, <3>3 DEF HandoffInv, ImportedAsAccepted
  <2>10. \A q \in PlanName : Passed(q) => Passed(q)'
    BY <2>2, <2>6, <2>7, PlanAssumption DEF Passed
  <2>11. ImportsInOrder'
    <3>1. ASSUME receipt'[Residual] # None, NEW t \in PlanOf[PriorPlan].tasks
          PROVE  task'[t] # None /\ task'[t].status = "passed"
      <4>1. t \in TaskId
        BY Names, PlanAssumption
      <4>2. task[t] # None /\ task[t].status = "passed"
        BY <1>0, <2>6, <3>1, Names DEF Knows, Passed, HandoffInv, ImportsInOrder
      <4>3. QED
        BY <2>7, <4>1, <4>2
    <3>2. ASSUME receipt'[Product] # None
          PROVE  /\ receipt'[Residual] # None
                 /\ \A t \in PlanOf[Residual].tasks : task'[t].status = "passed"
      <4>1. Passed(Residual)
        <5>1. CASE p = Product
          BY <1>0, <5>1 DEF Knows
        <5>2. CASE p # Product
          <6>1. receipt[Product] # None
            BY <2>6, <3>2, <5>2, Names
          <6>2. /\ receipt[Residual] # None
                /\ \A t \in PlanOf[Residual].tasks : task[t].status = "passed"
            BY <6>1 DEF HandoffInv, ImportsInOrder
          <6>3. \A t \in PlanOf[Residual].tasks : task[t] # None
            BY <6>2, Names DEF HandoffInv, ImportComplete, Imported
          <6>4. QED
            BY <6>2, <6>3 DEF Passed
        <5>3. QED
          BY <5>1, <5>2
      <4>2. QED
        BY <2>10, <4>1, Names DEF Passed
    <3>3. QED
      BY <3>1, <3>2 DEF ImportsInOrder
  <2>12. \A j \in Importer : Knows(importer[j])'
    <3>1. \A j \in Importer : importer'[j] = importer[j] \/ Knows(importer'[j])
      BY <2>4, IdleRow DEF Outcome, HandoffInv, TypeOK
    <3>2. importer' \in [Importer -> ImporterRow] /\ accepted' = accepted
      BY <2>4, <2>5 DEF TypeOK, source
    <3>3. QED
      BY <2>10, <3>1, <3>2, OthersKnow, Names
  <2>13. QED
    BY <2>5, <2>8, <2>9, <2>11, <2>12 DEF HandoffInv
<1>3. QED
  BY <1>1, <1>2

LEMMA SetStatusKeeps ==
  ASSUME HandoffInv, NEW t \in TaskId, NEW s \in Status, task[t] # None,
         task[t].status \notin {"passed", "failed"}, SetStatus(t, s)
  PROVE  HandoffInv'
<1> DEFINE row == [task[t] EXCEPT !.status = s]
<1>1. row \in TaskRow /\ row.import = task[t].import /\ row.status = s /\ row # None
  BY Rows DEF HandoffInv, TypeOK, TaskRow, Status
<1>2. /\ task' = [task EXCEPT ![t] = row]
      /\ UNCHANGED <<source, importer, receipt, edge, gate, authority>>
  BY DEF SetStatus
<1>3. \A u \in TaskId : /\ task'[u] # None <=> task[u] # None
                        /\ task[u] # None => task'[u].import = task[u].import
                        /\ task[u] # None /\ task[u].status = "passed" => task'[u] = task[u]
  BY <1>1, <1>2 DEF HandoffInv, TypeOK
<1>4. TypeOK'
  BY <1>1, <1>2 DEF HandoffInv, TypeOK, source
<1>5. \A q \in PlanName : Imported({q})' = Imported({q})
  BY <1>3 DEF Imported
<1>6. ImportComplete'
  BY <1>2, <1>5 DEF HandoffInv, ImportComplete
<1>7. ImportedAsAccepted'
  BY <1>2 DEF HandoffInv, ImportedAsAccepted, source
<1>8. \A q \in PlanName : Passed(q) => Passed(q)'
  BY <1>2, <1>3, PlanAssumption DEF Passed
<1>9. ImportsInOrder'
  <2>1. \A u \in PlanOf[PriorPlan].tasks \cup PlanOf[Residual].tasks : u \in TaskId
    BY Names, PlanAssumption
  <2>2. receipt[Residual] # None => \A u \in PlanOf[Residual].tasks : task[u] # None
    BY Names DEF HandoffInv, ImportComplete, Imported
  <2>3. QED
    BY <1>2, <1>3, <2>1, <2>2 DEF HandoffInv, ImportsInOrder
<1>10. \A i \in Importer : Knows(importer[i])'
  BY <1>2, <1>8, Names, OthersKnow DEF HandoffInv, TypeOK, source
<1>11. QED
  BY <1>4, <1>6, <1>7, <1>9, <1>10 DEF HandoffInv

LEMMA DecideGateKeeps ==
  ASSUME HandoffInv, NEW g \in GateId, NEW s \in {"approved", "rejected"}, DecideGate(g, s)
  PROVE  HandoffInv'
<1> DEFINE row == [gate[g] EXCEPT !.status = s]
<1>0. gate[g] # None /\ gate[g].status = "pending"
  BY DEF DecideGate
<1>1. row \in GateRow /\ row.import = gate[g].import /\ row # None
  BY <1>0, Rows DEF HandoffInv, TypeOK, GateRow
<1>2. /\ gate' = [gate EXCEPT ![g] = row]
      /\ UNCHANGED <<source, importer, receipt, task, edge, authority>>
  BY DEF DecideGate
<1>3. TypeOK'
  BY <1>1, <1>2 DEF HandoffInv, TypeOK, source
<1>4. ASSUME NEW q \in PlanName
      PROVE  {h \in GateId : gate'[h] # None /\ gate'[h].import = q}
                = {h \in GateId : gate[h] # None /\ gate[h].import = q}
  BY <1>0, <1>1, <1>2 DEF HandoffInv, TypeOK
<1>5. ImportComplete'
  BY <1>2, <1>4 DEF HandoffInv, ImportComplete, Imported
<1>6. ImportedAsAccepted' /\ ImportsInOrder'
  BY <1>2 DEF HandoffInv, ImportedAsAccepted, ImportsInOrder, source
<1>7. \A i \in Importer : Knows(importer[i])'
  BY <1>2, OthersKnow DEF HandoffInv, TypeOK, Passed, source
<1>8. QED
  BY <1>3, <1>5, <1>6, <1>7 DEF HandoffInv

\* Steps around the importers and of the kernel touch no table.
LEMMA AsideKeeps ==
  ASSUME HandoffInv, manifest' \in Revision, dirty' \in BOOLEAN, environment' \in Env,
         UNCHANGED <<accepted, importer, tables>>
  PROVE  HandoffInv'
<1>1. TypeOK'
  BY DEF HandoffInv, TypeOK, tables
<1>2. ImportComplete' /\ ImportedAsAccepted' /\ ImportsInOrder'
  BY DEF HandoffInv, ImportComplete, ImportedAsAccepted, ImportsInOrder, Imported, tables
<1>3. \A i \in Importer : Knows(importer[i])'
  BY OthersKnow DEF HandoffInv, TypeOK, Passed, tables
<1>4. QED
  BY <1>1, <1>2, <1>3 DEF HandoffInv

LEMMA RunningRow ==
  ASSUME NEW t \in TaskId, Readiness(t) = "READY"
  PROVE  task[t] # None /\ task[t].status \notin {"passed", "failed"}
  BY DEF Readiness

LEMMA StepHandoffInv == HandoffInv /\ [Next]_vars => HandoffInv'
<1> SUFFICES ASSUME HandoffInv, [Next]_vars PROVE HandoffInv'
  OBVIOUS
<1>0. manifest \in Revision /\ dirty \in BOOLEAN /\ environment \in Env
  BY DEF HandoffInv, TypeOK
<1>1. CASE EditManifest
  BY <1>0, <1>1, EnvAssumption, AsideKeeps DEF EditManifest
<1>2. CASE CommitManifest
  BY <1>0, <1>2, AsideKeeps DEF CommitManifest
<1>3. CASE ChangeEnvironment
  BY <1>0, <1>3, AsideKeeps DEF ChangeEnvironment
<1>4. ASSUME NEW i \in Importer, ImportStep(i) PROVE HandoffInv'
  BY <1>4, LoadKeeps, PreflightKeeps, LookupKeeps, InsertKeeps
     DEF ImportStep, NativeImport, ExternalImport, ResidualImport, ProductImport, Import
<1>5. ASSUME NEW i \in Importer, Crash(i) PROVE HandoffInv'
  BY <1>5, StopKeeps DEF Crash, Outcome
<1>6. ASSUME NEW t \in TaskId, RunTask(t) \/ FailTask(t) PROVE HandoffInv'
  BY <1>6, RunningRow, SetStatusKeeps DEF RunTask, StartTask, PassTask, FailTask, Status
<1>7. ASSUME NEW t \in KernelTask, KernelRead(t) PROVE HandoffInv'
  BY <1>0, <1>7, AsideKeeps DEF KernelRead, source
<1>8. ASSUME NEW w \in BOOLEAN, KernelDecide(w) PROVE HandoffInv'
  BY <1>0, <1>8, AsideKeeps DEF KernelDecide, source
<1>9. CASE UNCHANGED vars
  BY <1>0, <1>9, AsideKeeps DEF vars, tables
<1>10. QED
  BY <1>1, <1>2, <1>3, <1>4, <1>5, <1>6, <1>7, <1>8, <1>9, RequestImportKeeps, DecideGateKeeps
     DEF Next

-----------------------------------------------------------------------------
(* What stays.                                                             *)

Kept ==
    /\ \A t \in TaskId : task[t] # None =>
        /\ task'[t] # None /\ task'[t].import = task[t].import
        /\ task[t].status \in {"passed", "failed"} => task'[t].status = task[t].status
    /\ \A g \in GateId : gate[g] # None =>
        /\ gate'[g] # None /\ gate'[g].import = gate[g].import
        /\ gate[g].status # "pending" => gate'[g].status = gate[g].status
    /\ \A p \in PlanName : receipt[p] # None => receipt'[p] = receipt[p]

LEMMA StepKept ==
  ASSUME HandoffInv, Next
  PROVE  Kept
<1>1. CASE UNCHANGED <<receipt, task, gate>>
  BY <1>1 DEF Kept
<1>2. ASSUME NEW i \in Importer, Insert(i) PROVE Kept
  <2> DEFINE p == importer[i].plan
  <2>1. CASE Violates(p)
    BY <1>2, <2>1 DEF Kept, Insert, Stop, Advance, tables
  <2>2. CASE ~Violates(p)
    BY <1>2, <2>2 DEF Kept, Insert, InsertRows, Violates, HandoffInv, TypeOK
  <2>3. QED
    BY <2>1, <2>2
<1>3. ASSUME NEW t \in TaskId, RunTask(t) \/ FailTask(t) PROVE Kept
  <2>1. PICK s \in Status : SetStatus(t, s)
    BY <1>3 DEF RunTask, StartTask, PassTask, FailTask, Status
  <2>2. task[t] # None /\ task[t].status \notin {"passed", "failed"}
    BY <1>3, RunningRow DEF RunTask, StartTask, PassTask, FailTask
  <2> DEFINE row == [task[t] EXCEPT !.status = s]
  <2>3. row # None /\ row.import = task[t].import
    BY <2>2, Rows DEF HandoffInv, TypeOK, TaskRow, Status
  <2>4. task' = [task EXCEPT ![t] = row] /\ UNCHANGED <<receipt, gate>>
    BY <2>1 DEF SetStatus
  <2>5. QED
    BY <2>2, <2>3, <2>4 DEF Kept, HandoffInv, TypeOK
<1>4. ASSUME NEW g \in GateId, NEW s \in {"approved", "rejected"}, DecideGate(g, s) PROVE Kept
  <2> DEFINE row == [gate[g] EXCEPT !.status = s]
  <2>1. gate[g] # None /\ gate[g].status = "pending"
    BY <1>4 DEF DecideGate
  <2>2. row # None /\ row.import = gate[g].import
    BY <1>4, <2>1, Rows DEF HandoffInv, TypeOK, GateRow
  <2>3. gate' = [gate EXCEPT ![g] = row] /\ UNCHANGED <<receipt, task>>
    BY <1>4 DEF DecideGate
  <2>4. QED
    BY <2>1, <2>2, <2>3 DEF Kept, HandoffInv, TypeOK
<1>5. ASSUME NEW i \in Importer, ImportStep(i) PROVE Insert(i) \/ UNCHANGED <<receipt, task, gate>>
  BY <1>5 DEF ImportStep, NativeImport, ExternalImport, ResidualImport, ProductImport,
     Import, LoadPlan, LoadFeasibility, LoadDryRun, ReloadFeasibility,
     ReloadDryRun, Preflight, Lookup, Stop, Advance, tables
<1>6. ASSUME NEW i \in Importer, Crash(i) PROVE UNCHANGED <<receipt, task, gate>>
  BY <1>6 DEF Crash, Stop, Advance, tables
<1>7. QED
  BY <1>1, <1>2, <1>3, <1>4, <1>5, <1>6 DEF Next, EditManifest, CommitManifest,
     ChangeEnvironment, RequestImport, KernelRead, KernelDecide, tables

-----------------------------------------------------------------------------

\* Every table has rows of its kind in every reachable state, for any plans,
\* importers and environments.
THEOREM HandoffTypeCorrect == Spec => []TypeOK
<1>1. HandoffInv => TypeOK
  BY DEF HandoffInv
<1>2. QED
  BY <1>1, InitHandoffInv, StepHandoffInv, PTL DEF Spec

\* A receipt stands for exactly the rows of its plan, although importers look
\* the plan up and insert it in steps apart (_import_new).
THEOREM ImportsComplete == Spec => []ImportComplete
<1>1. HandoffInv => ImportComplete
  BY DEF HandoffInv
<1>2. QED
  BY <1>1, InitHandoffInv, StepHandoffInv, PTL DEF Spec

\* What is imported was frozen and is what was accepted, whatever changes while
\* its artifacts are loaded (load_runtime_handoff_artifacts).
THEOREM AcceptedImportsOnly == Spec => []ImportedAsAccepted
<1>1. HandoffInv => ImportedAsAccepted
  BY DEF HandoffInv
<1>2. QED
  BY <1>1, InitHandoffInv, StepHandoffInv, PTL DEF Spec

\* A follow-up plan is imported only behind finished work, although what it
\* follows is looked at before its rows are inserted (ResidualRuntimeImporter,
\* ProductRuntimeImporter).
THEOREM FollowUpsInOrder == Spec => []ImportsInOrder
<1>1. HandoffInv => ImportsInOrder
  BY DEF HandoffInv
<1>2. QED
  BY <1>1, InitHandoffInv, StepHandoffInv, PTL DEF Spec

\* No step of an importer, of the run or of an operator reopens what ended.
THEOREM EndsStay == Spec => NothingReopened
<1>1. HandoffInv /\ [Next]_vars => [Kept]_vars
  BY StepKept
<1>2. QED
  BY <1>1, InitHandoffInv, StepHandoffInv, PTL DEF Spec, NothingReopened, Kept

-----------------------------------------------------------------------------
(* What a task starts with: no later import adds a gate or a dependency to *)
(* a task that is there.                                                   *)

GatesInPlan ==
    \A g \in GateId : gate[g] # None => gate[g].task = PlanOf[gate[g].import].gates[g].task

\* Nothing is left to wait for.
DependenciesPassed(t) ==
    \A d \in DependenciesOf(t) : d \in TaskId /\ task[d] # None /\ task[d].status = "passed"

StartedReleased ==
    \A t \in TaskId : task[t] # None /\ task[t].status # "pending" =>
        /\ ~Undecided(t)
        /\ \A g \in GatesOf(t) : gate[g].status # "pending"
        /\ DependenciesPassed(t)

Approved(t) == t \in TaskId /\ task[t] # None /\ \A g \in GatesOf(t) : gate[g].status = "approved"

KernelReads ==
    [task : KernelTask, gates : {"approved", "rejected", "pending"},
     imported : BOOLEAN, bound : BOOLEAN]

KernelSaw ==
    kernel # None =>
        /\ kernel \in KernelReads
        /\ kernel.bound /\ kernel.gates = "approved" => Approved(kernel.task)

ReleaseInv ==
    /\ GatesInPlan
    /\ StartedReleased
    /\ KernelSaw
    /\ \A t \in package : Approved(t) /\ DependenciesPassed(t)

LEMMA RowsThere ==
  ASSUME HandoffInv
  PROVE  /\ \A g \in GateId : gate[g] # None =>
                gate[g].import \in PlanName /\ g \in DOMAIN PlanOf[gate[g].import].gates
         /\ \A g \in GateId : gate[g] # None /\ GatesInPlan => task[gate[g].task] # None
         /\ \A e \in edge : e \in TaskId \X TaskId /\ task[e[1]] # None /\ task[e[2]] # None
<1>1. ASSUME NEW g \in GateId, gate[g] # None
      PROVE  /\ gate[g].import \in PlanName /\ g \in DOMAIN PlanOf[gate[g].import].gates
             /\ receipt[gate[g].import] # None
  <2>1. gate[g].import \in PlanName
    BY <1>1 DEF HandoffInv, TypeOK, GateRow
  <2>2. g \in {h \in GateId : gate[h] # None /\ gate[h].import = gate[g].import}
    BY <1>1
  <2>3. QED
    BY <2>1, <2>2 DEF HandoffInv, ImportComplete
<1>2. \A p \in PlanName : receipt[p] # None =>
        \A t \in PlanOf[p].tasks : t \in TaskId /\ task[t] # None
  BY PlanAssumption DEF HandoffInv, ImportComplete, Imported
<1>3. ASSUME NEW g \in GateId, gate[g] # None, GatesInPlan PROVE task[gate[g].task] # None
  <2>1. gate[g].task \in PlanOf[gate[g].import].tasks
    BY <1>1, <1>3, PlanAssumption DEF GatesInPlan
  <2>2. QED
    BY <1>1, <1>2, <1>3, <2>1
<1>4. ASSUME NEW e \in edge PROVE e \in TaskId \X TaskId /\ task[e[1]] # None /\ task[e[2]] # None
  <2>1. PICK p \in PlanName : receipt[p] # None /\ e \in PlanOf[p].edges
    BY DEF HandoffInv, ImportComplete
  <2>2. e \in PlanOf[p].tasks \X PlanOf[p].tasks
    BY <2>1, PlanAssumption
  <2>3. QED
    BY <1>2, <2>1, <2>2
<1>5. QED
  BY <1>1, <1>3, <1>4

\* The gates and the dependencies of a task that is there are those of its
\* plan: rows that an import adds are of tasks it adds.
LEMMA TaskFrame ==
  ASSUME HandoffInv, GatesInPlan, Next, NEW t \in TaskId, task[t] # None
  PROVE  /\ GatesOf(t)' = GatesOf(t)
         /\ DependenciesOf(t)' = DependenciesOf(t)
         /\ Undecided(t)' <=> Undecided(t)
<1>1. Undecided(t)' <=> Undecided(t)
  BY StepKept DEF Kept, Undecided
<1>2. CASE UNCHANGED <<gate, edge>>
  BY <1>1, <1>2 DEF GatesOf, DependenciesOf
<1>3. ASSUME NEW i \in Importer, Insert(i)
      PROVE  GatesOf(t)' = GatesOf(t) /\ DependenciesOf(t)' = DependenciesOf(t)
  <2> DEFINE p == importer[i].plan
  <2>1. CASE Violates(p)
    BY <1>3, <2>1 DEF Insert, Stop, Advance, tables, GatesOf, DependenciesOf
  <2>2. CASE ~Violates(p)
    <3>1. p \in PlanName
      BY <1>3, RowType DEF Insert, Knows
    <3>2. /\ edge' = edge \cup PlanOf[p].edges
          /\ gate' = [g \in GateId |-> IF g \in DOMAIN PlanOf[p].gates
                                       THEN [import |-> p, task |-> PlanOf[p].gates[g].task,
                                             status |-> GateStatus(p, g)]
                                       ELSE gate[g]]
      BY <1>3, <2>2 DEF Insert, InsertRows
    <3>3. /\ t \notin PlanOf[p].tasks
          /\ \A g \in DOMAIN PlanOf[p].gates : gate[g] = None
      BY <2>2 DEF Violates
    <3>4. \A e \in PlanOf[p].edges : e[1] # t
      BY <3>1, <3>3, PlanAssumption
    <3>5. DependenciesOf(t)' = DependenciesOf(t)
      BY <3>2, <3>4 DEF DependenciesOf
    <3>6. \A g \in DOMAIN PlanOf[p].gates : g \in GateId /\ PlanOf[p].gates[g].task # t
      BY <3>1, <3>3, PlanAssumption
    <3>7. \A g \in GateId : g \in GatesOf(t)' <=> g \in GatesOf(t)
      BY <3>2, <3>3, <3>6 DEF GatesOf
    <3>8. QED
      BY <3>5, <3>7 DEF GatesOf
  <2>3. QED
    BY <2>1, <2>2
<1>4. ASSUME NEW g \in GateId, NEW s \in {"approved", "rejected"}, DecideGate(g, s)
      PROVE  GatesOf(t)' = GatesOf(t) /\ DependenciesOf(t)' = DependenciesOf(t)
  <2> DEFINE row == [gate[g] EXCEPT !.status = s]
  <2>1. gate[g] # None /\ gate' = [gate EXCEPT ![g] = row] /\ UNCHANGED edge
    BY <1>4 DEF DecideGate
  <2>2. row # None /\ row.task = gate[g].task
    BY <1>4, <2>1, Rows DEF HandoffInv, TypeOK, GateRow
  <2>3. QED
    BY <2>1, <2>2 DEF HandoffInv, TypeOK, GatesOf, DependenciesOf
<1>5. ASSUME NEW i \in Importer, ImportStep(i) PROVE Insert(i) \/ UNCHANGED <<gate, edge>>
  BY <1>5 DEF ImportStep, NativeImport, ExternalImport, ResidualImport, ProductImport,
     Import, LoadPlan, LoadFeasibility, LoadDryRun, ReloadFeasibility,
     ReloadDryRun, Preflight, Lookup, Stop, Advance, tables
<1>6. ASSUME NEW i \in Importer, Crash(i) PROVE UNCHANGED <<gate, edge>>
  BY <1>6 DEF Crash, Stop, Advance, tables
<1>7. ASSUME NEW u \in TaskId, RunTask(u) \/ FailTask(u) PROVE UNCHANGED <<gate, edge>>
  BY <1>7 DEF RunTask, StartTask, PassTask, FailTask, SetStatus
<1>8. QED
  BY <1>1, <1>2, <1>3, <1>4, <1>5, <1>6, <1>7 DEF Next, EditManifest, CommitManifest,
     ChangeEnvironment, RequestImport, KernelRead, KernelDecide, tables

\* What a task waited for stays done.
LEMMA DoneStays ==
  ASSUME HandoffInv, GatesInPlan, Next, NEW t \in TaskId, task[t] # None
  PROVE  /\ DependenciesPassed(t) => DependenciesPassed(t)'
         /\ Approved(t) => Approved(t)'
         /\ (\A g \in GatesOf(t) : gate[g].status # "pending")
                => \A g \in GatesOf(t)' : gate'[g].status # "pending"
<1>1. GatesOf(t)' = GatesOf(t) /\ DependenciesOf(t)' = DependenciesOf(t)
  BY TaskFrame
<1>2. \A g \in GatesOf(t) : g \in GateId /\ gate[g] # None
  BY DEF GatesOf
<1>3. QED
  BY <1>1, <1>2, StepKept DEF Kept, DependenciesPassed, Approved

LEMMA GatesInPlanStep ==
  ASSUME HandoffInv, GatesInPlan, Next
  PROVE  GatesInPlan'
<1>1. CASE UNCHANGED gate
  BY <1>1 DEF GatesInPlan
<1>2. ASSUME NEW i \in Importer, Insert(i) PROVE GatesInPlan'
  <2> DEFINE p == importer[i].plan
  <2>1. CASE Violates(p)
    BY <1>1, <1>2, <2>1 DEF Insert, Stop, Advance, tables
  <2>2. CASE ~Violates(p)
    BY <1>2, <2>2 DEF Insert, InsertRows, GatesInPlan
  <2>3. QED
    BY <2>1, <2>2
<1>3. ASSUME NEW g \in GateId, NEW s \in {"approved", "rejected"}, DecideGate(g, s)
      PROVE  GatesInPlan'
  <2> DEFINE row == [gate[g] EXCEPT !.status = s]
  <2>1. gate[g] # None /\ gate' = [gate EXCEPT ![g] = row]
    BY <1>3 DEF DecideGate
  <2>2. row.task = gate[g].task /\ row.import = gate[g].import
    BY <1>3, <2>1, Rows DEF HandoffInv, TypeOK, GateRow
  <2>3. QED
    BY <2>1, <2>2 DEF HandoffInv, TypeOK, GatesInPlan
<1>4. ASSUME NEW i \in Importer, ImportStep(i) PROVE Insert(i) \/ UNCHANGED gate
  BY <1>4 DEF ImportStep, NativeImport, ExternalImport, ResidualImport, ProductImport,
     Import, LoadPlan, LoadFeasibility, LoadDryRun, ReloadFeasibility,
     ReloadDryRun, Preflight, Lookup, Stop, Advance, tables
<1>5. ASSUME NEW i \in Importer, Crash(i) PROVE UNCHANGED gate
  BY <1>5 DEF Crash, Stop, Advance, tables
<1>6. ASSUME NEW t \in TaskId, RunTask(t) \/ FailTask(t) PROVE UNCHANGED gate
  BY <1>6 DEF RunTask, StartTask, PassTask, FailTask, SetStatus
<1>7. QED
  BY <1>1, <1>2, <1>3, <1>4, <1>5, <1>6 DEF Next, EditManifest, CommitManifest,
     ChangeEnvironment, RequestImport, KernelRead, KernelDecide, tables

\* What readiness has looked at when it lets a task start.
LEMMA ReadyMeans ==
  ASSUME HandoffInv, NEW t \in TaskId, Readiness(t) = "READY"
  PROVE  /\ task[t] # None /\ ~Undecided(t)
         /\ \A g \in GatesOf(t) : gate[g].status # "pending"
         /\ DependenciesPassed(t)
<1>1. \A d \in DependenciesOf(t) : d \in TaskId
  BY RowsThere DEF DependenciesOf
<1>2. QED
  BY <1>1 DEF Readiness, DependenciesPassed

\* Only a task that readiness let start leaves the pending state.
LEMMA WhoStarts ==
  ASSUME HandoffInv, Next, NEW t \in TaskId, task'[t] # None, task'[t].status # "pending"
  PROVE  task[t] # None /\ (task[t].status # "pending" \/ Readiness(t) = "READY")
<1>1. CASE UNCHANGED task
  BY <1>1
<1>2. ASSUME NEW i \in Importer, Insert(i)
      PROVE  task[t] # None /\ task[t].status # "pending"
  BY <1>2 DEF Insert, InsertRows, Stop, Advance, tables
<1>3. ASSUME NEW u \in TaskId, RunTask(u) \/ FailTask(u)
      PROVE  task[t] # None /\ (task[t].status # "pending" \/ Readiness(t) = "READY")
  <2>1. CASE u # t
    BY <1>3, <2>1 DEF RunTask, StartTask, PassTask, FailTask, SetStatus, HandoffInv, TypeOK
  <2>2. CASE u = t
    BY <1>3, <2>2, RunningRow DEF RunTask, StartTask, PassTask, FailTask
  <2>3. QED
    BY <2>1, <2>2
<1>4. ASSUME NEW i \in Importer, ImportStep(i) PROVE Insert(i) \/ UNCHANGED task
  BY <1>4 DEF ImportStep, NativeImport, ExternalImport, ResidualImport, ProductImport,
     Import, LoadPlan, LoadFeasibility, LoadDryRun, ReloadFeasibility,
     ReloadDryRun, Preflight, Lookup, Stop, Advance, tables
<1>5. ASSUME NEW i \in Importer, Crash(i) PROVE UNCHANGED task
  BY <1>5 DEF Crash, Stop, Advance, tables
<1>6. QED
  BY <1>1, <1>2, <1>3, <1>4, <1>5 DEF Next, EditManifest, CommitManifest, DecideGate,
     ChangeEnvironment, RequestImport, KernelRead, KernelDecide, tables

LEMMA StartedReleasedStep ==
  ASSUME HandoffInv, GatesInPlan, StartedReleased, Next
  PROVE  StartedReleased'
<1> SUFFICES ASSUME NEW t \in TaskId, task'[t] # None, task'[t].status # "pending"
             PROVE  /\ ~Undecided(t)'
                    /\ \A g \in GatesOf(t)' : gate'[g].status # "pending"
                    /\ DependenciesPassed(t)'
  BY DEF StartedReleased
<1>1. task[t] # None /\ (task[t].status # "pending" \/ Readiness(t) = "READY")
  BY WhoStarts
<1>2. /\ ~Undecided(t)
      /\ \A g \in GatesOf(t) : gate[g].status # "pending"
      /\ DependenciesPassed(t)
  BY <1>1, ReadyMeans DEF StartedReleased
<1>3. QED
  BY <1>1, <1>2, TaskFrame, DoneStays

\* The kernel reads the binding of the task with its gates: had it no binding,
\* gates that are imported later would not be among them.
LEMMA KernelStep ==
  ASSUME HandoffInv, ReleaseInv, Next
  PROVE  KernelSaw' /\ \A t \in package' : Approved(t)' /\ DependenciesPassed(t)'
<1> USE DEF ReleaseInv
<1>1. \A t : Approved(t) => Approved(t)' /\ (DependenciesPassed(t) => DependenciesPassed(t)')
  BY DoneStays DEF Approved
<1>2. CASE UNCHANGED <<kernel, package>>
  BY <1>1, <1>2 DEF KernelSaw
<1>3. ASSUME NEW t \in KernelTask, KernelRead(t)
      PROVE  /\ kernel' \in KernelReads
             /\ kernel'.bound /\ kernel'.gates = "approved" => Approved(kernel'.task)
  <2>1. kernel' = [task |-> t, gates |-> GateState(t),
                   imported |-> \E p \in PlansIn(Main) : receipt[p] # None,
                   bound |-> task[t] # None /\ task[t].import \in PlansIn(Main)]
    BY <1>3 DEF KernelRead
  <2>2. GateState(t) \in {"approved", "rejected", "pending"}
    BY DEF GateState
  <2>3. GateState(t) = "approved" => \A g \in GatesOf(t) : gate[g].status = "approved"
    BY DEF GateState
  <2>4. t \in TaskId
    BY PlanAssumption
  <2>5. QED
    BY <2>1, <2>2, <2>3, <2>4 DEF KernelReads, Approved
<1>4. ASSUME NEW w \in BOOLEAN, KernelDecide(w)
      PROVE  kernel' = None /\ \A t \in package' : Approved(t) /\ DependenciesPassed(t)
  <2>1. kernel # None => kernel.task \in TaskId
    BY PlanAssumption DEF KernelReads, KernelSaw
  <2>2. QED
    BY <1>4, <2>1, ReadyMeans DEF KernelDecide, KernelSaw
<1>5. ASSUME NEW i \in Importer, ImportStep(i) PROVE UNCHANGED <<kernel, package>>
  BY <1>5 DEF ImportStep, NativeImport, ExternalImport, ResidualImport, ProductImport,
     Import, LoadPlan, LoadFeasibility, LoadDryRun, ReloadFeasibility,
     ReloadDryRun, Preflight, Lookup, Insert, Stop, Advance
<1>6. ASSUME NEW i \in Importer, Crash(i) PROVE UNCHANGED <<kernel, package>>
  BY <1>6 DEF Crash, Stop, Advance
<1>7. ASSUME NEW t \in TaskId, RunTask(t) \/ FailTask(t) PROVE UNCHANGED <<kernel, package>>
  BY <1>7 DEF RunTask, StartTask, PassTask, FailTask, SetStatus
<1>8. CASE \E t \in KernelTask : KernelRead(t)
  <2>1. UNCHANGED package
    BY <1>8 DEF KernelRead
  <2>2. KernelSaw'
    BY <1>1, <1>3, <1>8 DEF KernelSaw
  <2>3. QED
    BY <1>1, <2>1, <2>2
<1>9. CASE \E w \in BOOLEAN : KernelDecide(w)
  BY <1>1, <1>4, <1>9 DEF KernelSaw
<1>10. QED
  BY <1>2, <1>5, <1>6, <1>7, <1>8, <1>9 DEF Next, EditManifest, CommitManifest, DecideGate,
     ChangeEnvironment, RequestImport

LEMMA InitReleaseInv == Init => ReleaseInv
  BY DEF Init, ReleaseInv, GatesInPlan, StartedReleased, KernelSaw

LEMMA StepReleaseInv == HandoffInv /\ ReleaseInv /\ [Next]_vars => ReleaseInv'
<1>1. ASSUME HandoffInv, ReleaseInv, Next PROVE ReleaseInv'
  BY <1>1, GatesInPlanStep, StartedReleasedStep, KernelStep DEF ReleaseInv
<1>2. ASSUME ReleaseInv, UNCHANGED vars PROVE ReleaseInv'
  BY <1>2 DEF ReleaseInv, vars, GatesInPlan, StartedReleased, KernelSaw, Approved, DependenciesPassed,
     GatesOf, DependenciesOf, Undecided
<1>3. QED
  BY <1>1, <1>2

\* A permitted worker package is for a task whose gates are approved and whose
\* dependencies have passed, although the kernel reads the gates in one
\* transaction and readiness in another (RuntimeKernelService.evaluate_task).
THEOREM PermittedPackages == Spec => []PackageJustified
<1>1. ReleaseInv => PackageJustified
  BY DEF ReleaseInv, PackageJustified, Approved, DependenciesPassed
<1>2. QED
  BY <1>1, InitHandoffInv, StepHandoffInv, InitReleaseInv, StepReleaseInv, PTL DEF Spec

\* A gate or an open decision holds back its task and everything downstream of
\* it, for any graphs (TaskReadinessService, _ensure_runtime_gates_allow_execution).
THEOREM HeldWorkWaits == Spec => []HeldTaskNeverRuns
<1> DEFINE waiting == {t \in Present : task[t].status = "pending"}
           held == {t \in Present : Held(t)}
<1>1. ASSUME HandoffInv, ReleaseInv PROVE HeldTaskNeverRuns
  <2>1. waiting \in SUBSET TaskId
    BY DEF Present
  <2>2. held \subseteq waiting
    BY <1>1 DEF ReleaseInv, StartedReleased, Held, Present
  <2>3. ASSUME NEW e \in edge, e[2] \in waiting PROVE e[1] \in waiting
    <3>1. e \in TaskId \X TaskId /\ task[e[1]] # None /\ task[e[2]] # None
      BY <1>1, RowsThere
    <3>2. e[2] \in DependenciesOf(e[1])
      BY DEF DependenciesOf
    <3>3. task[e[2]].status = "pending"
      BY <2>3
    <3>4. QED
      BY <1>1, <3>1, <3>2, <3>3 DEF ReleaseInv, StartedReleased, DependenciesPassed, Present
  <2>4. Downstream(held) \subseteq waiting
    BY <2>1, <2>2, <2>3 DEF Downstream
  <2>5. QED
    BY <2>4 DEF HeldTaskNeverRuns
<1>2. QED
  BY <1>1, InitHandoffInv, StepHandoffInv, InitReleaseInv, StepReleaseInv, PTL DEF Spec
=============================================================================
