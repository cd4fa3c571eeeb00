SPECIFICATION PlannedSpec

CONSTANTS
    None = None
    Residual = Residual
    Product = Product
    External = External
    First = First
    Second = Second
    Cycle = Cycle
    Done = Done
    R1 = R1
    P1 = P1
    P2 = P2
    X1 = X1
    Both = Both
    NoCommand = NoCommand
    NoCodex = NoCodex
    Importer = {i1, i2}
    Capability <- MCCapability
    Component <- MCComponent
    ComponentSequence <- MCComponentSequence
    Contract <- MCContract
    RiskOf <- MCRiskOf
    ProfileOf <- MCProfileOf
    ScopeOf <- MCScopeOf
    Revision <- MCRevision
    Plannable <- MCPlannable
    PriorPlan = First
    Env <- MCEnv
    Configured = {Both}
    PlanningEnv = NoCommand
    FreezesIn <- MCFreezesIn
    PlanOf <- MCPlanOf
    TaskId <- MCTaskId
    GateId <- MCGateId
    KernelTask <- MCKernelTask
    EditsOf <- MCEditsOf
    Budget <- MCBudget
    ManifestOf <- MCManifestOf
    Manifest <- MCSurvey
    EnvRecord <- MCEnvRecord
    DefaultPolicy <- MCDefaultPolicy
    Policy <- MCPolicy
    Reviewed <- MCReviewed
    Before <- MCBefore
    SourceFiles <- MCSourceFiles
    Facts <- MCFacts
    Released <- MCReleased

INVARIANTS
    TypeOK
    ImportComplete
    ImportedAsAccepted
    ImportsInOrder
    HeldTaskNeverRuns
    PackageJustified
    PlanOrdered
    FreezeSound
    ResidualAsAccepted
    ResidualReproducible
PROPERTIES
    NothingReopened
    ImportedWorkSettles

CHECK_DEADLOCK FALSE
