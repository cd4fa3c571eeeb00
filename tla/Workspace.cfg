SPECIFICATION Spec

CONSTANTS
    Unset = Unset
    NoMarker = NoMarker
    Torn = Torn
    NoFile = NoFile
    Hole = Hole
    Caller = {c1, c2}
    ProjectId = {"A", "B", "C", "D"}
    Root = {"r1", "r2", "r3"}
    GeneratedRoot = {"r1", "r2"}
    Found = {"r2"}
    Tree = {2, 1}
    Fresh = 2
    Length <- MCLength
    Blocks = 2
    DefaultProhibited = {"build"}
    UnsafePath = {"../src"}
    Below <- MCBelow
    Record <- MCRecord
    FrozenPlan <- MCFrozenPlan
    Budget <- MCBudget

INVARIANTS
    TypeOK
    UsedByClaimant
    ArchivesSound
    AcceptedPlanSound
PROPERTIES
    RemoteKept
    UnreadableStaysShut

CHECK_DEADLOCK FALSE
