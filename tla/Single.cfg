SPECIFICATION Spec
CONSTANTS
  r1 = r1
  r2 = r2
  Runner = {r1}
  NoRunner = NoRunner
  Task = {1, 2}
  Deps <- Independent
  LeaseTime = 1
  RenewTime = 1
  RepairLeaseTime = 1
  SweepGrace = 0
  MaxTasks = 2
  MaxRepairs <- TwoRepairs
  MaxAttempt = 4
  MaxTime = 2
  MaxRuns = 2
INVARIANTS
  TypeOK
  PassedHasEvidence
  NoDuplicateCommit
  NoBlindRerun
  RepairBudget
  EndedTaskNotLeased
PROPERTY
  LifecycleImplemented
CHECK_DEADLOCK FALSE
