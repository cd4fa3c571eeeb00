SPECIFICATION FairSpec
CONSTANTS
  r1 = r1
  r2 = r2
  Runner = {r1, r2}
  NoRunner = NoRunner
  Task = {1, 2}
  Deps <- Chain
  LeaseTime = 1
  RenewTime = 1
  RepairLeaseTime = 1
  SweepGrace = 9
  MaxTasks = 2
  MaxRepairs <- OneRepair
  MaxAttempt = 3
  MaxTime = 1
  MaxRuns = 1
INVARIANTS
  DependenciesVerifiedFirst
  OneLiveAttempt
  OneActiveLease
  NoLeaseRowWait
  WorktreeHasExecution
PROPERTY
  RunEnds
CHECK_DEADLOCK FALSE
