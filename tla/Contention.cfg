SPECIFICATION Spec
CONSTANTS
  r1 = r1
  r2 = r2
  Runner = {r1, r2}
  NoRunner = NoRunner
  Task = {1}
  Deps <- Chain
  LeaseTime = 1
  RenewTime = 1
  RepairLeaseTime = 1
  SweepGrace = 9
  MaxTasks = 2
  MaxRepairs <- OneRepair
  MaxAttempt = 2
  MaxTime = 0
  MaxRuns = 1
PROPERTY
  ContentionIsNotFailure
CHECK_DEADLOCK FALSE
