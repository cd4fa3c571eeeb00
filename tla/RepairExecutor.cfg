SPECIFICATION Spec
CONSTANTS
  r1 = r1
  r2 = r2
  Runner = {r1}
  NoRunner = NoRunner
  Task = {1}
  Deps <- Chain
  LeaseTime = 1
  RenewTime = 1
  RepairLeaseTime = 1
  SweepGrace = 9
  MaxTasks = 2
  MaxRepairs <- TwoRepairs
  MaxAttempt = 3
  MaxTime = 0
  MaxRuns = 1
PROPERTY
  ExecutorFailureTerminalizes
CHECK_DEADLOCK FALSE
