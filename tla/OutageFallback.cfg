SPECIFICATION Spec
CONSTANTS
  c1 = c1
  t1 = t1
  t2 = t2
  t3 = t3
  NoTask = NoTask
  Command = {c1}
  Task = {t1, t2, t3}
  ProofTask = t2
  Deps <- Chain
  MaxPoints = 2
PROPERTY
  FallbackIsPreDatabase
CHECK_DEADLOCK FALSE
