SPECIFICATION Spec
CONSTANTS
  t1 = t1
  t2 = t2
  t3 = t3
  t4 = t4
  p1 = p1
  p2 = p2
  Task = {t1, t2, t3, t4}
  Deps <- Diamond
  Owner = t1
  Advancer = {p1, p2}
  Clock = {1, 2}
INVARIANT
  PackageIsBound
CHECK_DEADLOCK FALSE
