SPECIFICATION Spec
CONSTANT MaxTime = 3
INVARIANT
  NoMetricIfLate
CHECK_DEADLOCK FALSE
