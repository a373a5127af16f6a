SPECIFICATION FairSpec
CONSTANT MaxTime = 5
INVARIANTS
  TypeOK
  StableMetric
  Truthful
PROPERTY
  EndIsRecorded
CHECK_DEADLOCK FALSE
