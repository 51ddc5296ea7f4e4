SPECIFICATION LockSpec
CONSTANTS
  Procs = {p1, p2, p3}
  Starts = 3
INVARIANTS
  OneEvaluation
  SplitOpenedOnce
PROPERTY
  RefusedOnlyByLiving
CHECK_DEADLOCK FALSE
