SPECIFICATION FairSpec
CONSTANTS
  Draws = {d1}
  Procs = {p, q}
  InfraRetries = 2
  MaxIds = 2
  Faults = 3
INVARIANTS
  NothingTwice
  OneAnswer
PROPERTY
  Converges
CHECK_DEADLOCK FALSE
