SPECIFICATION FairSpec
CONSTANTS
  Items = {i1, i2, i3}
  Workers = 2
  MaxPasses = 2
  MaxCrashes = 2
  Polars = TRUE
INVARIANTS
  Accounted
  PublishedIsWhole
PROPERTY
  SupervisorEnds
CHECK_DEADLOCK FALSE
