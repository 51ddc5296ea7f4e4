SPECIFICATION Spec
CONSTANTS
  a = a
  b = b
  Tasks = {a, b}
  Workers = {w1, w2}
  Sites = {1, 2}
  Repeats <- MCRepeats
  Bucket <- MCBucket
  MaxKept = 2
  Trials = 1
  Target = 2
  Floor = 1
  MaxPasses = 2
  Starts = 2
INVARIANT FaultsAreFresh
CHECK_DEADLOCK FALSE
