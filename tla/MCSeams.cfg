SPECIFICATION SeamsSpec
CONSTANTS
  t1 = t1
  t2 = t2
  t3 = t3
  Threads <- MCThreads
  Sessions = {"eval", "collect"}
  Jobs = 4
SYMMETRY Symmetry
INVARIANTS
  OwnVoice
  SeamIsRestored
  JudgeNests
CHECK_DEADLOCK FALSE
