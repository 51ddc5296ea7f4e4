SPECIFICATION Spec
CONSTANTS
  Threads = {t1, t2}
  Tasks = 3
  Calls = 1
  Attempts = 2
  Floor = 1
  Ceiling = 2
  Increase = 1
  CleanWindows = 2
  Storm429s = 2
  MinSample = 2
  MinThreads = 1
  MaxThreads = 2
  Latencies = {2}
  GateStorm = 2
  Recovery = 2
  GateMinimum = 1
  Window = 2
  Overrun = 0
INVARIANTS
  RateIsKept
  EdgeIsFollowed
PROPERTY TasksEnd
