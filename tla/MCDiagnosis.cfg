SPECIFICATION Spec
CONSTANTS
  Evaluations <- MCEvaluations
  Testable <- MCTestable
  TopM = 3
  Batch = 2
  MaxN = 3
  Concurrency = 2
  MaxFaults = 2
  Blames <- MCBlames
  Clears <- MCClears
INVARIANTS
  EvidenceIsReal
  BlameIsTheTapes
  BuysWhatItNeeds
