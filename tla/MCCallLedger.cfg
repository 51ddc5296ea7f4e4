SPECIFICATION FairSpec
CONSTANTS
  a1 = a1
  a2 = a2
  b = b
  collect = collect
  record = record
  NoCap = NoCap
  Ramp = Ramp
  Callers <- MCCallers
  Procs <- MCProcs
  ProcOf <- MCProcOf
  Phases <- MCPhases
  PhaseOf <- MCPhaseOf
  MaxCalls <- MCMaxCalls
  CapScope <- MCScope
  Hooked <- MCHooked
  MaxElapsed = 1
  CallsEach = 1
  RampRows = 1
  Losses = 1
  Group <- MCGroup
  GroupCap = 3
  RowIds = {1, 2, 3, 4, 5, 6, 7, 8}
INVARIANTS
  CapHolds
  PaidBeforeSent
  RecordBeforeUse
PROPERTIES
  RowsArePermanent
  CallsEnd
  KeepsPromise
CHECK_DEADLOCK FALSE
