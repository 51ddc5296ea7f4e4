SPECIFICATION Spec
CONSTANTS
  MaxSteps = 4
  MaxRuns = 2
  Kinds <- AllKinds
  Hooks = {FALSE, TRUE}
INVARIANTS
  ForkIsTheParent
  VerdictsAreTrue
  ToolsActOnTheirBefore
CHECK_DEADLOCK FALSE
