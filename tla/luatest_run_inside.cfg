CONSTANTS
  MaxOps = 4
  MaxTests = 2
  MaxSuites = 2
  MaxHooks = 2
  MaxFlagged = 1
  MaxFailing = 1
SPECIFICATION Spec
CHECK_DEADLOCK FALSE
INVARIANT FailureNeverPasses
