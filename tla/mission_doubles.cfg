CONSTANTS
  Names <- MCNames
  Handlers <- Reactions
  Deeds <- MCDeeds
  MaxSize = 2
  MaxRuns = 12
  MaxAdvance = 2
  MaxUnits = 4
  MaxFunctions = 2
  MaxSteps = 4
SPECIFICATION WorldSpec
CHECK_DEADLOCK FALSE
INVARIANT GroupsMatchUnits
PROPERTIES BirthsAreReportedOnce FunctionsRunInOrder NoFunctionIsLost
