\* One request that all handlers match and one that a single handler matches.
CONSTANTS
  Handlers <- MCHandlers
  Incoming <- MCIncoming
  NoRoute = NoRoute
  NoMethod = NoMethod
  ParamChars = {"a"}
  MaxRuns = 3
  MaxCalls = 2
SPECIFICATION Spec
INVARIANTS OneHandleRequest OwnParameters MisdescribedIsRecorded
PROPERTY AnsweredOnce
CHECK_DEADLOCK FALSE
