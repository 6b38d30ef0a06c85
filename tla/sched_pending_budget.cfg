SPECIFICATION Spec
CONSTANTS
  Clients = {c1, c2}
  NoClient = NoClient
  Requests <- AllShapes
  ResponseLengths = {2, 3}
  ErrorBytes = 1
  PumpGaps = {0, 1}
  ClockSteps = {}
  MaxConnections = 2
  MaxAcceptsPerPump = 2
  MaxVisitsPerPump = 2
  MaxDispatchesPerPump = 1
  IoChunkBytes = 2
  MaxIoBytesPerVisit = 3
  MaxIoBytesPerPump = 4
  MaxBufferedBodyBytes = 3
  MaxResponseBytes = 2
  RequestTimeout = 1
  ResponseTimeout = 1
  IdleTimeout = 0
  MaxPumpSeconds = 1
SYMMETRY Slots
INVARIANTS
  PendingResponsesHoldNoBudget
