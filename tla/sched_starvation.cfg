SPECIFICATION TimedSpec
CONSTANTS
  Clients = {c1, c2, c3}
  NoClient = NoClient
  Requests <- OneByteRequest
  ResponseLengths = {1}
  ErrorBytes = 1
  PumpGaps = {0, 1}
  ClockSteps = {}
  MaxConnections = 3
  MaxAcceptsPerPump = 1
  MaxVisitsPerPump = 2
  MaxDispatchesPerPump = 1
  IoChunkBytes = 1
  MaxIoBytesPerVisit = 2
  MaxIoBytesPerPump = 4
  MaxBufferedBodyBytes = 0
  MaxResponseBytes = 1
  RequestTimeout = 2
  ResponseTimeout = 1
  IdleTimeout = 0
  MaxPumpSeconds = 1
PROPERTIES
  ReadyIsDispatched
