SPECIFICATION Spec
CONSTANTS
  Clients = {c1, c2}
  NoClient = NoClient
  Requests <- AllShapes
  ResponseLengths = {2, 3}
  ErrorBytes = 1
  PumpGaps = {0, 1}
  ClockSteps = {1}
  MaxConnections = 2
  MaxAcceptsPerPump = 2
  MaxVisitsPerPump = 2
  MaxDispatchesPerPump = 1
  IoChunkBytes = 2
  MaxIoBytesPerVisit = 3
  MaxIoBytesPerPump = 3
  MaxBufferedBodyBytes = 3
  MaxResponseBytes = 2
  RequestTimeout = 3
  ResponseTimeout = 2
  IdleTimeout = 2
  MaxPumpSeconds = 2
SYMMETRY Slots
INVARIANTS
  TypeOK
  BodyBudgetExact
  WithinBodyBudget
  HandlerOnce
  ClosedForGood
  VisitGapBounded
  ServiceOrder
PROPERTIES
  HandlersWithinBudget
  OverdueNeverProgresses
  StatsBalance
  CompleteDelivery
  ImplementsExchange
