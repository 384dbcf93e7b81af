CONSTANTS
  a = a
  b = b
  Clients = {a, b}
  Kinds = {"http", "graphql"}
  Everyone = Everyone
  ClientLimit <- One
  GlobalLimit <- One
  CleanupEvery = 2
  LastWindow = 2
  Routes <- TheRoutes
  Statuses <- TheStatuses
  Overflow = Overflow
  MaxSeries = 1
  MaxTimings = 1
  Slots = {1, 2}
  MaxRequests = 3
  Signals = {"SIGTERM"}
SPECIFICATION GatewaySpec
CONSTRAINT ClockApart
CHECK_DEADLOCK FALSE
INVARIANTS GateSound RefusalsAreFree ReportsSound
PROPERTIES Answered StopsInTime
