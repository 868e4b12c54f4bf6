SPECIFICATION SidePartsSpec
CONSTANTS
  c1 = c1
  c2 = c2
  c3 = c3
  Commits = {c1, c2, c3}
  First = c1
  SchemaOf <- MCSchemaOf
  None = None
  Mixed = Mixed
  MaxOperations = 8
  Operators = {o1, o2}
  MaxAccounts = 2
  MaxCommands = 3
  People = {p1, p2}
  Devices = {d1}
  Deliveries = {x1, x2}
  NoOne = NoOne
  MaxEndpoints = 2
  MaxRequests = 4
CONSTRAINT MCBounds
INVARIANTS
  ServedIsRecorded
  RollbackReady
  OutcomesTrue
  ActiveIsWhole
  SuspensionJustified
  EndpointHasOneOwner
  PushedOnce
PROPERTIES
  ForwardOnlyStays
CHECK_DEADLOCK FALSE
