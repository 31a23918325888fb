SPECIFICATION MCSpec
CONSTANTS
  MaxCalls = 3
  PoolSize = 2
  Requests <- MCRequests
  Paths = {"in", "out"}
  InRoot = {"in"}
  Binary = {"in"}
  Branches = {"main", "topic"}
  MaxWork = 1
  Durable = TRUE
PROPERTY
  CreateNeverOverwrites
CHECK_DEADLOCK FALSE
