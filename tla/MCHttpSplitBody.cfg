SPECIFICATION Spec
CONSTANTS
  Pcbs = {p1}
  Records = {r1}
  Server = server
  Null = null
  ReqSize = 7
  PoolSize = 2
  MaxBody = 1
  Scripts <- SplitBody
INVARIANT HandledAsSent
