SPECIFICATION Spec
CONSTANTS
  Pcbs = {p1, p2}
  Records = {r1, r2}
  Server = server
  Null = null
  ReqSize = 6
  PoolSize = 2
  MaxBody = 2
  Scripts <- SmallScripts
SYMMETRY Symmetry
INVARIANTS TypeOK CallbackArgValid RecordsAccounted FaultNeedsWindow
PROPERTY PbufLostOnlyWithConnection
