SPECIFICATION FairSpec
CONSTANTS
  Pcbs = {p1}
  Records = {r1}
  Server = server
  Null = null
  ReqSize = 7
  PoolSize = 2
  MaxBody = 2
  Scripts <- WholeScripts
INVARIANTS HandledAsSent CompleteMeansHandled SpecificRouteWins RequestTerminated
PROPERTIES PcbReturned AllDoneMeansAcked
