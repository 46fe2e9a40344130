SPECIFICATION FairSpecAll
CONSTANTS
  p1 = p1
  p2 = p2
  p3 = p3
  c1 = c1
  c2 = c2
  None = None
  Services <- OneService
  ServiceOrder <- OneOrder
  Pids <- OnePid
  Config <- FailingConfig
  ReusePids = FALSE
  MaxReaps = 20
  IsInit = FALSE
  MaxLag = 0
  MaxBacklog = 2
  MaxSigterms = 0
  Clients <- OneClient
  Requests <- SomeRequests
  Leftovers <- NothingLeft
PROPERTIES
  FailureExitsHorust
