SPECIFICATION Spec
CONSTANTS
  p1 = p1
  p2 = p2
  p3 = p3
  None = None
  Services <- OneService
  ServiceOrder <- OneOrder
  Pids <- OnePid
  Config <- PlainConfig
  ReusePids = FALSE
  MaxReaps = 20
  IsInit = FALSE
  MaxLag = 0
  MaxBacklog = 2
  MaxSigterms = 1
PROPERTIES
  NoSpawnDuringShutdown
