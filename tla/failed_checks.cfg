SPECIFICATION FairSpec
CONSTANTS
  p1 = p1
  p2 = p2
  p3 = p3
  None = None
  Services <- OneService
  ServiceOrder <- OneOrder
  Pids <- TwoPids
  Config <- CheckedConfig
  ReusePids = TRUE
  MaxReaps = 20
  IsInit = FALSE
  MaxLag = 0
  MaxBacklog = 0
  MaxSigterms = 2
PROPERTIES
  ShutdownTerminatesUnlessPanic
  NothingSpawnedWhenForced
CHECK_DEADLOCK FALSE
