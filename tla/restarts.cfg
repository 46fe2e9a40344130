SPECIFICATION Spec
CONSTANTS
  p1 = p1
  p2 = p2
  p3 = p3
  None = None
  Services <- OneService
  ServiceOrder <- OneOrder
  Pids <- OnePid
  Config <- RestartConfig
  ReusePids = TRUE
  MaxReaps = 20
  IsInit = FALSE
  MaxLag = 3
  MaxBacklog = 2
  MaxSigterms = 2
INVARIANTS
  TypeOK
  NoPanic
  AtMostOneInstance
  
PROPERTIES
  FinishedIsFinal
  ShutdownOnlyEscalates
  NothingSpawnedWhenForced
  ImplementsLifecycle
