SPECIFICATION FairSpec
CONSTANTS
  p1 = p1
  p2 = p2
  p3 = p3
  None = None
  Services <- TwoServices
  ServiceOrder <- TwoOrder
  Pids <- TwoPids
  Config <- FailuresConfig
  ReusePids = FALSE
  MaxReaps = 1
  IsInit = TRUE
  MaxLag = 1
  MaxBacklog = 9
  MaxSigterms = 0
PROPERTIES
  FailureSpreads
  ShutdownTerminates
  ImplementsLifecycle
