SPECIFICATION Spec
CONSTANTS
  p1 = p1
  p2 = p2
  p3 = p3
  None = None
  Services <- TwoServices
  ServiceOrder <- TwoOrder
  Pids <- TwoPids
  Config <- ChainConfig
  ReusePids = FALSE
  MaxReaps = 1
  IsInit = FALSE
  MaxLag = 0
  MaxBacklog = 9
  MaxSigterms = 2
SYMMETRY PidSymmetry
INVARIANTS
  FinishedMeansGone
  StartAfterIsRespected
PROPERTIES
  ShutdownAfterIsRespected
  ImplementsLifecycle
