SPECIFICATION Spec
CONSTANTS
  p1 = p1
  p2 = p2
  p3 = p3
  None = None
  Services <- OneService
  ServiceOrder <- OneOrder
  Pids <- TwoPids
  Config <- CheckedConfig
  ReusePids = FALSE
  MaxReaps = 20
  IsInit = FALSE
  MaxLag = 0
  MaxBacklog = 0
  MaxSigterms = 0
PROPERTIES
  StartedCheckIsExecuted
