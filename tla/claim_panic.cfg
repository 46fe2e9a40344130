SPECIFICATION LaunchSpec
CONSTANTS
  Variables <- SomeVariables
  HorustEnv <- SomeHorustEnv
  HostnameFile = TRUE
  Setups <- OutputSetups
  NoName = NoName
  Names <- SomeNames
  LogPaths <- Logs
  MaxRuns = 1
  MaxBytes = 0
  PipeSize = 1
  Unopenable <- NoWhere
  Errnos <- SomeErrnos
INVARIANTS
  PanicPrintsItsMessage
CHECK_DEADLOCK FALSE
