SPECIFICATION FairLaunchSpec
CONSTANTS
  Variables <- SomeVariables
  HorustEnv <- SomeHorustEnv
  HostnameFile = FALSE
  Setups <- AllSetups
  NoName = NoName
  Names <- SomeNames
  LogPaths <- Logs
  MaxRuns = 2
  MaxBytes = 2
  PipeSize = 2
  Unopenable <- NoWhere
  Errnos <- SomeErrnos
INVARIANTS
  LaunchTypeOK
  DependenciesExist
  LoadedTogether
  OutputGoesWhereToldTo
  
  LogsAreComplete
  BrokenPipeOnlyWithoutLog
  ErrnoIsDecimal
PROPERTIES
  SpawnsReport
  WritersEnd
CHECK_DEADLOCK FALSE
