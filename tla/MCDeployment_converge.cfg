SPECIFICATION RecoverySpec
CONSTANTS
  d1 = d1
  d2 = d2
  d3 = d3
  config = config
  geo = geo
  rules = rules
  Deployment = {d1, d2}
  Path = {config, geo}
  GeoPath = {geo}
  ProviderPath = {}
  Files <- MCFiles
  ReloadOnly = {d2}
  Preinstalled = {config}
  Legacy = {d2}
  Corruptible = {d1}
  KeepCompleted = 0
  ServiceMayFail = FALSE
  MaxFaults = 1
  MaxEdits = 0
  MaxCrashes = 1
  NoDeployment = NoDeployment
  Missing = Missing
  Unsaved = Unsaved
  Original = Original
  Edited = Edited
PROPERTIES RecoveryConverges LockIsReleased ImplementsAtomicConfig RetentionIsSafe
