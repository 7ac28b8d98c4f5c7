SPECIFICATION Spec
CONSTANTS
  d1 = d1
  d2 = d2
  d3 = d3
  config = config
  geo = geo
  rules = rules
  Deployment = {d1, d2}
  Path = {config, geo, rules}
  GeoPath = {geo}
  ProviderPath = {rules}
  Files <- MCFiles
  ReloadOnly = {d2}
  Preinstalled = {config}
  Legacy = {}
  Corruptible = {d1}
  KeepCompleted = 0
  ServiceMayFail = TRUE
  MaxFaults = 1
  MaxEdits = 1
  MaxCrashes = 1
  NoDeployment = NoDeployment
  Missing = Missing
  Unsaved = Unsaved
  Original = Original
  Edited = Edited
INVARIANTS TypeOK AtMostOneUnresolved RollbackIntentDurable LiveMatchesActive
PROPERTIES LiveWritesAreJournaled SuccessIsServed RunStateRestored
