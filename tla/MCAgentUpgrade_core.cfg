SPECIFICATION Spec
CONSTANTS
  t1 = t1
  t2 = t2
  v1 = v1
  v2 = v2
  v3 = v3
  Task = {t1, t2}
  Version = {v1, v2, v3}
  Target <- MCTarget
  Installed = v1
  Broken = {v3}
  Changes = 3
  Deferred = TRUE
  Flaky = TRUE
  UncertainStart = FALSE
  MaxFaults = 1
  MaxCrashes = 1
  NoTask = NoTask
  NoVersion = NoVersion
  Down = Down
  Nobody = Nobody
  Agent = Agent
CHECK_DEADLOCK FALSE
INVARIANTS TypeOK OutcomeIsTrue OneUnfinishedTask NoDanglingReference RecoveryIsKept OperationsExcludeUpdate
PROPERTIES SuccessWasConfirmed
