SPECIFICATION Spec
CONSTANTS
  t1 = t1
  v1 = v1
  v2 = v2
  v3 = v3
  NoWorkerTask = NoWorkerTask
  NoVersion = NoVersion
  AgentDown = AgentDown
  Nobody = Nobody
  TheAgent = TheAgent
PROPERTY WorkIsAnswered
PROPERTY SubStoreIsKept
CHECK_DEADLOCK FALSE
