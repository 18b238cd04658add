SPECIFICATION FairSpec
CONSTANTS
  r1 = r1
  r2 = r2
  deps = deps
  clusters = clusters
  Requests <- OneRequest
  Configs <- OneConfig
  ClusterConfigs <- NoConfigs
  MaxActiveTasks = 1
  MaxLives = 1
  MaxContainers = 1
  Faults <- DatabaseFault
  None = None
PROPERTIES
  CrashIsReported
