SPECIFICATION Spec
CONSTANTS
  r1 = r1
  r2 = r2
  deps = deps
  clusters = clusters
  Requests <- MCRequests
  Configs <- OneConfig
  ClusterConfigs <- NoConfigs
  MaxActiveTasks = 1
  MaxLives = 1
  MaxContainers = 2
  Faults <- AlgorithmFault
  None = None
INVARIANTS
  PublishedWasMined
