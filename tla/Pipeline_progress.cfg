SPECIFICATION FairSpec
CONSTANTS
  r1 = r1
  r2 = r2
  deps = deps
  clusters = clusters
  Requests <- MCRequests
  Configs <- MCClusterConfigs
  ClusterConfigs <- MCClusterConfigs
  MaxActiveTasks = 1
  MaxLives = 1
  MaxContainers = 2
  Faults <- ProgressFaults
  None = None
INVARIANTS
  RunningBounded
PROPERTIES
  EveryMessageIsTried
  RunIsAccountedFor
