SPECIFICATION FairSpec
CONSTANTS
  r1 = r1
  r2 = r2
  deps = deps
  clusters = clusters
  Requests <- OneRequest
  Configs <- MCConfigs
  ClusterConfigs <- MCClusterConfigs
  MaxActiveTasks = 1
  MaxLives = 2
  MaxContainers = 2
  Faults <- AllFaults
  None = None
INVARIANTS
  TypeOK
  PublishedIsSaved
  SuccessMeansPublished
  StoppedBeforeLimitError
  MessageFollowsRows
  NoForgottenContainer
  SoleRunner
PROPERTIES
  PoolSpec
  SettledStatusStands
  EveryRunEnds
