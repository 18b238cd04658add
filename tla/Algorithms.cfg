SPECIFICATION MCSpec
CONSTANTS
  Length = 7
  Threads = 5
  SpawnMayFail = TRUE
  Options <- MetricOptions
  FitOptions <- MetricFitOptions
  ExecuteOptions <- MetricExecuteOptions
  Values <- MCValues
  Default <- MetricDefault
  Accepts <- MetricAccepts
  Offers <- MetricOffers
  Datasets <- MCDatasets
  Fittable <- MetricFittable
  KeywordArgs <- MCKeywordArgs
  DirectUse = TRUE
  NoValue = NoValue
  NoData = NoData
  Clusters <- MCClusters
  Parameters = {0, 1, 5}
  MaxClusters <- MCMaxClusters
  Ids <- MCIds
  IntWidth = 3
  Fractions <- MCFractions
  MaxRows <- MCRows
  MaxSize <- MCSize
  Width = 3
  SortLimit = 4
  NullColumns = {3}
  MinSupports = {1, 2}
  MinConfs <- MCConfs
  MaxLhs = {1, 3}
  MaxTuples = 3
INVARIANTS
  NoRace
  AllMerged
  OfferedBySet
  SnapshotStands
  CoherentUntilRevised
  MetricVerdicts
  MinesExactly
  CfdsAreMinimal
PROPERTIES
  PromiseKept
  LoopsReturn
  ConfigureEnds
CHECK_DEADLOCK FALSE
