SPECIFICATION PrimitiveSpec
CONSTANTS
  Options <- MetricOptions
  FitOptions <- MetricFitOptions
  ExecuteOptions <- MetricExecuteOptions
  Values <- MCValues
  Default <- MetricDefault
  Accepts <- MetricAccepts
  Offers <- MetricOffers
  Datasets <- RefitDatasets
  Fittable <- MetricFittable
  KeywordArgs <- RefitKeywordArgs
  DirectUse = FALSE
  NoValue = NoValue
  NoData = NoData
INVARIANTS
  RhsFitsMetric
