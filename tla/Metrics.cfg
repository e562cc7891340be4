\* A cluster of one node or two; data points for two requests and a half.
CONSTANTS
  t1 = t1
  t2 = t2
  Target = {t1, t2}
  Clusters <- MCClusters
  MaxEvents = 2
  MaxLevel = 1
  MaxRestarts = 1
  localMetricDataSize = 2
  maxDataPoints = 2
  Grown <- GrownSmall
  MaxPoints = 5
SPECIFICATION FairSpec
INVARIANTS
  ProcessTypeOK
  GaugesAggregated
  CountedOncePerProcess
  SentOnce
PROPERTY
  PublishedIsSent
