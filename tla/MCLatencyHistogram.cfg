SPECIFICATION HistogramSpec
CONSTANTS
  Fast = 10
  Slow = 20
  MaxSamples = 2001
  MaxSlow = 2
INVARIANTS
  RankIsNearest
  PercentilesOrdered
PROPERTY
  PercentilesFollow
