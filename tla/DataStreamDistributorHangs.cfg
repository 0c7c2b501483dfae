SPECIFICATION FairSpec
CONSTANTS
  NumberOfRms = 2
  CompareAfter = 1
  SampleRate = 7
  DefaultSampleRate = 7
  PointsBefore = 5
  PointsOf = 6
  Lengths = {14}
  DefaultMeta <- UnconfiguredMeta
  Meta <- ConfiguredMeta
  PowerCurves <- Curves
  QueueCapacity = 2
PROPERTY WorkersAreServed
CHECK_DEADLOCK FALSE
