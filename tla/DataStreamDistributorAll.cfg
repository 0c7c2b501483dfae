SPECIFICATION FairSpec
CONSTANTS
  NumberOfRms = 2
  CompareAfter = 1
  SampleRate = 7
  DefaultSampleRate = 8
  PointsBefore = 5
  PointsOf = 6
  Lengths = {5, 10, 28}
  DefaultMeta <- UnconfiguredMeta
  Meta <- ConfiguredMeta
  PowerCurves <- Curves
  QueueCapacity = 2
INVARIANTS WorkersStayInBuffer EventsAreWhereDetected BufferStaysBounded SwitchOnIsReported DetectedIsReported BufferIsStream
PROPERTIES DetectorSkipsNothing ReadsAtRequestedPosition LoopEnds
CHECK_DEADLOCK FALSE
