SPECIFICATION Spec
CONSTANTS
  Events = {0, 1, 2, 3, 4, 5, 6}
  Labels = {1, 2, 3}
  A = 1
  B = 2
  C = 3
  AcceptedDifference = 2
  EventId <- Ids
  EventTime <- Times
  LabelFile <- AllButEvent1
  PeriodPoints = 8
  RmsFeatures = 1
  Harmonics = 1
  SearchRadius = 3
  Partitions = 3
  K = 2
  Directories <- AllDirectories
INVARIANTS ArchiveIsComplete AlikeIsSafe TestedOnce
PROPERTY DropLeavesTheRest
CHECK_DEADLOCK FALSE
