SPECIFICATION FairSpec
CONSTANTS
  Events = {1, 2, 3, 4, 5, 6}
  Labels = {1, 2}
  A = 1
  B = 2
  K = 2
  AcceptedDifference = 2
  NewEvents = {5, 6}
  EventId <- Ids1To5
  EventTime <- Times
  LabelFile <- NoLabelFile
  Models <- FirstStart
  LabelTimePairs <- NoPairs
  Stops = {"stopAnalyzingWhenDone"}
PROPERTY StopsWhenDone
CHECK_DEADLOCK FALSE
