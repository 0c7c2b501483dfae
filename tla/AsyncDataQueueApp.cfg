SPECIFICATION FairSpec
CONSTANTS
  InitialMaxSize = 2
  MaxSizes = {}
  MaxPoints = 6
  MaxChunk = 3
  MaxRequest = 3
  ULong = 16
  WriterCalls <- AppWriterCalls
  ReaderCalls <- AppReaderCalls
  ControllerCalls = {}
PROPERTIES EmptyReadMeansDrained AddReturns QueuedPointsLeave
  ImplementsBoundedStream
CHECK_DEADLOCK FALSE
