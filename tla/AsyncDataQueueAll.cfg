SPECIFICATION Spec
CONSTANTS
  InitialMaxSize = 2
  MaxSizes = {0, 1, 3}
  MaxPoints = 4
  MaxChunk = 3
  MaxRequest = 3
  ULong = 16
  WriterCalls = {"addDataPoints", "addDataPoint", "notifyStreamEnd", "restartStreaming"}
  ReaderCalls = {"popDataPoints", "getDataPoints", "nextDataPoints", "discardRestOfStream"}
  ControllerCalls = {"setQueueMaxSize", "unblockReadOperations"}
INVARIANTS TypeOK InStreamOrder NoMissedData
CHECK_DEADLOCK FALSE
