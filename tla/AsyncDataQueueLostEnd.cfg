SPECIFICATION FairSpec
CONSTANTS
  InitialMaxSize = 2
  MaxSizes = {}
  MaxPoints = 4
  MaxChunk = 3
  MaxRequest = 3
  ULong = 16
  WriterCalls = {"addDataPoints", "notifyStreamEnd"}
  ReaderCalls = {"popDataPoints"}
  ControllerCalls = {}
PROPERTY EndUnblocksReader
CHECK_DEADLOCK FALSE
