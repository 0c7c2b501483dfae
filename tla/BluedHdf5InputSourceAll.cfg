SPECIFICATION FairSpec
CONSTANTS
  FileSizes = {0, 5, 6}
  MaxPoints = 6
  BufferSize = 3
  Capacity = 4
  SampleRate = 4
  Second = 10
  FloatError = 1
  IntLimit = 8
INVARIANTS StreamIsFile TimesAtMostAChunkLate
PROPERTY RunnerReturns
CHECK_DEADLOCK FALSE
